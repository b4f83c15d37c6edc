--------------------------- MODULE DsmMeshProofs ---------------------------
(***************************************************************************)
(* Theorems about DsmMesh, for every number of processes.                  *)
(***************************************************************************)
EXTENDS DsmMesh, FiniteSets, FiniteSetTheorems, FunctionTheorems, TLAPS

Inv == TypeOK /\ ConnectionsAccounted

\* Before anybody listens, no entry is filled and nobody has called.
LEMMA InitInv == Init => Inv
<1> SUFFICES ASSUME Init PROVE Inv
  OBVIOUS
<1>1. TypeOK
  BY MeshAssumption DEF Init, TypeOK, Rank
<1>2. ASSUME NEW n \in Rank PROVE LoopBounds(n) /\ OtherEntries(n) /\ Callers(n)
  <2>1. pc[n] = "start" /\ queue[n] = << >> /\ \A i \in Rank : slot[n][i] = n
    BY DEF Init
  <2>2. Filled(n) = {} /\ \A i \in Rank : n \notin Calling(i)
    BY <2>1 DEF Filled, Calling
  <2> QED BY <2>1, <2>2 DEF LoopBounds, OtherEntries, Callers
<1> QED BY <1>1, <1>2 DEF Inv, ConnectionsAccounted

\* A step of n changes the entries and the loop of n only.
LEMMA OthersKeep ==
  ASSUME TypeOK, NEW n \in Rank, Step(n), NEW m \in Rank \ {n}
  PROVE  pc'[m] = pc[m] /\ idx'[m] = idx[m] /\ slot'[m] = slot[m]
BY DEF TypeOK, Step, Listen, Accept, EndAccept, Connect, Start

\* A call, once made, stays made.
LEMMA CallsStay ==
  ASSUME TypeOK, NEW n \in Rank, Step(n), NEW m \in Rank
  PROVE  /\ Calling(m) \subseteq Calling(m)'
         /\ Calling(m)' \subseteq Calling(m) \cup {n}
<1>0. \A r \in Rank : r \in Int /\ idx[r] \in Int
  BY MeshAssumption DEF TypeOK, Rank
<1>1. ASSUME NEW r \in Rank \ {n} PROVE r \in Calling(m)' <=> r \in Calling(m)
  BY <1>1, OthersKeep DEF Calling
<1>2. ASSUME n \in Calling(m) PROVE n \in Calling(m)'
  <2>1. n < m /\ (pc[n] = "ready" \/ (pc[n] = "connect" /\ m < idx[n]))
    BY <1>2 DEF Calling
  <2>2. CASE Connect(n)
    <3>1. pc'[n] = "connect" /\ idx'[n] = idx[n] + 1 /\ m < idx[n]
      BY <2>1, <2>2 DEF Connect, TypeOK
    <3>2. m < idx'[n]
      BY <1>0, <3>1
    <3> QED BY <2>1, <3>1, <3>2 DEF Calling
  <2>3. CASE Start(n)
    <3>1. pc'[n] = "ready"
      BY <2>3 DEF Start, TypeOK
    <3> QED BY <2>1, <3>1 DEF Calling
  <2> QED BY <2>1, <2>2, <2>3 DEF Step, Listen, Accept, EndAccept
<1>3. Calling(m)' \subseteq Rank
  BY DEF Calling
<1> QED BY <1>1, <1>2, <1>3 DEF Calling

\* What a step of n leaves true of a process whose queue it leaves alone.
LEMMA Unaffected ==
  ASSUME Inv, NEW n \in Rank, Step(n), NEW m \in Rank \ {n}, queue'[m] = queue[m]
  PROVE  (LoopBounds(m) /\ OtherEntries(m) /\ Callers(m))'
<1>0. TypeOK /\ LoopBounds(m) /\ OtherEntries(m) /\ Callers(m)
  BY DEF Inv, ConnectionsAccounted
<1>1. pc'[m] = pc[m] /\ idx'[m] = idx[m] /\ slot'[m] = slot[m]
  BY <1>0, OthersKeep
<1>2. Filled(m)' = Filled(m) /\ \A i \in Rank : m \in Calling(i)' <=> m \in Calling(i)
  BY <1>1 DEF Filled, Calling
<1>3. LoopBounds(m)'
  BY <1>0, <1>1 DEF LoopBounds
<1>4. OtherEntries(m)'
  BY <1>0, <1>1, <1>2 DEF OtherEntries
<1>5. \A i \in Filled(m) : slot[m][i] \in Rank
  BY <1>0 DEF TypeOK, Filled
<1>6. \A k \in DOMAIN queue[m] : queue[m][k] \in Rank
  BY <1>0 DEF TypeOK
<1>7. Calling(m) \subseteq Calling(m)'
  BY <1>0, CallsStay
<1>8. Callers(m)'
  BY <1>0, <1>1, <1>2, <1>5, <1>6, <1>7 DEF Callers
<1> QED BY <1>3, <1>4, <1>8

\* The steps that touch no queue.
LEMMA LocalStep ==
  ASSUME Inv, NEW n \in Rank, Listen(n) \/ EndAccept(n) \/ Start(n)
  PROVE  Inv'
<1>0. TypeOK /\ LoopBounds(n) /\ OtherEntries(n) /\ Callers(n) /\ Step(n)
  BY DEF Inv, ConnectionsAccounted, Step
<1>r. n \in Int /\ DSM_NODE_NUM \in Int /\ 0 <= n /\ n < DSM_NODE_NUM
      /\ Rank \subseteq Int /\ idx[n] \in Int
  BY <1>0, MeshAssumption DEF Rank, TypeOK
<1>k. slot' = slot /\ queue' = queue
  BY DEF Listen, EndAccept, Start
<1>1. TypeOK'
  BY <1>0, <1>r DEF TypeOK, Listen, EndAccept, Start
<1>2. LoopBounds(n)'
  BY <1>0, <1>r DEF TypeOK, LoopBounds, Listen, EndAccept, Start
\* All the lower entries are still to be filled, or all are filled.
<1>3. Filled(n)' = Filled(n)
  <2>1. CASE Listen(n)
    BY <1>0, <1>r, <2>1 DEF TypeOK, Filled, Listen
  <2>2. CASE EndAccept(n)
    <3>1. pc[n] = "accept" /\ idx[n] < 0 /\ pc'[n] = "connect"
      BY <1>0, <2>2 DEF TypeOK, EndAccept
    <3>2. \A i \in Rank : idx[n] < i
      BY <1>r, <3>1 DEF Rank
    <3> QED BY <3>1, <3>2 DEF Filled
  <2>3. CASE Start(n)
    BY <1>0, <2>3 DEF TypeOK, Filled, Start
  <2> QED BY <2>1, <2>2, <2>3
<1>4. \A i \in Rank : n \in Calling(i)' <=> n \in Calling(i)
  <2>1. CASE Listen(n)
    BY <1>0, <2>1 DEF TypeOK, Calling, Listen
  <2>2. CASE EndAccept(n)
    <3>1. pc[n] = "accept" /\ pc'[n] = "connect" /\ idx'[n] = n + 1
      BY <1>0, <2>2 DEF TypeOK, EndAccept
    <3> QED BY <1>r, <3>1 DEF Calling
  <2>3. CASE Start(n)
    <3>1. pc[n] = "connect" /\ pc'[n] = "ready" /\ idx[n] = DSM_NODE_NUM
      BY <1>0, <2>3 DEF TypeOK, Start
    <3> QED BY <1>r, <3>1 DEF Calling, Rank
  <2> QED BY <2>1, <2>2, <2>3
<1>5. OtherEntries(n)'
  BY <1>0, <1>k, <1>3, <1>4 DEF OtherEntries
<1>6. Calling(n) \subseteq Calling(n)'
  BY <1>0, CallsStay
<1>7. \A i \in Filled(n) : slot[n][i] \in Rank
  BY <1>0 DEF TypeOK, Filled
<1>8. \A k \in DOMAIN queue[n] : queue[n][k] \in Rank
  BY <1>0 DEF TypeOK
<1>9. Callers(n)'
  BY <1>0, <1>k, <1>3, <1>6, <1>7, <1>8 DEF Callers
<1>10. ASSUME NEW m \in Rank PROVE (LoopBounds(m) /\ OtherEntries(m) /\ Callers(m))'
  BY <1>0, <1>k, <1>2, <1>5, <1>9, Unaffected
<1> QED BY <1>1, <1>10 DEF Inv, ConnectionsAccounted

\* The first connection of the queue fills the next entry.
LEMMA AcceptStep ==
  ASSUME Inv, NEW n \in Rank, Accept(n)
  PROVE  Inv'
<1> DEFINE e == idx[n]
           h == Head(queue[n])
<1>0. TypeOK /\ LoopBounds(n) /\ OtherEntries(n) /\ Callers(n) /\ Step(n)
  BY DEF Inv, ConnectionsAccounted, Step
<1>1. /\ pc[n] = "accept" /\ e \in 0 .. n - 1 /\ e \in Rank /\ n \in Nat
      /\ queue[n] \in Seq(Rank) /\ queue[n] # << >>
  BY <1>0, MeshAssumption DEF TypeOK, LoopBounds, Accept, Rank
<1>2. /\ h \in Rank /\ h = queue[n][1] /\ 1 \in DOMAIN queue[n]
      /\ Tail(queue[n]) \in Seq(Rank)
      /\ \A k \in DOMAIN Tail(queue[n]) :
            /\ k + 1 \in DOMAIN queue[n] /\ k + 1 # 1
            /\ Tail(queue[n])[k] = queue[n][k + 1]
  BY <1>1
<1>3. /\ slot' = [slot EXCEPT ![n][e] = h]
      /\ queue' = [queue EXCEPT ![n] = Tail(@)]
      /\ idx' = [idx EXCEPT ![n] = @ - 1]
      /\ pc' = pc
  BY DEF Accept
<1>4. TypeOK'
  <2>1. e - 1 \in -1 .. DSM_NODE_NUM
    BY <1>1, MeshAssumption DEF Rank
  <2>2. idx' \in [Rank -> -1 .. DSM_NODE_NUM]
    BY <1>0, <1>3, <2>1 DEF TypeOK
  <2>3. queue' \in [Rank -> Seq(Rank)]
    BY <1>0, <1>2, <1>3 DEF TypeOK
  <2>4. slot' \in [Rank -> [Rank -> Rank]]
    BY <1>0, <1>1, <1>2, <1>3 DEF TypeOK
  <2> QED BY <1>0, <1>3, <2>2, <2>3, <2>4 DEF TypeOK
<1>5. /\ slot'[n] = [slot[n] EXCEPT ![e] = h] /\ queue'[n] = Tail(queue[n])
      /\ idx'[n] = e - 1
  BY <1>0, <1>1, <1>3 DEF TypeOK
<1>6. LoopBounds(n)'
  BY <1>1, <1>3, <1>5 DEF LoopBounds
<1>7. Filled(n)' = Filled(n) \cup {e} /\ e \notin Filled(n)
  BY <1>1, <1>3, <1>5 DEF Filled, Rank
<1>8. \A i \in Rank : Calling(i)' = Calling(i)
  BY <1>0, <1>1, <1>3 DEF Calling, TypeOK
<1>9. slot[n] \in [Rank -> Rank] /\ Filled(n) \subseteq Rank
  BY <1>0 DEF TypeOK, Filled
<1>10. OtherEntries(n)'
  BY <1>0, <1>1, <1>5, <1>7, <1>8, <1>9 DEF OtherEntries
<1>11. Callers(n)'
  <2>1. /\ h \in Calling(n)
        /\ \A i \in Filled(n) : slot[n][i] # h
        /\ \A k \in DOMAIN Tail(queue[n]) : Tail(queue[n])[k] # h
    BY <1>0, <1>2 DEF Callers
  <2>2. \A i \in Filled(n)' : slot'[n][i] \in Calling(n)
    BY <1>0, <1>1, <1>5, <1>7, <1>9, <2>1 DEF Callers
  <2>3. \A k \in DOMAIN queue'[n] : queue'[n][k] \in Calling(n)
    BY <1>0, <1>2, <1>5 DEF Callers
  <2>4. \A i, j \in Filled(n)' : slot'[n][i] = slot'[n][j] => i = j
    BY <1>0, <1>1, <1>5, <1>7, <1>9, <2>1 DEF Callers
  <2>5. \A k, l \in DOMAIN queue'[n] : queue'[n][k] = queue'[n][l] => k = l
    BY <1>0, <1>2, <1>5 DEF Callers
  <2>6. \A i \in Filled(n)', k \in DOMAIN queue'[n] : slot'[n][i] # queue'[n][k]
    BY <1>0, <1>1, <1>2, <1>5, <1>7, <1>9, <2>1 DEF Callers
  <2> QED BY <1>8, <2>2, <2>3, <2>4, <2>5, <2>6 DEF Callers
<1>12. ASSUME NEW m \in Rank PROVE (LoopBounds(m) /\ OtherEntries(m) /\ Callers(m))'
  <2>1. CASE m = n
    BY <1>6, <1>10, <1>11, <2>1
  <2>2. CASE m # n
    BY <1>0, <1>3, <2>2, Unaffected DEF TypeOK
  <2> QED BY <2>1, <2>2
<1> QED BY <1>4, <1>12 DEF Inv, ConnectionsAccounted

\* A call joins the queue of the process that is called.
LEMMA ConnectStep ==
  ASSUME Inv, NEW n \in Rank, Connect(n)
  PROVE  Inv'
<1>0. TypeOK /\ LoopBounds(n) /\ OtherEntries(n) /\ Callers(n) /\ Step(n)
  BY DEF Inv, ConnectionsAccounted, Step
<1>m. PICK m \in Rank : m = idx[n]
  BY <1>0, MeshAssumption DEF TypeOK, LoopBounds, Connect, Rank
<1>1. /\ pc[n] = "connect" /\ n < m /\ m # n /\ pc[m] # "start"
      /\ m + 1 \in n + 1 .. DSM_NODE_NUM /\ n \in Nat /\ m \in Nat
  BY <1>0, <1>m, MeshAssumption DEF TypeOK, LoopBounds, Connect, Rank
<1>2. LoopBounds(m) /\ OtherEntries(m) /\ Callers(m)
  BY <1>1 DEF Inv, ConnectionsAccounted
<1>3. /\ queue' = [queue EXCEPT ![m] = Append(@, n)]
      /\ slot' = [slot EXCEPT ![n][m] = m]
      /\ idx' = [idx EXCEPT ![n] = @ + 1]
      /\ pc' = pc
  BY <1>m DEF Connect
<1>4. TypeOK'
  <2>1. idx' \in [Rank -> -1 .. DSM_NODE_NUM]
    BY <1>0, <1>m, <1>1, <1>3, MeshAssumption DEF TypeOK
  <2>2. Append(queue[m], n) \in Seq(Rank)
    BY <1>0, <1>1 DEF TypeOK
  <2>3. queue' \in [Rank -> Seq(Rank)]
    BY <1>0, <1>3, <2>2 DEF TypeOK
  <2>4. slot' \in [Rank -> [Rank -> Rank]]
    BY <1>0, <1>1, <1>3 DEF TypeOK
  <2> QED BY <1>0, <1>3, <2>1, <2>3, <2>4 DEF TypeOK
<1>5. /\ slot'[n] = [slot[n] EXCEPT ![m] = m] /\ idx'[n] = m + 1
      /\ queue'[m] = Append(queue[m], n) /\ queue'[n] = queue[n]
  BY <1>0, <1>m, <1>1, <1>3 DEF TypeOK
<1>6. Filled(n)' = Filled(n) /\ m \notin Filled(n)
  BY <1>1, <1>3 DEF Filled
<1>7. LoopBounds(n)'
  BY <1>1, <1>3, <1>5 DEF LoopBounds
\* The only new call is that of n to m.
<1>8. n \notin Calling(m) /\ Calling(m)' = Calling(m) \cup {n}
  <2>1. n \notin Calling(m)
    BY <1>m, <1>1 DEF Calling
  <2>2. n \in Calling(m)'
    BY <1>1, <1>3, <1>5 DEF Calling
  <2> QED BY <1>0, <1>1, <2>1, <2>2, CallsStay
<1>9. \A i \in Rank \ {m} : n \in Calling(i)' <=> n \in Calling(i)
  BY <1>m, <1>1, <1>3, <1>5 DEF Calling, Rank
<1>10. slot[n] \in [Rank -> Rank] /\ Filled(n) \subseteq Rank
  BY <1>0 DEF TypeOK, Filled
<1>11. OtherEntries(n)'
  <2>1. ASSUME NEW i \in Rank, i \notin Filled(n)
        PROVE  slot'[n][i] = IF n \in Calling(i)' THEN i ELSE n
    <3>1. CASE i = m
      BY <1>5, <1>8, <1>10, <3>1
    <3>2. CASE i # m
      BY <1>0, <1>5, <1>9, <1>10, <2>1, <3>2 DEF OtherEntries
    <3> QED BY <3>1, <3>2
  <2> QED BY <1>6, <2>1 DEF OtherEntries
<1>12. Callers(n)'
  <2>1. Calling(n) \subseteq Calling(n)'
    BY <1>0, CallsStay
  <2>2. \A i \in Filled(n) : slot'[n][i] = slot[n][i]
    BY <1>5, <1>6, <1>10
  <2> QED BY <1>0, <1>5, <1>6, <2>1, <2>2 DEF Callers
<1>13. Callers(m)'
  <2>1. slot'[m] = slot[m] /\ Filled(m)' = Filled(m)
    BY <1>0, <1>1, OthersKeep DEF Filled
  <2> DEFINE q == queue[m]
  <2>2. /\ DOMAIN queue'[m] = DOMAIN q \cup {Len(q) + 1} /\ Len(q) + 1 \notin DOMAIN q
        /\ queue'[m][Len(q) + 1] = n
        /\ \A k \in DOMAIN q : queue'[m][k] = q[k]
    BY <1>0, <1>1, <1>5 DEF TypeOK
  <2>3. /\ \A k \in DOMAIN q : q[k] # n
        /\ \A i \in Filled(m) : slot[m][i] # n
    BY <1>2, <1>8 DEF Callers
  <2>4. \A i \in Filled(m) : slot'[m][i] \in Calling(m)'
    BY <1>2, <1>8, <2>1 DEF Callers
  <2>5. \A k \in DOMAIN queue'[m] : queue'[m][k] \in Calling(m)'
    BY <1>2, <1>8, <2>2 DEF Callers
  <2>6. \A i, j \in Filled(m) : slot'[m][i] = slot'[m][j] => i = j
    BY <1>2, <2>1 DEF Callers
  <2>7. \A k, l \in DOMAIN queue'[m] : queue'[m][k] = queue'[m][l] => k = l
    BY <1>2, <2>2, <2>3 DEF Callers
  <2>8. \A i \in Filled(m), k \in DOMAIN queue'[m] : slot'[m][i] # queue'[m][k]
    BY <1>2, <2>1, <2>2, <2>3 DEF Callers
  <2> QED BY <2>1, <2>4, <2>5, <2>6, <2>7, <2>8 DEF Callers
<1>14. LoopBounds(m)' /\ OtherEntries(m)'
  <2>1. pc'[m] = pc[m] /\ idx'[m] = idx[m] /\ slot'[m] = slot[m]
    BY <1>0, <1>1, OthersKeep
  <2>2. Filled(m)' = Filled(m) /\ \A i \in Rank : m \in Calling(i)' <=> m \in Calling(i)
    BY <2>1 DEF Filled, Calling
  <2>3. OtherEntries(m)'
    BY <1>2, <2>1, <2>2 DEF OtherEntries
  <2>4. LoopBounds(m)'
    BY <1>1, <1>2, <2>1 DEF LoopBounds
  <2> QED BY <2>3, <2>4
<1>15. ASSUME NEW r \in Rank PROVE (LoopBounds(r) /\ OtherEntries(r) /\ Callers(r))'
  <2>1. CASE r = n
    BY <1>7, <1>11, <1>12, <2>1
  <2>2. CASE r = m
    BY <1>13, <1>14, <2>2
  <2>3. CASE r # n /\ r # m
    BY <1>0, <1>3, <2>3, Unaffected DEF TypeOK
  <2> QED BY <2>1, <2>2, <2>3
<1> QED BY <1>4, <1>15 DEF Inv, ConnectionsAccounted

\* The inductive invariant holds, for every number of processes and every order
\* of their steps.
LEMMA MeshHolds == Spec => []Inv
<1>1. Inv /\ [Next]_vars => Inv'
  <2>1. CASE UNCHANGED vars
    <3>1. \A n \in Rank : /\ LoopBounds(n)' <=> LoopBounds(n)
                          /\ Filled(n)' = Filled(n) /\ Calling(n)' = Calling(n)
      BY <2>1 DEF vars, LoopBounds, Filled, Calling
    <3>2. \A n \in Rank : (OtherEntries(n)' <=> OtherEntries(n)) /\ (Callers(n)' <=> Callers(n))
      BY <2>1, <3>1 DEF vars, OtherEntries, Callers
    <3> QED BY <2>1, <3>1, <3>2 DEF vars, Inv, TypeOK, ConnectionsAccounted
  <2>2. ASSUME Inv, NEW n \in Rank, Step(n) PROVE Inv'
    BY <2>2, LocalStep, AcceptStep, ConnectStep DEF Step
  <2> QED BY <2>1, <2>2 DEF Next
<1> QED BY <1>1, InitInv, PTL DEF Spec

\* Every variable keeps its type: the loops of dsm_init stop at the last rank.
THEOREM MeshTyped == Spec => []TypeOK
<1>1. Inv => TypeOK
  BY DEF Inv
<1> QED BY <1>1, MeshHolds, PTL

\* Every connection made is in one queue or in one entry.
THEOREM Accounted == Spec => []ConnectionsAccounted
<1>1. Inv => ConnectionsAccounted
  BY DEF Inv
<1> QED BY <1>1, MeshHolds, PTL

----------------------------------------------------------------------------
\* When all the entries of n are filled, no two of them are the same, so that
\* there is room for every process.
LEMMA EntriesReachAll ==
  ASSUME Inv, NEW n \in Rank, pc[n] = "ready"
  PROVE  /\ slot[n][n] = n
         /\ \A i, j \in Rank : slot[n][i] = slot[n][j] => i = j
         /\ \A m \in Rank : \E i \in Rank : slot[n][i] = m
<1>0. slot[n] \in [Rank -> Rank] /\ OtherEntries(n) /\ Callers(n)
  BY DEF Inv, TypeOK, ConnectionsAccounted
<1>1. \A i \in Rank : /\ i \in Filled(n) <=> i < n
                      /\ n \in Calling(i) <=> n < i
                      /\ i \in Int /\ slot[n][i] \in Int
  BY <1>0, MeshAssumption DEF Filled, Calling, Rank
<1>2. \A i \in Rank : /\ i < n => slot[n][i] < n
                      /\ n < i => slot[n][i] = i
                      /\ ~(i < n) /\ ~(n < i) => i = n
  <2>1. \A i \in Rank : i < n => slot[n][i] < n
    BY <1>0, <1>1, MeshAssumption DEF Callers, Calling, Rank
  <2>2. \A i \in Rank : n < i => slot[n][i] = i
    <3> SUFFICES ASSUME NEW i \in Rank, n < i PROVE slot[n][i] = i
      OBVIOUS
    <3>1. n \in Int /\ i \in Int /\ ~(i < n)
      BY <1>1
    <3>2. i \notin Filled(n) /\ n \in Calling(i)
      BY <1>1, <3>1
    <3> QED BY <1>0, <3>2 DEF OtherEntries
  <2>3. \A i \in Rank : ~(i < n) /\ ~(n < i) => i = n
    BY MeshAssumption DEF Rank
  <2> QED BY <2>1, <2>2, <2>3
<1>8. slot[n][n] = n
  BY <1>0, MeshAssumption DEF OtherEntries, Filled, Calling, Rank
<1>3. \A i, j \in Rank : slot[n][i] = slot[n][j] => i = j
  <2>1. \A i, j \in Rank : i < n /\ j < n /\ slot[n][i] = slot[n][j] => i = j
    BY <1>0, <1>1 DEF Callers
  <2> SUFFICES ASSUME NEW i \in Rank, NEW j \in Rank, slot[n][i] = slot[n][j]
               PROVE  i = j
    OBVIOUS
  <2>2. n \in Int /\ i \in Int /\ j \in Int
    BY <1>1
  <2>3. CASE i < n
    <3>1. slot[n][j] < n
      BY <1>2, <2>3
    <3>2. ~(n < j)
      BY <1>2, <2>2, <3>1
    <3>3. j # n
      BY <1>8, <2>2, <3>1
    <3> QED BY <1>2, <2>1, <2>3, <3>2, <3>3
  <2>4. CASE j < n
    <3>1. slot[n][i] < n
      BY <1>2, <2>4
    <3>2. ~(n < i)
      BY <1>2, <2>2, <3>1
    <3>3. i # n
      BY <1>8, <2>2, <3>1
    <3> QED BY <1>2, <2>1, <2>4, <3>2, <3>3
  <2>5. CASE ~(i < n) /\ ~(j < n)
    BY <1>2, <1>8, <2>2, <2>5
  <2> QED BY <2>3, <2>4, <2>5
<1>4. IsFiniteSet(Rank)
  BY FS_Interval, MeshAssumption DEF Rank
<1>5. slot[n] \in Injection(Rank, Rank)
  BY <1>0, <1>3, Fun_IsInj
<1>6. slot[n] \in Surjection(Rank, Rank)
  BY <1>4, <1>5, FS_Injection
<1>7. \A m \in Rank : \E i \in Rank : slot[n][i] = m
  BY <1>6, Fun_SurjectionProperties
<1> QED BY <1>3, <1>7, <1>8

\* For every number of processes: a process that has left dsm_init reaches
\* every other one by one descriptor, whatever the order of the connections.
THEOREM Reachable == Spec => []MeshComplete
<1>1. Inv => MeshComplete
  <2> SUFFICES ASSUME Inv, NEW n \in Rank, pc[n] = "ready"
               PROVE  /\ {slot[n][i] : i \in Rank \ {n}} = Rank \ {n}
                      /\ \A m \in Rank \ {n} : pc[m] = "ready" => \E i \in Rank : slot[m][i] = n
    BY DEF MeshComplete
  <2>1. slot[n] \in [Rank -> Rank]
    BY DEF Inv, TypeOK
  <2>2. {slot[n][i] : i \in Rank \ {n}} \subseteq Rank \ {n}
    BY <2>1, EntriesReachAll
  <2>3. Rank \ {n} \subseteq {slot[n][i] : i \in Rank \ {n}}
    BY <2>1, EntriesReachAll
  <2>4. \A m \in Rank \ {n} : pc[m] = "ready" => \E i \in Rank : slot[m][i] = n
    BY EntriesReachAll
  <2> QED BY <2>2, <2>3, <2>4
<1> QED BY <1>1, MeshHolds, PTL

=============================================================================
