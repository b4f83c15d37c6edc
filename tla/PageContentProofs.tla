------------------------- MODULE PageContentProofs -------------------------
(***************************************************************************)
(* What becomes of a page, for pages of any size, any number of processes  *)
(* and any writes.                                                         *)
(***************************************************************************)
EXTENDS PageContent, TLAPS

\* The page is settled somewhere, or is a copy about to be sent, or a line on
\* its way; or it is lost, by a process that aborts.
Token(kind, h) ==
  \A n \in Process :
    /\ Settled(n) <=> kind = "settled" /\ n = h
    /\ daemon[n].pc = "line" <=> kind = "line" /\ n = h
    /\ wire[n].line # NoLine <=> kind = "wire" /\ n = h
OneToken == \E kind \in {"settled", "line", "wire", "lost"}, h \in Process : Token(kind, h)

\* A daemon that is to copy has a page, one that is to send has a line.
Ready == \A n \in Process : /\ daemon[n].pc = "copy" => memory[n] # Unmapped
                            /\ daemon[n].pc = "line" => daemon[n].line # NoLine

\* The bytes that should survive are in the copy, and in the line.
Carries(line) == \A k \in kept : k < line.len /\ line.text[k] = written[k]
KeptInCopy == \A n \in Process : daemon[n].pc = "line" => Carries(daemon[n].line)
KeptOnWire == \A n \in Process : wire[n].line # NoLine => Carries(wire[n].line)

Inv == TypeOK /\ Ready /\ OneToken /\ KeptIsRead /\ KeptInCopy /\ KeptOnWire

LEMMA Different ==
  /\ Unmapped \notin Content /\ Zeros \in Content /\ NoLine \notin Line
<1>1. 0 \in Offset
  BY ContentAssumption DEF Offset
<1>2. Zeros \in Content
  BY ContentAssumption DEF Zeros, Content
<1>3. Unmapped \notin Content
  BY <1>1 DEF Unmapped, Content
<1>4. NoLine \notin Line
  BY ContentAssumption DEF NoLine, Line
<1> QED BY <1>2, <1>3, <1>4

LEMMA DaemonUpdate ==
  ASSUME NEW d \in DaemonState, NEW m \in Process, NEW line \in Line \cup {NoLine},
         NEW pc \in {"idle", "copy", "line", "unmap", "fill", "aborted"}
  PROVE  /\ [d EXCEPT !.pc = pc] \in DaemonState
         /\ [d EXCEPT !.pc = pc, !.peer = m] \in DaemonState
         /\ [d EXCEPT !.pc = pc, !.line = line] \in DaemonState
<1>1. [d EXCEPT !.pc = pc] \in DaemonState
  BY DEF DaemonState
<1>2. \A e \in DaemonState : /\ [e EXCEPT !.peer = m] \in DaemonState
                             /\ [e EXCEPT !.line = line] \in DaemonState
  BY DEF DaemonState
<1> QED BY <1>1, <1>2

LEMMA StartsRight == ASSUME Init PROVE Inv
<1>1. TypeOK
  <2>1. /\ \A n \in Process : [pc |-> "idle", peer |-> n, line |-> NoLine] \in DaemonState
        /\ [header |-> FALSE, line |-> NoLine] \in WireState
    BY DEF DaemonState, WireState
  <2> QED BY <2>1, Different, ContentAssumption DEF Init, TypeOK
<1>2. Token("settled", First)
  BY Different, ContentAssumption DEF Init, Token, Settled, Mapped
<1>3. OneToken
  BY <1>2, ContentAssumption DEF OneToken
<1>4. KeptIsRead
  BY <1>2 DEF Init, KeptIsRead, Token
<1>5. Ready /\ KeptInCopy /\ KeptOnWire
  BY DEF Init, Ready, KeptInCopy, KeptOnWire
<1> QED BY <1>1, <1>3, <1>4, <1>5 DEF Inv

LEMMA WriteStep ==
  ASSUME Inv, NEW n \in Process, NEW k \in Offset, NEW v \in Byte, Write(n, k, v)
  PROVE  Inv'
<1>1. memory[n] \in Content /\ [memory[n] EXCEPT ![k] = v] \in Content
  BY DEF Inv, TypeOK, Write, Mapped, Content
<1>2. /\ memory' = [memory EXCEPT ![n] = [memory[n] EXCEPT ![k] = v]]
      /\ UNCHANGED <<daemon, wire>> /\ written' = [written EXCEPT ![k] = v]
  BY DEF Write
<1>3. TypeOK'
  <2>1. memory' \in [Process -> Content \cup {Unmapped}]
    BY <1>1, <1>2 DEF Inv, TypeOK
  <2>2. written' \in Content
    BY <1>2 DEF Inv, TypeOK, Content
  <2> QED BY <1>2, <2>1, <2>2 DEF Inv, TypeOK, Write
<1>4. \A m \in Process : memory'[m] # Unmapped <=> memory[m] # Unmapped
  BY <1>1, <1>2, Different DEF Inv, TypeOK
<1>5. \A m \in Process : Settled(m)' <=> Settled(m)
  BY <1>2, <1>4 DEF Settled, Mapped
<1>6. Ready' /\ OneToken'
  <2>1. Ready'
    BY <1>2, <1>4 DEF Inv, Ready
  <2>2. PICK kind \in {"settled", "line", "wire", "lost"}, h \in Process : Token(kind, h)
    BY DEF Inv, OneToken
  <2>3. Token(kind, h)'
    BY <1>2, <1>5, <2>2 DEF Token
  <2> QED BY <2>1, <2>3 DEF OneToken
<1>7. \A j \in Offset \ {k} : written'[j] = written[j]
  BY <1>2 DEF Inv, TypeOK, Content
<1>8. written'[k] = v /\ memory'[n][k] = v
  BY <1>1, <1>2 DEF Inv, TypeOK, Content
<1>9. CASE Settled(n)
  <2>1. kept' = kept \cup {k}
    BY <1>9 DEF Write
  <2>2. \A m \in Process : Settled(m) => m = n
    BY <1>9 DEF Inv, OneToken, Token
  <2>3. \A m \in Process : daemon[m].pc # "line" /\ wire[m].line = NoLine
    BY <1>9 DEF Inv, OneToken, Token
  <2>4. \A j \in kept \ {k} : memory'[n][j] = written'[j]
    BY <1>1, <1>2, <1>7, <1>9 DEF Inv, KeptIsRead, TypeOK, Content
  <2>5. KeptIsRead'
    BY <1>5, <1>8, <2>1, <2>2, <2>4 DEF KeptIsRead
  <2>6. KeptInCopy' /\ KeptOnWire'
    BY <1>2, <2>3 DEF KeptInCopy, KeptOnWire
  <2> QED BY <1>3, <1>6, <2>5, <2>6 DEF Inv
<1>10. CASE ~Settled(n)
  <2>1. kept' = kept \ {k} /\ kept \subseteq Offset
    BY <1>10 DEF Write, Inv, TypeOK
  <2>2. \A m \in Process \ {n} : memory'[m] = memory[m]
    BY <1>2 DEF Inv, TypeOK
  <2>3. KeptIsRead'
    BY <1>5, <1>7, <1>10, <2>1, <2>2 DEF Inv, KeptIsRead
  <2>4. \A line : Carries(line) => Carries(line)'
    BY <1>7, <2>1 DEF Carries
  <2>5. KeptInCopy' /\ KeptOnWire'
    BY <1>2, <1>7, <2>1 DEF Inv, KeptInCopy, KeptOnWire, Carries
  <2> QED BY <1>3, <1>6, <2>3, <2>5 DEF Inv
<1> QED BY <1>9, <1>10

LEMMA ServeStep ==
  ASSUME Inv, NEW n \in Process, NEW m \in Process, Serve(n, m)
  PROVE  Inv'
<1>1. /\ \A i \in Process : daemon'[i].line = daemon[i].line
      /\ \A i \in Process : daemon'[i].pc = IF i = n THEN "copy" ELSE daemon[i].pc
      /\ \A i \in Process : wire'[i].line = wire[i].line
  BY DEF Serve, Inv, TypeOK
<1>2. UNCHANGED <<memory, written, kept>> /\ daemon[n].pc = "idle" /\ Settled(n)
  BY DEF Serve
<1>3. TypeOK'
  <2>1. [daemon[n] EXCEPT !.pc = "copy", !.peer = m] \in DaemonState
    BY DaemonUpdate DEF Inv, TypeOK
  <2>2. [wire[m] EXCEPT !.header = TRUE] \in WireState
    BY DEF Inv, TypeOK, WireState
  <2>3. daemon' \in [Process -> DaemonState]
    BY <2>1 DEF Serve, Inv, TypeOK
  <2>4. wire' \in [Process -> WireState]
    BY <2>2 DEF Serve, Inv, TypeOK
  <2> QED BY <2>3, <2>4 DEF Serve, Inv, TypeOK
<1>4. \A i \in Process : Settled(i)' <=> Settled(i)
  BY <1>1, <1>2 DEF Settled, Mapped
<1>5. Ready'
  BY <1>1, <1>2 DEF Inv, Ready, Settled, Mapped
<1>6. PICK kind \in {"settled", "line", "wire", "lost"}, h \in Process : Token(kind, h)
  BY DEF Inv, OneToken
<1>7. Token(kind, h)'
  BY <1>1, <1>2, <1>4, <1>6 DEF Token
<1>8. KeptIsRead' /\ KeptInCopy' /\ KeptOnWire'
  BY <1>1, <1>2, <1>4 DEF Inv, KeptIsRead, KeptInCopy, KeptOnWire, Carries
<1> QED BY <1>3, <1>5, <1>7, <1>8 DEF Inv, OneToken

LEMMA CopyStep == ASSUME Inv, NEW n \in Process, Copy(n) PROVE Inv'
<1>1. /\ daemon[n].pc = "copy" /\ memory[n] \in Content /\ Settled(n)
  BY DEF Copy, Inv, Ready, Settled, Mapped, TypeOK
<1>2. PICK l \in Strlen(memory[n]) :
        /\ daemon' = [daemon EXCEPT ![n].pc = "line",
                                    ![n].line = [len |-> l, text |-> memory[n]]]
        /\ kept' = {k \in kept : k < l}
  BY DEF Copy
<1>3. UNCHANGED <<memory, wire, written, writes>>
  BY DEF Copy
<1>4. PICK line : line = [len |-> l, text |-> memory[n]]
  OBVIOUS
<1>5. line \in Line /\ line # NoLine
  BY <1>1, <1>2, <1>4, Different DEF Strlen, Line
<1>6. daemon' = [daemon EXCEPT ![n] = [daemon[n] EXCEPT !.pc = "line", !.line = line]]
  BY <1>2, <1>4 DEF Inv, TypeOK
<1>7. TypeOK'
  <2>1. [daemon[n] EXCEPT !.pc = "line", !.line = line] \in DaemonState
    BY <1>5, DaemonUpdate DEF Inv, TypeOK
  <2>2. daemon' \in [Process -> DaemonState]
    BY <1>6, <2>1 DEF Inv, TypeOK
  <2>3. kept' \subseteq Offset
    BY <1>2 DEF Inv, TypeOK
  <2> QED BY <1>3, <2>2, <2>3 DEF Inv, TypeOK
<1>8. /\ daemon'[n].pc = "line" /\ daemon'[n].line = line
      /\ \A i \in Process \ {n} : daemon'[i] = daemon[i]
  BY <1>6 DEF Inv, TypeOK
<1>9. Ready'
  BY <1>3, <1>5, <1>8 DEF Inv, Ready
<1>10. Token("settled", n)
  BY <1>1 DEF Inv, OneToken, Token
<1>11. \A i \in Process : ~Settled(i)'
  BY <1>3, <1>8, <1>10 DEF Token, Settled, Mapped
<1>12. Token("line", n)'
  BY <1>3, <1>8, <1>10, <1>11 DEF Token
<1>13. KeptIsRead' /\ KeptOnWire'
  BY <1>12 DEF KeptIsRead, KeptOnWire, Token
<1>14. Carries(line)'
  BY <1>1, <1>2, <1>3, <1>4 DEF Inv, KeptIsRead, Carries
<1>15. KeptInCopy'
  BY <1>8, <1>12, <1>14 DEF KeptInCopy, Token, Carries
<1> QED BY <1>7, <1>9, <1>12, <1>13, <1>15 DEF Inv, OneToken

LEMMA SendLineStep == ASSUME Inv, NEW n \in Process, SendLine(n) PROVE Inv'
<1>1. daemon[n].pc = "line" /\ daemon[n].line \in Line /\ Token("line", n)
  BY DEF SendLine, Inv, Ready, OneToken, Token, TypeOK, DaemonState
<1>2. PICK m \in Process : m = daemon[n].peer
  BY DEF Inv, TypeOK, DaemonState
<1>3. PICK line \in Line : line = daemon[n].line
  BY <1>1
<1>4. /\ wire' = [wire EXCEPT ![m].line = line]
      /\ daemon' = [daemon EXCEPT ![n].pc = "unmap", ![n].line = NoLine]
      /\ UNCHANGED <<memory, written, kept, writes>>
  BY <1>2, <1>3 DEF SendLine
<1>5. TypeOK'
  <2>1. [wire[m] EXCEPT !.line = line] \in WireState
    BY DEF Inv, TypeOK, WireState
  <2>2. [daemon[n] EXCEPT !.pc = "unmap", !.line = NoLine] \in DaemonState
    BY DaemonUpdate DEF Inv, TypeOK
  <2>3. wire' \in [Process -> WireState]
    BY <1>4, <2>1 DEF Inv, TypeOK
  <2>4. daemon' \in [Process -> DaemonState]
    BY <1>4, <2>2 DEF Inv, TypeOK
  <2> QED BY <1>4, <2>3, <2>4 DEF Inv, TypeOK
<1>6. /\ daemon'[n].pc = "unmap" /\ \A i \in Process \ {n} : daemon'[i] = daemon[i]
      /\ wire'[m].line = line /\ \A i \in Process \ {m} : wire'[i] = wire[i]
  BY <1>4 DEF Inv, TypeOK
<1>7. Ready'
  BY <1>4, <1>6 DEF Inv, Ready
<1>8. \A i \in Process : ~Settled(i)'
  BY <1>1, <1>4, <1>6 DEF Settled, Mapped, Token
<1>9. Token("wire", m)'
  BY <1>1, <1>6, <1>8, Different DEF Token
<1>10. Carries(line)'
  BY <1>1, <1>3, <1>4 DEF Inv, KeptInCopy, Carries
<1>11. KeptIsRead' /\ KeptInCopy' /\ KeptOnWire'
  BY <1>6, <1>8, <1>9, <1>10 DEF KeptIsRead, KeptInCopy, KeptOnWire, Token, Carries
<1> QED BY <1>5, <1>7, <1>9, <1>11 DEF Inv, OneToken

\* munmap and mmap only make a page disappear that is not the settled one; or,
\* for mmap, the page is lost.
LEMMA Unsettled ==
  ASSUME Inv, TypeOK', Ready', UNCHANGED <<written, kept>>, NEW n \in Process,
         \A i \in Process : wire'[i].line = wire[i].line,
         \A i \in Process \ {n} : daemon'[i] = daemon[i] /\ memory'[i] = memory[i],
         daemon[n].pc # "line", daemon'[n].pc # "line", ~Settled(n)'
  PROVE  Inv'
<1>1. PICK kind \in {"settled", "line", "wire", "lost"}, h \in Process : Token(kind, h)
  BY DEF Inv, OneToken
<1>2. \A i \in Process \ {n} : Settled(i)' <=> Settled(i)
  BY DEF Settled, Mapped
<1>3. CASE kind = "settled" /\ h = n
  <2>1. Token("lost", n)'
    BY <1>1, <1>2, <1>3 DEF Token
  <2> QED BY <2>1 DEF Inv, OneToken, Token, KeptIsRead, KeptInCopy, KeptOnWire
<1>4. CASE ~(kind = "settled" /\ h = n)
  <2>1. Token(kind, h)'
    BY <1>1, <1>2, <1>4 DEF Token
  <2>2. KeptIsRead' /\ KeptInCopy' /\ KeptOnWire'
    BY <1>2 DEF Inv, KeptIsRead, KeptInCopy, KeptOnWire, Carries
  <2> QED BY <2>1, <2>2 DEF Inv, OneToken
<1> QED BY <1>3, <1>4

LEMMA UnmapStep == ASSUME Inv, NEW n \in Process, Unmap(n) PROVE Inv'
<1>1. /\ memory' = [memory EXCEPT ![n] = Unmapped]
      /\ daemon' = [daemon EXCEPT ![n].pc = "idle", ![n].peer = n]
      /\ UNCHANGED <<wire, written, kept, writes>> /\ daemon[n].pc = "unmap"
  BY DEF Unmap
<1>2. TypeOK'
  <2>1. [daemon[n] EXCEPT !.pc = "idle", !.peer = n] \in DaemonState
    BY DaemonUpdate DEF Inv, TypeOK
  <2>2. daemon' \in [Process -> DaemonState]
    BY <1>1, <2>1 DEF Inv, TypeOK
  <2> QED BY <1>1, <2>2 DEF Inv, TypeOK
<1>3. /\ memory'[n] = Unmapped /\ daemon'[n].pc = "idle"
      /\ \A i \in Process \ {n} : daemon'[i] = daemon[i] /\ memory'[i] = memory[i]
  BY <1>1 DEF Inv, TypeOK
<1>4. Ready' /\ ~Settled(n)'
  BY <1>3 DEF Inv, Ready, Settled, Mapped
<1> QED BY <1>1, <1>2, <1>3, <1>4, Unsettled

LEMMA MapStep == ASSUME Inv, NEW n \in Process, Map(n) PROVE Inv'
<1>1. /\ memory' = [memory EXCEPT ![n] = Zeros]
      /\ daemon' = [daemon EXCEPT ![n].pc = "fill"]
      /\ wire' = [wire EXCEPT ![n].header = FALSE]
      /\ UNCHANGED <<written, kept, writes>> /\ daemon[n].pc = "idle"
  BY DEF Map
<1>2. TypeOK'
  <2>1. [daemon[n] EXCEPT !.pc = "fill"] \in DaemonState
    BY DaemonUpdate DEF Inv, TypeOK
  <2>2. [wire[n] EXCEPT !.header = FALSE] \in WireState
    BY DEF Inv, TypeOK, WireState
  <2>3. daemon' \in [Process -> DaemonState]
    BY <1>1, <2>1 DEF Inv, TypeOK
  <2>4. wire' \in [Process -> WireState]
    BY <1>1, <2>2 DEF Inv, TypeOK
  <2>5. memory' \in [Process -> Content \cup {Unmapped}]
    BY <1>1, Different DEF Inv, TypeOK
  <2> QED BY <1>1, <2>3, <2>4, <2>5 DEF Inv, TypeOK
<1>3. /\ daemon'[n].pc = "fill" /\ \A i \in Process : wire'[i].line = wire[i].line
      /\ \A i \in Process \ {n} : daemon'[i] = daemon[i] /\ memory'[i] = memory[i]
  BY <1>1 DEF Inv, TypeOK
<1>4. Ready' /\ ~Settled(n)'
  BY <1>3 DEF Inv, Ready, Settled, Mapped
<1> QED BY <1>1, <1>2, <1>3, <1>4, Unsettled

LEMMA FillStep == ASSUME Inv, NEW n \in Process, Fill(n) PROVE Inv'
<1>1. /\ daemon[n].pc = "fill" /\ Token("wire", n)
      /\ wire[n].line \in Line /\ Carries(wire[n].line)
  BY DEF Fill, Inv, OneToken, Token, KeptOnWire, TypeOK, WireState
<1>2. PICK junk \in Content : memory' = [memory EXCEPT ![n] =
        [k \in Offset |-> IF k < wire[n].line.len THEN wire[n].line.text[k] ELSE junk[k]]]
  BY DEF Fill
<1>3. PICK page : page =
        [k \in Offset |-> IF k < wire[n].line.len THEN wire[n].line.text[k] ELSE junk[k]]
  OBVIOUS
<1>4. page \in Content /\ \A k \in kept : page[k] = written[k]
  BY <1>1, <1>3 DEF Content, Line, Carries, Inv, TypeOK
<1>5. /\ \E pc \in {"idle", "aborted"} : daemon' = [daemon EXCEPT ![n].pc = pc]
      /\ wire' = [wire EXCEPT ![n].line = NoLine]
      /\ UNCHANGED <<written, kept, writes>>
  BY DEF Fill
<1>6. TypeOK'
  <2>1. memory' \in [Process -> Content \cup {Unmapped}]
    BY <1>2, <1>3, <1>4 DEF Inv, TypeOK
  <2>2. [wire[n] EXCEPT !.line = NoLine] \in WireState
    BY DEF Inv, TypeOK, WireState
  <2>3. \A pc \in {"idle", "aborted"} : [daemon[n] EXCEPT !.pc = pc] \in DaemonState
    BY DaemonUpdate DEF Inv, TypeOK
  <2>4. wire' \in [Process -> WireState]
    BY <1>5, <2>2 DEF Inv, TypeOK
  <2>5. daemon' \in [Process -> DaemonState]
    BY <1>5, <2>3 DEF Inv, TypeOK
  <2> QED BY <1>5, <2>1, <2>4, <2>5 DEF Inv, TypeOK
<1>7. /\ memory'[n] = page /\ daemon'[n].pc \in {"idle", "aborted"}
      /\ \A i \in Process : wire'[i].line = NoLine
      /\ \A i \in Process \ {n} : daemon'[i] = daemon[i] /\ memory'[i] = memory[i]
  BY <1>1, <1>2, <1>3, <1>5 DEF Inv, TypeOK, Token
<1>8. Ready'
  BY <1>7 DEF Inv, Ready
<1>9. \A i \in Process \ {n} : ~Settled(i)' /\ daemon'[i].pc # "line"
  BY <1>1, <1>7 DEF Settled, Mapped, Token
<1>10. KeptIsRead' /\ KeptInCopy' /\ KeptOnWire'
  BY <1>4, <1>5, <1>7, <1>9 DEF KeptIsRead, KeptInCopy, KeptOnWire
<1>11. CASE Settled(n)'
  <2>1. Token("settled", n)'
    BY <1>7, <1>9, <1>11 DEF Token
  <2> QED BY <1>6, <1>8, <1>10, <2>1 DEF Inv, OneToken
<1>12. CASE ~Settled(n)'
  <2>1. Token("lost", n)'
    BY <1>7, <1>9, <1>12 DEF Token
  <2> QED BY <1>6, <1>8, <1>10, <2>1 DEF Inv, OneToken
<1> QED BY <1>11, <1>12

LEMMA InvHolds == Spec => []Inv
<1>1. Init => Inv
  BY StartsRight
<1>2. Inv /\ [Next]_vars => Inv'
  <2> SUFFICES ASSUME Inv, [Next]_vars PROVE Inv'
    OBVIOUS
  <2>1. ASSUME NEW n \in Process, Step(n) PROVE Inv'
    BY <2>1, WriteStep, ServeStep, CopyStep, SendLineStep, UnmapStep, MapStep, FillStep DEF Step
  <2>2. CASE UNCHANGED vars
    <3>1. TypeOK' /\ Ready'
      BY <2>2 DEF vars, Inv, TypeOK, Ready
    <3>2. \A n \in Process : Settled(n)' <=> Settled(n)
      BY <2>2 DEF vars, Settled, Mapped
    <3>3. OneToken'
      <4>1. PICK kind \in {"settled", "line", "wire", "lost"}, h \in Process : Token(kind, h)
        BY DEF Inv, OneToken
      <4>2. Token(kind, h)'
        BY <2>2, <3>2, <4>1 DEF vars, Token
      <4> QED BY <4>2 DEF OneToken
    <3>4. KeptIsRead'
      BY <2>2, <3>2 DEF vars, Inv, KeptIsRead
    <3>5. KeptInCopy' /\ KeptOnWire'
      BY <2>2 DEF vars, Inv, KeptInCopy, KeptOnWire, Carries
    <3> QED BY <3>1, <3>3, <3>4, <3>5 DEF Inv
  <2> QED BY <2>1, <2>2 DEF Next
<1> QED BY <1>1, <1>2, PTL DEF Spec

\* Every variable keeps its type: a line never holds more than a page.
THEOREM ContentTyped == Spec => []TypeOK
<1>1. Inv => TypeOK
  BY DEF Inv
<1> QED BY <1>1, InvHolds, PTL

\* In whatever order transfers and writes follow each other, the page is
\* settled in one process at most.
THEOREM SettledOnce == Spec => []OneSettled
<1>1. Inv => OneSettled
  BY DEF Inv, OneToken, Token, OneSettled
<1> QED BY <1>1, InvHolds, PTL

\* The bytes that are kept are read there as they were written.
THEOREM ContentSurvives == Spec => []KeptIsRead
<1>1. Inv => KeptIsRead
  BY DEF Inv
<1> QED BY <1>1, InvHolds, PTL

=============================================================================
