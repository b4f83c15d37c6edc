---------------------------- MODULE PageContent ----------------------------
(***************************************************************************)
(* The bytes of one page while it goes from process to process.  The giver *)
(* copies the page and sends the copy as a string, the receiver maps a new *)
(* page before the string is there, and the programs go on writing to      *)
(* whatever is mapped at their address.  Who asks for the page, and when,  *)
(* is the matter of DsmNode: here any other process may.                   *)
(***************************************************************************)
EXTENDS Integers, FiniteSets

CONSTANTS
  Process, First,   \* the processes, and the one the page is allotted to
  PAGE_SIZE,
  Byte,             \* the values of a byte
  Slack,            \* how many bytes strlen may count beyond the end of the copy
  MaxWrites         \* a bound on the writes of the programs

ASSUME ContentAssumption ==
  /\ First \in Process
  /\ PAGE_SIZE \in Nat \ {0} /\ Slack \in Nat
  /\ 0 \in Byte

Offset == 0 .. PAGE_SIZE - 1
Content == [Offset -> Byte]
Zeros == [k \in Offset |-> 0]
Unmapped == [k \in {} |-> 0]

VARIABLES
  memory,   \* memory[n]: what is mapped at the address of the page
  daemon,   \* daemon[n]: where the daemon is, whom it serves, its buffer
  wire,     \* wire[n]: what n has not read yet, the header of the page, then its line
  written,  \* history: the last value written to each byte, by anybody
  kept,     \* history: the bytes that should have survived, see Write and Copy
  writes

vars == <<memory, daemon, wire, written, kept, writes>>

NoLine == [len |-> -1, text |-> Zeros]

Init ==
  /\ memory = [n \in Process |-> IF n = First THEN Zeros ELSE Unmapped]
  /\ daemon = [n \in Process |-> [pc |-> "idle", peer |-> n, line |-> NoLine]]
  /\ wire = [n \in Process |-> [header |-> FALSE, line |-> NoLine]]
  /\ written = Zeros
  /\ kept = Offset
  /\ writes = 0

Mapped(n) == memory[n] # Unmapped /\ daemon[n].pc # "aborted"

\* The page of n is mapped, and neither copied already nor still to be filled.
Settled(n) == Mapped(n) /\ daemon[n].pc \in {"idle", "copy"}

----------------------------------------------------------------------------

\* The program of n writes.  A write is expected to last if it does not fall
\* between the copy and munmap, nor between mmap and the copy.
Write(n, k, v) ==
  /\ Mapped(n) /\ writes < MaxWrites
  /\ memory' = [memory EXCEPT ![n][k] = v]
  /\ written' = [written EXCEPT ![k] = v]
  /\ kept' = IF Settled(n) THEN kept \cup {k} ELSE kept \ {k}
  /\ writes' = writes + 1
  /\ UNCHANGED <<daemon, wire>>

\* A request of m is served: SEND_PAGE and the page number leave.  A request
\* that finds the page gone changes no bytes; it is in DsmNode.
Serve(n, m) ==
  /\ daemon[n].pc = "idle" /\ Settled(n) /\ m # n
  /\ daemon' = [daemon EXCEPT ![n].pc = "copy", ![n].peer = m]
  /\ wire' = [wire EXCEPT ![m].header = TRUE]
  /\ UNCHANGED <<memory, written, kept, writes>>

\* What strlen may return: beyond the page, the heap decides.
Strlen(b) ==
  {l \in 0 .. PAGE_SIZE + Slack : /\ \A k \in Offset : k < l => b[k] # 0
                                  /\ l < PAGE_SIZE => b[l] = 0}

\* Mutant: the last character of the string is forgotten.
CopyShort(n) ==
  /\ daemon[n].pc = "copy"
  /\ \E l \in Strlen(memory[n]) :
       /\ daemon' = [daemon EXCEPT ![n].pc = "line",
                       ![n].line = [len |-> l - 1, text |-> memory[n]]]
       /\ kept' = {k \in kept : k < l}
  /\ UNCHANGED <<memory, wire, written, writes>>

\* The page is copied, and the string in the copy measured.
Copy(n) ==
  /\ daemon[n].pc = "copy"
  /\ \E l \in Strlen(memory[n]) :
       /\ daemon' = [daemon EXCEPT ![n].pc = "line",
                                   ![n].line = [len |-> l, text |-> memory[n]]]
       /\ kept' = {k \in kept : k < l}
  /\ UNCHANGED <<memory, wire, written, writes>>

SendLine(n) ==
  /\ daemon[n].pc = "line"
  /\ daemon' = [daemon EXCEPT ![n].pc = "unmap", ![n].line = NoLine]
  /\ wire' = [wire EXCEPT ![daemon[n].peer].line = daemon[n].line]
  /\ UNCHANGED <<memory, written, kept, writes>>

\* Mutant: the page stays mapped.
UnmapNot(n) ==
  /\ daemon[n].pc = "unmap"
  /\ daemon' = [daemon EXCEPT ![n].pc = "idle", ![n].peer = n]
  /\ UNCHANGED <<memory, wire, written, kept, writes>>

Unmap(n) ==
  /\ daemon[n].pc = "unmap"
  /\ memory' = [memory EXCEPT ![n] = Unmapped]
  /\ daemon' = [daemon EXCEPT ![n].pc = "idle", ![n].peer = n]
  /\ UNCHANGED <<wire, written, kept, writes>>

\* The receiver reads the header and maps the page.
Map(n) ==
  /\ daemon[n].pc = "idle" /\ wire[n].header
  /\ wire' = [wire EXCEPT ![n].header = FALSE]
  /\ memory' = [memory EXCEPT ![n] = Zeros]
  /\ daemon' = [daemon EXCEPT ![n].pc = "fill"]
  /\ UNCHANGED <<written, kept, writes>>

\* Mutant: the page is filled without waiting for the line.
FillEarly(n) ==
  /\ daemon[n].pc = "fill"
  /\ \E junk \in Content : memory' = [memory EXCEPT ![n] = junk]
  /\ daemon' = [daemon EXCEPT ![n].pc = "idle"]
  /\ UNCHANGED <<wire, written, kept, writes>>

\* It reads the line into a buffer of its own, whose content malloc left as it
\* was, and copies the whole buffer to the page.  A line longer than the
\* buffer runs over the heap: free may find out, or not.
Fill(n) ==
  /\ daemon[n].pc = "fill" /\ wire[n].line # NoLine
  /\ wire' = [wire EXCEPT ![n].line = NoLine]
  /\ \E junk \in Content :
       memory' = [memory EXCEPT ![n] =
         [k \in Offset |-> IF k < wire[n].line.len THEN wire[n].line.text[k] ELSE junk[k]]]
  /\ \/ daemon' = [daemon EXCEPT ![n].pc = "idle"]
     \/ wire[n].line.len > PAGE_SIZE /\ daemon' = [daemon EXCEPT ![n].pc = "aborted"]
  /\ UNCHANGED <<written, kept, writes>>

----------------------------------------------------------------------------

Step(n) == \/ \E k \in Offset, v \in Byte : Write(n, k, v)
           \/ \E m \in Process : Serve(n, m)
           \/ Copy(n) \/ SendLine(n) \/ Unmap(n) \/ Map(n) \/ Fill(n)

Next == \E n \in Process : Step(n)

Spec == Init /\ [][Next]_vars

----------------------------------------------------------------------------
(* Properties                                                              *)

\* Every variable keeps its type.
Line == [len : 0 .. PAGE_SIZE + Slack, text : Content]
DaemonState == [pc : {"idle", "copy", "line", "unmap", "fill", "aborted"},
                peer : Process, line : Line \cup {NoLine}]
WireState == [header : BOOLEAN, line : Line \cup {NoLine}]
TypeOK ==
  /\ memory \in [Process -> Content \cup {Unmapped}]
  /\ daemon \in [Process -> DaemonState]
  /\ wire \in [Process -> WireState]
  /\ written \in Content
  /\ kept \subseteq Offset
  /\ writes \in Nat

\* Two programs may have the page mapped, during a transfer, but no two of
\* them have it settled: at most one writes to the page itself.
OneSettled == \A m, n \in Process : Settled(m) /\ Settled(n) => m = n

\* What the transfers preserve: a byte whose last write was to a settled page,
\* and which has stood before the first zero in every copy since then, is read
\* as it was written, wherever the page is.
KeptIsRead ==
  \A n \in Process : Settled(n) => \A k \in kept : memory[n][k] = written[k]

=============================================================================
