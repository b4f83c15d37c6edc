------------------------------ MODULE DsmWire ------------------------------
(***************************************************************************)
(* One direction of a connection, byte by byte: send_int and send_line at  *)
(* one end, recv_int and recv_line at the other, with writes and reads     *)
(* that transfer less than they are asked to, signals that interrupt the   *)
(* reader, and a writer that may end at any time.                          *)
(*                                                                         *)
(* Only dsmexec handles a signal while it reads, SIGCHLD, and no writer is *)
(* ever interrupted: Interrupt is an action of the reader.                 *)
(***************************************************************************)
EXTENDS Integers, Sequences

CONSTANTS
  Script,       \* the calls of the writer, and their arguments
  WordSize,     \* bytes of an int32_t
  Byte,         \* values of a byte
  Bytes,        \* the bytes of each int32_t, as they lie in memory
  Capacity,     \* bytes the kernel keeps for the connection
  BufferSize,   \* the buffer that the caller of recv_line provides
  MaxSignals    \* a bound on the signals

\* Lengths may be negative in C; nobody sends one.
Word == DOMAIN Bytes
Call == [kind : {"int"}, arg : Word] \cup [kind : {"line"}, arg : Seq(Byte)]
IsWord(c) == c.kind = "int"

\* Nothing converts an int32_t on its way (send_int writes its memory): the
\* two ends have the same Bytes, whatever they are.
ASSUME WireAssumption ==
  /\ WordSize \in Nat \ {0} /\ Capacity \in Nat \ {0}
  /\ BufferSize \in Nat /\ MaxSignals \in Nat
  /\ Word \subseteq Nat /\ Bytes \in [Word -> [1 .. WordSize -> Byte]]
  /\ \A v, w \in Word : Bytes[v] = Bytes[w] => v = w
  /\ \A b \in [1 .. WordSize -> Byte] : \E v \in Word : Bytes[v] = b
  /\ Script \in Seq(Call)
  /\ \A i \in DOMAIN Script : IsWord(Script[i]) \/ Len(Script[i].arg) \in Word

VARIABLES
  writer,     \* the call, what is left of its loop, and the text to send after it
  wire,       \* bytes written and not read yet
  open,       \* the writer has not ended
  reader,     \* the loop of recv_int or recv_line
  got,        \* what the calls of the reader have returned
  signals     \* how often the reader was interrupted

vars == <<writer, wire, open, reader, got, signals>>

Decode(b) == CHOOSE v \in Word : Bytes[v] = b

\* The loops of call i: its length and its text, for a line.
Calling(i) ==
  IF i > Len(Script) THEN [call |-> i, out |-> <<>>, text |-> <<>>]
  ELSE IF IsWord(Script[i]) THEN [call |-> i, out |-> Bytes[Script[i].arg], text |-> <<>>]
  ELSE [call |-> i, out |-> Bytes[Len(Script[i].arg)], text |-> Script[i].arg]

\* pc is the loop, data the bytes it has stored, the first of them slip bytes
\* before the variable: the pointer is Len(data) - slip bytes into it.
Expecting(i) ==
  [pc |-> IF i > Len(Script) THEN "end" ELSE IF IsWord(Script[i]) THEN "int" ELSE "len",
   size |-> WordSize, data |-> <<>>, slip |-> 0]

Init ==
  /\ writer = Calling(1)
  /\ wire = <<>>
  /\ open = TRUE
  /\ reader = Expecting(1)
  /\ got = <<>>
  /\ signals = 0

----------------------------------------------------------------------------

\* Mutant: the rest of a word is given up when it does not fit.
WriteOnce ==
  /\ open /\ writer.out # <<>>
  /\ \E k \in 1 .. Len(writer.out) :
       /\ Len(wire) + k <= Capacity
       /\ wire' = wire \o SubSeq(writer.out, 1, k)
       /\ writer' = IF writer.text # <<>>
                      THEN [writer EXCEPT !.out = writer.text, !.text = <<>>]
                      ELSE Calling(writer.call + 1)
  /\ UNCHANGED <<open, reader, got, signals>>

\* write takes some of what is left.  The loop over an empty text is over
\* before it has begun.
Write ==
  /\ open /\ writer.out # <<>>
  /\ \E k \in 1 .. Len(writer.out) :
       /\ Len(wire) + k <= Capacity
       /\ wire' = wire \o SubSeq(writer.out, 1, k)
       /\ LET left == SubSeq(writer.out, k + 1, Len(writer.out))
          IN  writer' = IF left # <<>> THEN [writer EXCEPT !.out = left]
                        ELSE IF writer.text # <<>>
                          THEN [writer EXCEPT !.out = writer.text, !.text = <<>>]
                        ELSE Calling(writer.call + 1)
  /\ UNCHANGED <<open, reader, got, signals>>

\* The process at the writing end ends, in the middle of a word perhaps.
End ==
  /\ open /\ open' = FALSE
  /\ UNCHANGED <<writer, wire, reader, got, signals>>

Looping == reader.pc \in {"int", "len", "text"}
Left == reader.size + reader.slip - Len(reader.data)

\* The call returns v, and the next one begins.
Return(v) ==
  /\ got' = Append(got, [kind |-> Script[Len(got) + 1].kind, arg |-> v])
  /\ reader' = Expecting(Len(got) + 2)

\* The loop has filled its variable with the bytes b.  For a line of length 0
\* it reads no byte, which returns at once.
Filled(b) ==
  \/ reader.pc = "int"  /\ Return(Decode(b))
  \/ reader.pc = "text" /\ Return(b)
  \/ reader.pc = "len" /\ Decode(b) = 0 /\ Return(<<>>)
  \/ /\ reader.pc = "len" /\ Decode(b) \in 1 .. BufferSize
     /\ reader' = [pc |-> "text", size |-> Decode(b), data |-> <<>>, slip |-> 0]
     /\ UNCHANGED got
  \/ /\ reader.pc = "len" /\ Decode(b) > BufferSize
     /\ reader' = [reader EXCEPT !.pc = "wild", !.data = <<>>]
     /\ UNCHANGED got

\* Mutant: the loop ends with the first read.
ReadOnce ==
  /\ Looping /\ wire # <<>>
  /\ \E k \in 1 .. Left :
       LET data == reader.data \o SubSeq(wire, 1, k)
       IN  /\ k <= Len(wire)
           /\ wire' = SubSeq(wire, k + 1, Len(wire))
           /\ Filled(data \o [i \in 1 .. reader.size - Len(data) |-> 0])
  /\ UNCHANGED <<writer, open, signals>>

\* read returns some of what is left and stores it at the pointer.  What is
\* stored before the variable may fall on something that matters.
Read ==
  /\ Looping /\ wire # <<>>
  /\ \E k \in 1 .. Left :
       LET data == reader.data \o SubSeq(wire, 1, k)
       IN  /\ k <= Len(wire)
           /\ wire' = SubSeq(wire, k + 1, Len(wire))
           /\ \/ /\ k < Left /\ reader' = [reader EXCEPT !.data = data]
                 /\ UNCHANGED got
              \/ k = Left /\ Filled(SubSeq(data, reader.slip + 1, Len(data)))
              \/ /\ Len(reader.data) < reader.slip
                 /\ reader' = [reader EXCEPT !.pc = "wild", !.data = <<>>]
                 /\ UNCHANGED got
  /\ UNCHANGED <<writer, open, signals>>

\* Mutant: the length loses what the pointer wins, and the loop ends too early.
InterruptLess ==
  /\ Looping /\ wire = <<>> /\ open /\ signals < MaxSignals
  /\ signals' = signals + 1
  /\ reader' = [reader EXCEPT !.size = @ - 1]
  /\ UNCHANGED <<writer, wire, open, got>>

\* A signal interrupts a read that waits: its result, -1, is added to the
\* pointer and taken from the length.  The next byte falls on the last one
\* stored, or before all of them.
Interrupt ==
  /\ Looping /\ wire = <<>> /\ open /\ signals < MaxSignals
  /\ signals' = signals + 1
  /\ reader' = IF reader.data = <<>> THEN [reader EXCEPT !.slip = @ + 1]
                                     ELSE [reader EXCEPT !.data = SubSeq(@, 1, Len(@) - 1)]
  /\ UNCHANGED <<writer, wire, open, got>>

\* The end of the writer may be an error for the reader, which then ends; if
\* it is not, read returns 0 for ever.
Reset ==
  /\ Looping /\ ~open
  /\ reader' = [reader EXCEPT !.pc = "exited", !.data = <<>>]
  /\ UNCHANGED <<writer, wire, open, got, signals>>

----------------------------------------------------------------------------

Next == Write \/ End \/ Read \/ Interrupt \/ Reset

Spec == Init /\ [][Next]_vars

\* Both processes run.
FairSpec == Spec /\ WF_vars(Write) /\ WF_vars(Read)

----------------------------------------------------------------------------
(* Properties                                                              *)

\* Every variable keeps its type; no loop asks for a negative length.
TypeOK ==
  /\ writer \in [call : 1 .. Len(Script) + 1, out : Seq(Byte), text : Seq(Byte)]
  /\ wire \in Seq(Byte) /\ Len(wire) <= Capacity
  /\ open \in BOOLEAN
  /\ reader \in [pc : {"int", "len", "text", "end", "wild", "exited"}, size : Nat,
                 data : Seq(Byte), slip : 0 .. MaxSignals]
  /\ Looping => Left > 0
  /\ Len(got) <= Len(Script)
  /\ signals \in 0 .. MaxSignals

\* The calls whose bytes have all been written.
Sent == writer.call - 1

Channel == INSTANCE WordChannel WITH sent <- Sent, sound <- signals = 0

\* As long as no signal interrupts the reader, cut transfers and empty lines
\* included, a connection is a channel of whole words and lines.
ImplementsChannel == Channel!ChannelSpec

\* Everything arrives, if the writer does not end and no signal comes: a loop
\* never waits for a byte that will not be sent.
Arrives == \/ <>(Len(got) = Len(Script))
           \/ <>(~open \/ signals > 0)

=============================================================================
