--------------------------- MODULE DsmWireProofs ---------------------------
(***************************************************************************)
(* Theorems about DsmWire, for every list of calls, every representation   *)
(* of an int32_t, every size of the connection, and however writes and     *)
(* reads are cut.                                                          *)
(***************************************************************************)
EXTENDS DsmWire, SequenceTheorems, WellFoundedInduction, TLAPS

WriterState == [call : 1 .. Len(Script) + 1, out : Seq(Byte), text : Seq(Byte)]
ReaderState == [pc : {"int", "len", "text", "end", "wild", "exited"}, size : Nat,
                data : Seq(Byte), slip : Nat]
Returned == [kind : {"int", "line"}, arg : Word \cup Seq(Byte)]

\* Where the writer is in the list of calls.
WriterRight ==
  /\ writer \in WriterState
  /\ writer.call <= Len(Script) => writer.out # <<>>
  /\ writer.call = Len(Script) + 1 => writer.out = <<>> /\ writer.text = <<>>

\* Where the reader is in it.
ReaderRight ==
  /\ reader \in ReaderState /\ reader.slip <= signals
  /\ got \in Seq(Returned) /\ Len(got) <= Len(Script)
  /\ Looping => Left > 0 /\ Len(got) < Len(Script)
  /\ reader.pc \in {"int", "len"} => reader.size = WordSize
  /\ reader.pc = "int" => IsWord(Script[Len(got) + 1])
  /\ reader.pc \in {"len", "text"} => ~IsWord(Script[Len(got) + 1])

KernelRight ==
  /\ wire \in Seq(Byte) /\ Len(wire) <= Capacity
  /\ open \in BOOLEAN /\ signals \in 0 .. MaxSignals

WireInv == WriterRight /\ ReaderRight /\ KernelRight

----------------------------------------------------------------------------
(* Words and calls                                                         *)

\* The bytes of a word are a sequence, and only its own.
LEMMA BytesOfWord ==
  ASSUME NEW v \in Word
  PROVE  /\ Bytes[v] \in Seq(Byte) /\ Len(Bytes[v]) = WordSize
         /\ Decode(Bytes[v]) = v
<1>1. WordSize \in Nat /\ Bytes[v] \in [1 .. WordSize -> Byte]
  BY WireAssumption
<1>2. Bytes[v] \in Seq(Byte) /\ Len(Bytes[v]) = WordSize
  BY <1>1
<1>3. \A w \in Word : Bytes[w] = Bytes[v] => w = v
  BY WireAssumption
<1>4. Decode(Bytes[v]) = v
  BY <1>3 DEF Decode
<1> QED BY <1>2, <1>4

\* Any bytes that fill an int32_t are a word.
LEMMA WordOfBytes ==
  ASSUME NEW b \in Seq(Byte), Len(b) = WordSize
  PROVE  Decode(b) \in Word
<1>1. b \in [1 .. WordSize -> Byte]
  BY LenProperties
<1>2. \E v \in Word : Bytes[v] = b
  BY <1>1, WireAssumption
<1> QED BY <1>2 DEF Decode

\* Each entry of the list is a word or a line whose length is a word.
LEMMA CallKinds ==
  ASSUME NEW i \in 1 .. Len(Script)
  PROVE  /\ Script[i] = [kind |-> Script[i].kind, arg |-> Script[i].arg]
         /\ \/ /\ IsWord(Script[i]) /\ Script[i].kind = "int" /\ Script[i].arg \in Word
            \/ /\ ~IsWord(Script[i]) /\ Script[i].kind = "line"
               /\ Script[i].arg \in Seq(Byte) /\ Len(Script[i].arg) \in Word
<1>1. Script \in Seq(Call)
  BY WireAssumption
<1>2. i \in DOMAIN Script /\ Script[i] \in Call
  BY <1>1, LenProperties, ElementOfSeq
<1>3. CASE Script[i] \in [kind : {"int"}, arg : Word]
  BY <1>3 DEF IsWord
<1>4. CASE Script[i] \in [kind : {"line"}, arg : Seq(Byte)]
  <2>1. Script[i].kind = "line" /\ ~IsWord(Script[i])
    BY <1>4 DEF IsWord
  <2>2. Len(Script[i].arg) \in Word
    BY <1>2, <2>1, WireAssumption
  <2> QED BY <1>4, <2>1, <2>2
<1> QED BY <1>2, <1>3, <1>4 DEF Call

LEMMA Sizes ==
  /\ Len(Script) \in Nat /\ WordSize \in Nat \ {0} /\ Capacity \in Nat \ {0}
  /\ MaxSignals \in Nat /\ BufferSize \in Nat
BY WireAssumption, LenProperties

\* What the writer has to write for a call.
LEMMA CallingTyped ==
  ASSUME NEW i \in 1 .. Len(Script) + 1
  PROVE  /\ Calling(i) \in WriterState /\ Calling(i).call = i
         /\ i = Len(Script) + 1 => Calling(i).out = <<>> /\ Calling(i).text = <<>>
         /\ i <= Len(Script) =>
              /\ Len(Calling(i).out) = WordSize /\ Calling(i).out # <<>>
              /\ IsWord(Script[i]) => /\ Calling(i).out = Bytes[Script[i].arg]
                                      /\ Calling(i).text = <<>>
              /\ ~IsWord(Script[i]) => /\ Calling(i).out = Bytes[Len(Script[i].arg)]
                                       /\ Calling(i).text = Script[i].arg
<1>0. Len(Script) \in Nat /\ WordSize \in Nat \ {0}
  BY Sizes
<1>1. CASE i = Len(Script) + 1
  <2>1. Calling(i) = [call |-> i, out |-> <<>>, text |-> <<>>]
    BY <1>0, <1>1 DEF Calling
  <2>2. <<>> \in Seq(Byte)
    BY EmptySeq
  <2>3. ~(i <= Len(Script))
    BY <1>0, <1>1
  <2>4. [call |-> i, out |-> <<>>, text |-> <<>>] \in WriterState
    BY <2>2 DEF WriterState
  <2> QED BY <2>1, <2>3, <2>4
<1>2. CASE i <= Len(Script)
  <2>1. i \in 1 .. Len(Script)
    BY <1>0, <1>2
  <2>2. CASE IsWord(Script[i])
    <3>1. Calling(i) = [call |-> i, out |-> Bytes[Script[i].arg], text |-> <<>>]
      BY <1>0, <1>2, <2>2 DEF Calling
    <3>2. Script[i].arg \in Word
      BY <2>1, <2>2, CallKinds
    <3>3. Bytes[Script[i].arg] \in Seq(Byte) /\ Len(Bytes[Script[i].arg]) = WordSize
      BY <3>2, BytesOfWord
    <3>4. Bytes[Script[i].arg] # <<>> /\ <<>> \in Seq(Byte)
      BY <1>0, <3>3, EmptySeq
    <3> QED BY <1>0, <1>2, <2>2, <3>1, <3>3, <3>4 DEF WriterState
  <2>3. CASE ~IsWord(Script[i])
    <3>1. Calling(i) = [call |-> i, out |-> Bytes[Len(Script[i].arg)], text |-> Script[i].arg]
      BY <1>0, <1>2, <2>3 DEF Calling
    <3>2. Len(Script[i].arg) \in Word /\ Script[i].arg \in Seq(Byte)
      BY <2>1, <2>3, CallKinds
    <3>3. /\ Bytes[Len(Script[i].arg)] \in Seq(Byte)
          /\ Len(Bytes[Len(Script[i].arg)]) = WordSize
      BY <3>2, BytesOfWord
    <3>4. Bytes[Len(Script[i].arg)] # <<>>
      BY <1>0, <3>3, EmptySeq
    <3> QED BY <1>0, <1>2, <2>3, <3>1, <3>2, <3>3, <3>4 DEF WriterState
  <2> QED BY <2>2, <2>3
<1> QED BY <1>0, <1>1, <1>2

\* The loop with which the reader begins a call.
LEMMA ExpectingTyped ==
  ASSUME NEW i \in 1 .. Len(Script) + 1
  PROVE  /\ Expecting(i) \in ReaderState
         /\ Expecting(i).data = <<>> /\ Expecting(i).slip = 0 /\ Expecting(i).size = WordSize
         /\ i = Len(Script) + 1 => Expecting(i).pc = "end"
         /\ i <= Len(Script) => Expecting(i).pc = IF IsWord(Script[i]) THEN "int" ELSE "len"
<1>1. Len(Script) \in Nat /\ WordSize \in Nat /\ <<>> \in Seq(Byte)
  BY Sizes, EmptySeq
<1> QED BY <1>1 DEF Expecting, ReaderState

----------------------------------------------------------------------------
(* The steps                                                               *)

\* Some of a sequence and the rest of it.
LEMMA CutInTwo ==
  ASSUME NEW S, NEW s \in Seq(S), NEW k \in 0 .. Len(s)
  PROVE  /\ SubSeq(s, 1, k) \in Seq(S) /\ Len(SubSeq(s, 1, k)) = k
         /\ \A j \in 1 .. k : SubSeq(s, 1, k)[j] = s[j]
         /\ SubSeq(s, k + 1, Len(s)) \in Seq(S)
         /\ Len(SubSeq(s, k + 1, Len(s))) = Len(s) - k
         /\ \A j \in 1 .. Len(s) - k : SubSeq(s, k + 1, Len(s))[j] = s[k + j]
<1>1. Len(s) \in Nat /\ \A j \in 1 .. Len(s) : s[j] \in S
  BY LenProperties, ElementOfSeq
<1>2. k \in Nat /\ k <= Len(s) /\ k + 1 \in Int
  BY <1>1
<1>3. \A j \in 1 .. k : s[j] \in S
  BY <1>1, <1>2
<1>4. \A j \in k + 1 .. Len(s) : s[j] \in S
  BY <1>1, <1>2
<1>5. /\ SubSeq(s, 1, k) \in Seq(S) /\ Len(SubSeq(s, 1, k)) = IF 1 <= k THEN k - 1 + 1 ELSE 0
      /\ \A j \in 1 .. k - 1 + 1 : SubSeq(s, 1, k)[j] = s[1 + j - 1]
  BY <1>2, <1>3, SubSeqProperties
<1>6. /\ SubSeq(s, k + 1, Len(s)) \in Seq(S)
      /\ Len(SubSeq(s, k + 1, Len(s))) = IF k + 1 <= Len(s) THEN Len(s) - (k + 1) + 1 ELSE 0
      /\ \A j \in 1 .. Len(s) - (k + 1) + 1 :
           SubSeq(s, k + 1, Len(s))[j] = s[(k + 1) + j - 1]
  BY <1>1, <1>2, <1>4, SubSeqProperties
<1>7. \A j \in 1 .. k : j \in 1 .. k - 1 + 1 /\ 1 + j - 1 = j
  BY <1>2
<1>8. \A j \in 1 .. Len(s) - k : j \in 1 .. Len(s) - (k + 1) + 1 /\ (k + 1) + j - 1 = k + j
  BY <1>1, <1>2
<1>9. Len(SubSeq(s, 1, k)) = k /\ Len(SubSeq(s, k + 1, Len(s))) = Len(s) - k
  BY <1>1, <1>2, <1>5, <1>6
<1> QED BY <1>5, <1>6, <1>7, <1>8, <1>9

\* What a step of the writer does: k bytes go into the connection; the loop
\* goes on, or the text follows, or the next call begins.
WroteOn(k) ==
  /\ writer'.call = writer.call /\ writer'.out # <<>>
  /\ Len(writer'.out) = Len(writer.out) - k
  /\ \A j \in 1 .. Len(writer'.out) : writer'.out[j] = writer.out[k + j]
  /\ writer'.text = writer.text
WroteWord(k) ==
  /\ k = Len(writer.out) /\ writer.text # <<>>
  /\ writer'.call = writer.call /\ writer'.out = writer.text /\ writer'.text = <<>>
WroteAll(k) ==
  /\ k = Len(writer.out) /\ writer.text = <<>>
  /\ writer' = Calling(writer.call + 1)
Moved(k) ==
  /\ k \in 1 .. Len(writer.out)
  /\ wire' \in Seq(Byte)
  /\ Len(wire') = Len(wire) + k /\ Len(wire') <= Capacity
  /\ \A j \in 1 .. Len(wire) : wire'[j] = wire[j]
  /\ \A j \in 1 .. k : wire'[Len(wire) + j] = writer.out[j]

LEMMA WriteDoes ==
  ASSUME WireInv, Write
  PROVE  /\ writer.call \in 1 .. Len(Script) /\ writer' \in WriterState
         /\ \E k \in Nat : Moved(k) /\ (WroteOn(k) \/ WroteWord(k) \/ WroteAll(k))
<1>0. /\ writer \in WriterState /\ wire \in Seq(Byte)
      /\ writer.out \in Seq(Byte) /\ writer.text \in Seq(Byte)
      /\ Len(writer.out) \in Nat /\ Len(wire) \in Nat /\ Len(Script) \in Nat
  BY LenProperties, Sizes DEF WireInv, WriterRight, KernelRight, WriterState
<1>1. writer.out # <<>>
  BY DEF Write
<1>2. writer.call \in 1 .. Len(Script)
  BY <1>0, <1>1 DEF WireInv, WriterRight, WriterState
<1>3. PICK k \in 1 .. Len(writer.out) :
        /\ Len(wire) + k <= Capacity
        /\ wire' = wire \o SubSeq(writer.out, 1, k)
        /\ LET left == SubSeq(writer.out, k + 1, Len(writer.out))
           IN  writer' = IF left # <<>> THEN [writer EXCEPT !.out = left]
                         ELSE IF writer.text # <<>>
                           THEN [writer EXCEPT !.out = writer.text, !.text = <<>>]
                         ELSE Calling(writer.call + 1)
  BY DEF Write
<1>4. k \in 0 .. Len(writer.out) /\ k \in Nat
  BY <1>0
<1>5. PICK part, left : /\ part = SubSeq(writer.out, 1, k)
                        /\ left = SubSeq(writer.out, k + 1, Len(writer.out))
  OBVIOUS
<1>cut. /\ SubSeq(writer.out, 1, k) \in Seq(Byte) /\ Len(SubSeq(writer.out, 1, k)) = k
        /\ \A j \in 1 .. k : SubSeq(writer.out, 1, k)[j] = writer.out[j]
        /\ SubSeq(writer.out, k + 1, Len(writer.out)) \in Seq(Byte)
        /\ Len(SubSeq(writer.out, k + 1, Len(writer.out))) = Len(writer.out) - k
        /\ \A j \in 1 .. Len(writer.out) - k :
             SubSeq(writer.out, k + 1, Len(writer.out))[j] = writer.out[k + j]
  BY <1>0, <1>4, CutInTwo
<1>6. /\ part \in Seq(Byte) /\ Len(part) = k /\ \A j \in 1 .. k : part[j] = writer.out[j]
      /\ left \in Seq(Byte) /\ Len(left) = Len(writer.out) - k
      /\ \A j \in 1 .. Len(writer.out) - k : left[j] = writer.out[k + j]
  BY <1>5, <1>cut
<1>7. Moved(k)
  <2>1. wire' = wire \o part
    BY <1>3, <1>5
  <2>2. /\ wire' \in Seq(Byte) /\ Len(wire') = Len(wire) + k
        /\ \A i \in 1 .. Len(wire) + k :
             wire'[i] = IF i <= Len(wire) THEN wire[i] ELSE part[i - Len(wire)]
    BY <1>0, <1>6, <2>1, ConcatProperties
  <2>3. \A j \in 1 .. Len(wire) : wire'[j] = wire[j]
    BY <1>0, <1>4, <2>2
  <2>4. \A j \in 1 .. k : wire'[Len(wire) + j] = part[j]
    <3>1. \A j \in 1 .. k : /\ Len(wire) + j \in 1 .. Len(wire) + k
                            /\ ~(Len(wire) + j <= Len(wire)) /\ Len(wire) + j - Len(wire) = j
      BY <1>0, <1>4
    <3> QED BY <2>2, <3>1
  <2> QED BY <1>3, <1>6, <2>2, <2>3, <2>4 DEF Moved
<1>8. CASE left # <<>>
  <2>1. writer' = [writer EXCEPT !.out = left]
    BY <1>3, <1>5, <1>8
  <2>2. writer'.call = writer.call /\ writer'.out = left /\ writer'.text = writer.text
    BY <1>0, <2>1 DEF WriterState
  <2>3. writer' \in WriterState
    BY <1>0, <1>6, <2>1 DEF WriterState
  <2>4. WroteOn(k)
    BY <1>6, <1>8, <2>2 DEF WroteOn
  <2> QED BY <1>2, <1>4, <1>7, <2>3, <2>4
<1>9. CASE left = <<>>
  <2>1. k = Len(writer.out)
    BY <1>0, <1>4, <1>6, <1>9, EmptySeq
  <2>2. CASE writer.text # <<>>
    <3>1. writer' = [writer EXCEPT !.out = writer.text, !.text = <<>>]
      BY <1>3, <1>5, <1>9, <2>2
    <3>2. writer'.call = writer.call /\ writer'.out = writer.text /\ writer'.text = <<>>
      BY <1>0, <3>1 DEF WriterState
    <3>3. <<>> \in Seq(Byte)
      BY EmptySeq
    <3>4. writer' \in WriterState
      BY <1>0, <3>1, <3>3 DEF WriterState
    <3>5. WroteWord(k)
      BY <2>1, <2>2, <3>2 DEF WroteWord
    <3> QED BY <1>2, <1>4, <1>7, <3>4, <3>5
  <2>3. CASE writer.text = <<>>
    <3>1. writer' = Calling(writer.call + 1)
      BY <1>3, <1>5, <1>9, <2>3
    <3>2. writer.call + 1 \in 1 .. Len(Script) + 1
      BY <1>0, <1>2
    <3>3. writer' \in WriterState
      BY <3>1, <3>2, CallingTyped
    <3>4. WroteAll(k)
      BY <2>1, <2>3, <3>1 DEF WroteAll
    <3> QED BY <1>2, <1>4, <1>7, <3>3, <3>4
  <2> QED BY <2>2, <2>3
<1> QED BY <1>8, <1>9

\* What a step of the reader takes from the connection, and what it makes of it.
Took(k, data) ==
  /\ k \in 1 .. Left /\ k <= Len(wire)
  /\ wire' \in Seq(Byte) /\ Len(wire') = Len(wire) - k
  /\ \A j \in 1 .. Len(wire) - k : wire'[j] = wire[k + j]
  /\ data \in Seq(Byte) /\ Len(data) = Len(reader.data) + k
  /\ \A j \in 1 .. Len(reader.data) : data[j] = reader.data[j]
  /\ \A j \in 1 .. k : data[Len(reader.data) + j] = wire[j]
ReadOn(k, data) == k < Left /\ reader' = [reader EXCEPT !.data = data] /\ UNCHANGED got
ReadAll(k, data) ==
  /\ k = Left
  /\ \E b \in Seq(Byte) : /\ Len(b) = reader.size
                          /\ \A j \in 1 .. reader.size : b[j] = data[reader.slip + j]
                          /\ Filled(b)
StoredAstray ==
  /\ reader.slip > 0
  /\ reader' = [reader EXCEPT !.pc = "wild", !.data = <<>>] /\ UNCHANGED got

LEMMA ReadDoes ==
  ASSUME WireInv, Read
  PROVE  \E k \in Nat, data \in Seq(Byte) :
           Took(k, data) /\ (ReadOn(k, data) \/ ReadAll(k, data) \/ StoredAstray)
<1>0. /\ wire \in Seq(Byte) /\ Len(wire) \in Nat
      /\ reader.data \in Seq(Byte) /\ Len(reader.data) \in Nat
      /\ reader.size \in Nat /\ reader.slip \in Nat
  BY LenProperties DEF WireInv, ReaderRight, KernelRight, ReaderState
<1>1. PICK k \in 1 .. Left :
        LET data == reader.data \o SubSeq(wire, 1, k)
        IN  /\ k <= Len(wire)
            /\ wire' = SubSeq(wire, k + 1, Len(wire))
            /\ \/ /\ k < Left /\ reader' = [reader EXCEPT !.data = data]
                  /\ UNCHANGED got
               \/ k = Left /\ Filled(SubSeq(data, reader.slip + 1, Len(data)))
               \/ /\ Len(reader.data) < reader.slip
                  /\ reader' = [reader EXCEPT !.pc = "wild", !.data = <<>>]
                  /\ UNCHANGED got
  BY DEF Read
<1>2. Left \in Int /\ Left = reader.size + reader.slip - Len(reader.data)
  BY <1>0 DEF Left
<1>3. k \in Nat /\ k \in 0 .. Len(wire) /\ k <= Left
  BY <1>0, <1>1, <1>2
<1>4. PICK data : data = reader.data \o SubSeq(wire, 1, k)
  OBVIOUS
<1>5. /\ SubSeq(wire, 1, k) \in Seq(Byte) /\ Len(SubSeq(wire, 1, k)) = k
      /\ \A j \in 1 .. k : SubSeq(wire, 1, k)[j] = wire[j]
      /\ SubSeq(wire, k + 1, Len(wire)) \in Seq(Byte)
      /\ Len(SubSeq(wire, k + 1, Len(wire))) = Len(wire) - k
      /\ \A j \in 1 .. Len(wire) - k : SubSeq(wire, k + 1, Len(wire))[j] = wire[k + j]
  BY <1>0, <1>3, CutInTwo
<1>6. /\ data \in Seq(Byte) /\ Len(data) = Len(reader.data) + k
      /\ \A i \in 1 .. Len(reader.data) + k :
           data[i] = IF i <= Len(reader.data) THEN reader.data[i]
                     ELSE SubSeq(wire, 1, k)[i - Len(reader.data)]
  BY <1>0, <1>4, <1>5, ConcatProperties
<1>7. \A j \in 1 .. Len(reader.data) : data[j] = reader.data[j]
  BY <1>0, <1>3, <1>6
<1>8. \A j \in 1 .. k : data[Len(reader.data) + j] = wire[j]
  <2> TAKE j \in 1 .. k
  <2>1. PICK i : i = Len(reader.data) + j
    OBVIOUS
  <2>2. /\ i \in 1 .. Len(reader.data) + k /\ ~(i <= Len(reader.data))
        /\ i - Len(reader.data) = j
    BY <1>0, <1>3, <2>1
  <2>3. data[i] = SubSeq(wire, 1, k)[j]
    BY <1>6, <2>2
  <2> QED BY <1>5, <2>1, <2>3
<1>9. Took(k, data)
  BY <1>1, <1>5, <1>6, <1>7, <1>8 DEF Took
<1>10. CASE k < Left /\ reader' = [reader EXCEPT !.data = data] /\ UNCHANGED got
  BY <1>3, <1>6, <1>9, <1>10 DEF ReadOn
<1>11. CASE k = Left /\ Filled(SubSeq(data, reader.slip + 1, Len(data)))
  <2>1. reader.slip \in 0 .. Len(data) /\ Len(data) - reader.slip = reader.size
    BY <1>0, <1>2, <1>3, <1>6, <1>11
  <2>2. PICK b : b = SubSeq(data, reader.slip + 1, Len(data))
    OBVIOUS
  <2>3. /\ SubSeq(data, reader.slip + 1, Len(data)) \in Seq(Byte)
        /\ Len(SubSeq(data, reader.slip + 1, Len(data))) = Len(data) - reader.slip
        /\ \A j \in 1 .. Len(data) - reader.slip :
             SubSeq(data, reader.slip + 1, Len(data))[j] = data[reader.slip + j]
    BY <1>6, <2>1, CutInTwo
  <2>4. /\ b \in Seq(Byte) /\ Len(b) = reader.size
        /\ \A j \in 1 .. reader.size : b[j] = data[reader.slip + j]
    BY <2>1, <2>2, <2>3
  <2>5. Filled(b)
    BY <1>11, <2>2
  <2>6. ReadAll(k, data)
    BY <1>11, <2>4, <2>5 DEF ReadAll
  <2> QED BY <1>3, <1>6, <1>9, <2>6
<1>12. CASE /\ Len(reader.data) < reader.slip
            /\ reader' = [reader EXCEPT !.pc = "wild", !.data = <<>>]
            /\ UNCHANGED got
  <2>1. StoredAstray
    BY <1>0, <1>12 DEF StoredAstray
  <2> QED BY <1>3, <1>6, <1>9, <2>1
<1> QED BY <1>1, <1>4, <1>10, <1>11, <1>12

\* A call has returned: the next one begins.
LEMMA ReturnRight ==
  ASSUME WireInv, Looping, NEW v \in Word \cup Seq(Byte), Return(v), UNCHANGED signals
  PROVE  ReaderRight' /\ Len(got') = Len(got) + 1
<1>0. /\ got \in Seq(Returned) /\ Len(got) \in Nat /\ Len(got) < Len(Script)
      /\ Len(Script) \in Nat /\ WordSize \in Nat \ {0} /\ signals \in Nat
  BY LenProperties, Sizes DEF WireInv, ReaderRight, KernelRight
<1>1. PICK i \in 1 .. Len(Script) : i = Len(got) + 1
  BY <1>0
<1>2. [kind |-> Script[i].kind, arg |-> v] \in Returned
  <2>1. Script[i].kind \in {"int", "line"}
    BY CallKinds
  <2> QED BY <2>1 DEF Returned
<1>3. got' = Append(got, [kind |-> Script[i].kind, arg |-> v]) /\ reader' = Expecting(i + 1)
  BY <1>0, <1>1 DEF Return
<1>4. got' \in Seq(Returned) /\ Len(got') = i
  BY <1>0, <1>1, <1>2, <1>3, AppendProperties
<1>5. i + 1 \in 1 .. Len(Script) + 1
  BY <1>0
<1>6. /\ reader' \in ReaderState
      /\ reader'.data = <<>> /\ reader'.slip = 0 /\ reader'.size = WordSize
      /\ i + 1 = Len(Script) + 1 => reader'.pc = "end"
      /\ i + 1 <= Len(Script) => reader'.pc = IF IsWord(Script[i + 1]) THEN "int" ELSE "len"
  BY <1>3, <1>5, ExpectingTyped
<1>7. Left' = WordSize
  BY <1>0, <1>6, EmptySeq DEF Left
<1>8. i + 1 = Len(Script) + 1 \/ i + 1 <= Len(Script)
  BY <1>0
<1>9. Looping' => i < Len(Script)
  BY <1>0, <1>6, <1>8 DEF Looping
<1>10. ReaderRight'
  BY <1>0, <1>4, <1>6, <1>7, <1>8, <1>9 DEF ReaderRight, Looping
<1> QED BY <1>1, <1>4, <1>10

\* A loop that has filled its variable leaves the reader right.
LEMMA FilledRight ==
  ASSUME WireInv, Looping, UNCHANGED signals,
         NEW b \in Seq(Byte), Len(b) = reader.size, Filled(b)
  PROVE  ReaderRight'
<1>0. reader \in ReaderState /\ <<>> \in Seq(Byte)
  BY EmptySeq DEF WireInv, ReaderRight
<1>1. ASSUME NEW v \in Word \cup Seq(Byte), Return(v)
      PROVE  ReaderRight'
  BY <1>1, ReturnRight
<1>2. CASE reader.pc = "int" /\ Return(Decode(b))
  <2>1. reader.size = WordSize
    BY <1>2 DEF WireInv, ReaderRight
  <2>2. Decode(b) \in Word
    BY <2>1, WordOfBytes
  <2> QED BY <1>1, <1>2, <2>2
<1>3. CASE reader.pc = "text" /\ Return(b)
  BY <1>1, <1>3
<1>4. CASE reader.pc = "len" /\ Decode(b) = 0 /\ Return(<<>>)
  BY <1>0, <1>1, <1>4
<1>5. CASE /\ reader.pc = "len" /\ Decode(b) \in 1 .. BufferSize
           /\ reader' = [pc |-> "text", size |-> Decode(b), data |-> <<>>, slip |-> 0]
           /\ UNCHANGED got
  <2>1. PICK n \in Nat \ {0} : n = Decode(b)
    BY <1>5, Sizes
  <2>2. reader' = [pc |-> "text", size |-> n, data |-> <<>>, slip |-> 0]
    BY <1>5, <2>1
  <2>3. reader' \in ReaderState
    BY <1>0, <2>2 DEF ReaderState
  <2>4. Left' = n
    BY <2>2, EmptySeq DEF Left
  <2>5. /\ got \in Seq(Returned) /\ Len(got) < Len(Script) /\ Len(got) <= Len(Script)
        /\ ~IsWord(Script[Len(got) + 1]) /\ signals \in 0 .. MaxSignals
    BY <1>5 DEF WireInv, ReaderRight, KernelRight
  <2>6. reader'.pc = "text" /\ reader'.slip = 0
    BY <2>2
  <2>7. 0 <= signals
    BY <2>5, Sizes
  <2> QED BY <1>5, <2>3, <2>4, <2>5, <2>6, <2>7 DEF ReaderRight, Looping
<1>6. CASE /\ reader.pc = "len" /\ Decode(b) > BufferSize
           /\ reader' = [reader EXCEPT !.pc = "wild", !.data = <<>>]
           /\ UNCHANGED got
  BY <1>0, <1>6 DEF WireInv, ReaderRight, Looping, ReaderState
<1> QED BY <1>2, <1>3, <1>4, <1>5, <1>6 DEF Filled

LEMMA WireInvInit == Init => WireInv
<1> SUFFICES ASSUME Init PROVE WireInv
  OBVIOUS
<1>0. Len(Script) \in Nat /\ WordSize \in Nat \ {0} /\ Capacity \in Nat /\ MaxSignals \in Nat
  BY Sizes
<1>1. 1 \in 1 .. Len(Script) + 1
  BY <1>0
<1>2. WriterRight
  <2>1. writer = Calling(1)
    BY DEF Init
  <2> QED BY <1>0, <1>1, <2>1, CallingTyped DEF WriterRight
<1>3. ReaderRight
  <2>1. reader = Expecting(1) /\ got = <<>> /\ signals = 0
    BY DEF Init
  <2>2. <<>> \in Seq(Returned) /\ Len(got) = 0
    BY <2>1, EmptySeq
  <2>3. /\ reader \in ReaderState
        /\ reader.data = <<>> /\ reader.slip = 0 /\ reader.size = WordSize
        /\ 1 = Len(Script) + 1 => reader.pc = "end"
        /\ 1 <= Len(Script) => reader.pc = IF IsWord(Script[1]) THEN "int" ELSE "len"
    BY <1>1, <2>1, ExpectingTyped
  <2>4. Left = WordSize
    BY <1>0, <2>3, EmptySeq DEF Left
  <2> QED BY <1>0, <2>1, <2>2, <2>3, <2>4 DEF ReaderRight, Looping
<1>4. KernelRight
  <2>1. <<>> \in Seq(Byte) /\ Len(<<>>) = 0
    BY EmptySeq
  <2> QED BY <1>0, <2>1 DEF Init, KernelRight
<1> QED BY <1>2, <1>3, <1>4 DEF WireInv

LEMMA WireInvStep == WireInv /\ [Next]_vars => WireInv'
<1> SUFFICES ASSUME WireInv, [Next]_vars PROVE WireInv'
  OBVIOUS
<1>0. WriterRight /\ ReaderRight /\ KernelRight
  BY DEF WireInv
<1>1. CASE Write
  <2>1. UNCHANGED <<open, reader, got, signals>>
    BY <1>1 DEF Write
  <2>2. ReaderRight'
    BY <1>0, <2>1 DEF ReaderRight, Looping, Left
  <2>3. PICK k \in Nat : Moved(k) /\ (WroteOn(k) \/ WroteWord(k) \/ WroteAll(k))
    BY <1>1, WriteDoes
  <2>4. writer.call \in 1 .. Len(Script) /\ writer' \in WriterState
    BY <1>1, WriteDoes
  <2>5. KernelRight'
    BY <1>0, <2>1, <2>3 DEF KernelRight, Moved
  <2>6. CASE WroteAll(k)
    <3>1. writer.call + 1 \in 1 .. Len(Script) + 1
      BY <2>4, Sizes
    <3>2. writer' = Calling(writer.call + 1)
      BY <2>6 DEF WroteAll
    <3> QED BY <1>0, <2>2, <2>4, <2>5, <3>1, <3>2, CallingTyped DEF WriterRight, WireInv
  <2>7. CASE WroteOn(k) \/ WroteWord(k)
    <3>1. writer'.call = writer.call /\ writer'.out # <<>>
      BY <2>7 DEF WroteOn, WroteWord
    <3>2. writer.call # Len(Script) + 1
      BY <2>4, Sizes
    <3> QED BY <2>2, <2>4, <2>5, <3>1, <3>2 DEF WriterRight, WireInv
  <2> QED BY <2>3, <2>6, <2>7
<1>2. CASE End
  BY <1>0, <1>2 DEF End, WireInv, WriterRight, ReaderRight, KernelRight, Looping, Left
<1>3. CASE Read
  <2>1. UNCHANGED <<writer, open, signals>> /\ Looping
    BY <1>3 DEF Read
  <2>2. WriterRight'
    BY <1>0, <2>1 DEF WriterRight
  <2>3. PICK k \in Nat, data \in Seq(Byte) :
          Took(k, data) /\ (ReadOn(k, data) \/ ReadAll(k, data) \/ StoredAstray)
    BY <1>3, ReadDoes
  <2>4. KernelRight'
    <3>1. wire' \in Seq(Byte) /\ Len(wire') = Len(wire) - k /\ Len(wire) \in Nat
      BY <1>0, <2>3, LenProperties DEF Took, KernelRight
    <3>2. Len(wire') <= Capacity
      BY <1>0, <3>1, Sizes DEF KernelRight
    <3> QED BY <1>0, <2>1, <3>1, <3>2 DEF KernelRight
  <2>5. CASE ReadOn(k, data)
    <3>1. k < Left /\ reader' = [reader EXCEPT !.data = data] /\ got' = got
      BY <2>5 DEF ReadOn
    <3>2. reader \in ReaderState /\ Len(reader.data) \in Nat
      BY <1>0, LenProperties DEF ReaderRight, ReaderState
    <3>3. reader' \in ReaderState
      BY <3>1, <3>2 DEF ReaderState
    <3>4. /\ reader'.pc = reader.pc /\ reader'.size = reader.size /\ reader'.slip = reader.slip
          /\ reader'.data = data
      BY <3>1, <3>2 DEF ReaderState
    <3>5. Len(data) = Len(reader.data) + k
      BY <2>3 DEF Took
    <3>6. reader.size \in Nat /\ reader.slip \in Nat
      BY <3>2 DEF ReaderState
    <3>7. Left' = Left - k
      BY <3>2, <3>4, <3>5, <3>6 DEF Left
    <3>8. Left \in Int
      BY <3>2, <3>6 DEF Left
    <3>9. Left' > 0
      BY <3>1, <3>7, <3>8
    <3>10. ReaderRight'
      BY <1>0, <2>1, <3>1, <3>3, <3>4, <3>9 DEF ReaderRight, Looping
    <3> QED BY <2>2, <2>4, <3>10 DEF WireInv
  <2>6. CASE ReadAll(k, data)
    BY <2>1, <2>2, <2>4, <2>6, FilledRight DEF ReadAll, WireInv
  <2>7. CASE StoredAstray
    BY <1>0, <2>1, <2>2, <2>4, <2>7, EmptySeq
       DEF StoredAstray, WireInv, ReaderRight, ReaderState, Looping
  <2> QED BY <2>3, <2>5, <2>6, <2>7
<1>4. CASE Interrupt
  <2>1. /\ Looping /\ signals < MaxSignals /\ signals' = signals + 1
        /\ UNCHANGED <<writer, wire, open, got>>
    BY <1>4 DEF Interrupt
  <2>2. reader \in ReaderState /\ reader.size \in Nat /\ reader.slip \in Nat
        /\ reader.data \in Seq(Byte) /\ Len(reader.data) \in Nat /\ signals \in Nat
    BY <1>0, Sizes, LenProperties DEF ReaderRight, KernelRight, ReaderState
  <2>3. /\ reader' \in ReaderState /\ reader'.pc = reader.pc /\ reader'.size = reader.size
        /\ reader'.slip \in Nat /\ reader'.slip <= reader.slip + 1 /\ Len(reader'.data) \in Nat
        /\ reader'.slip - Len(reader'.data) = reader.slip - Len(reader.data) + 1
    <3>1. CASE reader.data = <<>>
      <4>1. reader' = [reader EXCEPT !.slip = @ + 1]
        BY <1>4, <3>1 DEF Interrupt
      <4> QED BY <2>2, <4>1 DEF ReaderState
    <3>2. CASE reader.data # <<>>
      <4>1. PICK d : d = SubSeq(reader.data, 1, Len(reader.data) - 1)
        OBVIOUS
      <4>2. reader' = [reader EXCEPT !.data = d]
        BY <1>4, <3>2, <4>1 DEF Interrupt
      <4>3. Len(reader.data) > 0
        BY <2>2, <3>2, EmptySeq
      <4>4. d \in Seq(Byte) /\ Len(d) = Len(reader.data) - 1
        BY <2>2, <4>1, <4>3, SubSeqProperties
      <4>5. reader' \in ReaderState
        BY <2>2, <4>2, <4>4 DEF ReaderState
      <4>6. /\ reader'.pc = reader.pc /\ reader'.size = reader.size
            /\ reader'.slip = reader.slip /\ reader'.data = d
        BY <2>2, <4>2 DEF ReaderState
      <4>7. Len(reader'.data) = Len(reader.data) - 1
        BY <4>4, <4>6
      <4> QED BY <2>2, <4>3, <4>5, <4>6, <4>7
    <3> QED BY <3>1, <3>2
  <2>4. Left' = Left + 1 /\ Left \in Int
    BY <2>2, <2>3 DEF Left
  <2>5. ReaderRight'
    BY <1>0, <2>1, <2>2, <2>3, <2>4 DEF ReaderRight, Looping
  <2>6. KernelRight' /\ WriterRight'
    BY <1>0, <2>1, <2>2, Sizes DEF KernelRight, WriterRight
  <2> QED BY <2>5, <2>6 DEF WireInv
<1>5. CASE Reset
  BY <1>0, <1>5, EmptySeq
     DEF Reset, WireInv, WriterRight, ReaderRight, KernelRight, Looping, ReaderState
<1>6. CASE UNCHANGED vars
  BY <1>0, <1>6 DEF vars, WireInv, WriterRight, ReaderRight, KernelRight, Looping, Left
<1> QED BY <1>1, <1>2, <1>3, <1>4, <1>5, <1>6 DEF Next

LEMMA WireInvHolds == Spec => []WireInv
BY WireInvInit, WireInvStep, PTL DEF Spec

LEMMA WireInvTypes == WireInv => TypeOK
<1> SUFFICES ASSUME WireInv PROVE TypeOK
  OBVIOUS
<1>1. MaxSignals \in Nat /\ reader.slip \in Nat /\ reader \in ReaderState
      /\ signals \in 0 .. MaxSignals /\ reader.slip <= signals
  BY Sizes DEF WireInv, ReaderRight, KernelRight, ReaderState
<1>2. reader.slip \in 0 .. MaxSignals
  BY <1>1
<1>3. reader \in [pc : {"int", "len", "text", "end", "wild", "exited"}, size : Nat,
                  data : Seq(Byte), slip : 0 .. MaxSignals]
  BY <1>1, <1>2 DEF ReaderState
<1> QED BY <1>3 DEF WireInv, WriterRight, ReaderRight, KernelRight, WriterState, TypeOK

\* However reads and writes are cut and whatever interrupts them, every
\* variable keeps its type, and no loop asks for a negative length or for
\* nothing.
THEOREM WireTypes == Spec => []TypeOK
BY WireInvHolds, WireInvTypes, PTL

----------------------------------------------------------------------------
(* The stream of all bytes                                                 *)

\* The bytes of a call; bytes is those of the first n calls, and those of
\* call i stand behind the first at[i].
Whole(i) == Calling(i).out \o Calling(i).text
IsStream(at, bytes, n) ==
  /\ at \in [1 .. n + 1 -> Nat] /\ bytes \in Seq(Byte)
  /\ at[1] = 0 /\ at[n + 1] = Len(bytes)
  /\ \A i \in 1 .. n : /\ at[i + 1] = at[i] + Len(Whole(i)) /\ at[i + 1] <= Len(bytes)
                       /\ \A j \in 1 .. Len(Whole(i)) : bytes[at[i] + j] = Whole(i)[j]

LEMMA WholeTyped ==
  ASSUME NEW i \in 1 .. Len(Script) + 1
  PROVE  /\ Whole(i) \in Seq(Byte) /\ Len(Whole(i)) \in Nat
         /\ Len(Whole(i)) = Len(Calling(i).out) + Len(Calling(i).text)
         /\ \A j \in 1 .. Len(Calling(i).out) : Whole(i)[j] = Calling(i).out[j]
         /\ \A j \in 1 .. Len(Calling(i).text) :
              Whole(i)[Len(Calling(i).out) + j] = Calling(i).text[j]
<1>1. PICK s \in Seq(Byte), t \in Seq(Byte) : s = Calling(i).out /\ t = Calling(i).text
  BY CallingTyped DEF WriterState
<1>2. Len(s) \in Nat /\ Len(t) \in Nat
  BY LenProperties
<1>3. /\ s \o t \in Seq(Byte) /\ Len(s \o t) = Len(s) + Len(t)
      /\ \A k \in 1 .. Len(s) + Len(t) : (s \o t)[k] = IF k <= Len(s) THEN s[k] ELSE t[k - Len(s)]
  BY ConcatProperties
<1>4. \A j \in 1 .. Len(s) : (s \o t)[j] = s[j]
  BY <1>2, <1>3
<1>5. ASSUME NEW j \in 1 .. Len(t)
      PROVE  (s \o t)[Len(s) + j] = t[j]
  <2>1. PICK k : k = Len(s) + j
    OBVIOUS
  <2>2. k \in 1 .. Len(s) + Len(t) /\ ~(k <= Len(s)) /\ k - Len(s) = j
    BY <1>2, <2>1
  <2> QED BY <1>3, <2>1, <2>2
<1>6. Whole(i) = s \o t
  BY <1>1 DEF Whole
<1>7. /\ Whole(i) \in Seq(Byte) /\ Len(Whole(i)) = Len(s) + Len(t) /\ Len(Whole(i)) \in Nat
      /\ \A j \in 1 .. Len(s) : Whole(i)[j] = s[j]
      /\ \A j \in 1 .. Len(t) : Whole(i)[Len(s) + j] = t[j]
  <2>1. Len(s) + Len(t) \in Nat
    BY <1>2
  <2> QED BY <1>3, <1>4, <1>5, <1>6, <2>1
<1> QED BY <1>1, <1>7

LEMMA StreamExists == \E at, bytes : IsStream(at, bytes, Len(Script))
<1>0. Len(Script) \in Nat
  BY Sizes
<1>1. \E at, bytes : IsStream(at, bytes, 0)
  <2>1. PICK at : at = [k \in 1 .. 1 |-> 0]
    OBVIOUS
  <2>2. at \in [1 .. 0 + 1 -> Nat] /\ at[1] = 0 /\ at[0 + 1] = 0
    BY <2>1
  <2>3. <<>> \in Seq(Byte) /\ Len(<<>>) = 0
    BY EmptySeq
  <2>4. \A i \in 1 .. 0 : FALSE
    OBVIOUS
  <2>5. IsStream(at, <<>>, 0)
    BY <2>2, <2>3, <2>4 DEF IsStream
  <2> QED BY <2>5
<1>2. ASSUME NEW n \in Nat, n < Len(Script), \E at, bytes : IsStream(at, bytes, n)
      PROVE  \E at, bytes : IsStream(at, bytes, n + 1)
  <2>1. PICK at, bytes : IsStream(at, bytes, n)
    BY <1>2
  <2>2. PICK w \in Seq(Byte) : w = Whole(n + 1) /\ Len(w) \in Nat
    <3>1. n + 1 \in 1 .. Len(Script) + 1
      BY <1>0, <1>2
    <3> QED BY <3>1, WholeTyped
  <2>3. /\ at \in [1 .. n + 1 -> Nat] /\ bytes \in Seq(Byte) /\ Len(bytes) \in Nat
        /\ at[1] = 0 /\ at[n + 1] = Len(bytes)
    BY <2>1, LenProperties DEF IsStream
  <2>4. PICK more : more = bytes \o w
    OBVIOUS
  <2>5. /\ more \in Seq(Byte) /\ Len(more) = Len(bytes) + Len(w)
        /\ \A k \in 1 .. Len(bytes) + Len(w) :
             more[k] = IF k <= Len(bytes) THEN bytes[k] ELSE w[k - Len(bytes)]
    BY <2>2, <2>3, <2>4, ConcatProperties
  <2>6. PICK at2 : at2 = [k \in 1 .. n + 2 |-> IF k = n + 2 THEN Len(more) ELSE at[k]]
    OBVIOUS
  <2>7. /\ at2 \in [1 .. n + 2 -> Nat] /\ at2[n + 2] = Len(more)
        /\ \A k \in 1 .. n + 1 : at2[k] = at[k]
    BY <2>2, <2>3, <2>5, <2>6
  <2>8. ASSUME NEW i \in 1 .. n + 1
        PROVE  /\ at2[i + 1] = at2[i] + Len(Whole(i)) /\ at2[i + 1] <= Len(more)
               /\ \A j \in 1 .. Len(Whole(i)) : more[at2[i] + j] = Whole(i)[j]
    <3>1. CASE i = n + 1
      <4>1. at2[i] = Len(bytes) /\ at2[i + 1] = Len(more)
        BY <1>2, <2>3, <2>7, <3>1
      <4>2. ASSUME NEW j \in 1 .. Len(w)
            PROVE  more[Len(bytes) + j] = w[j]
        <5>1. PICK k : k = Len(bytes) + j
          OBVIOUS
        <5>2. k \in 1 .. Len(bytes) + Len(w) /\ ~(k <= Len(bytes)) /\ k - Len(bytes) = j
          BY <2>2, <2>3, <5>1
        <5> QED BY <2>5, <5>1, <5>2
      <4>3. Len(more) <= Len(more) /\ Len(more) = Len(bytes) + Len(w)
        BY <2>2, <2>3, <2>5
      <4> QED BY <2>2, <3>1, <4>1, <4>2, <4>3
    <3>2. CASE i # n + 1
      <4>1. i \in 1 .. n /\ i + 1 \in 1 .. n + 1 /\ i \in 1 .. n + 1
        BY <1>2, <3>2
      <4>2. at2[i] = at[i] /\ at2[i + 1] = at[i + 1] /\ at[i] \in Nat
        BY <2>3, <2>7, <4>1
      <4>3. /\ at[i + 1] = at[i] + Len(Whole(i)) /\ at[i + 1] <= Len(bytes)
            /\ \A j \in 1 .. Len(Whole(i)) : bytes[at[i] + j] = Whole(i)[j]
        BY <2>1, <4>1 DEF IsStream
      <4>4. Len(Whole(i)) \in Nat
        BY <1>0, <1>2, <4>1, WholeTyped
      <4>5. ASSUME NEW j \in 1 .. Len(Whole(i))
            PROVE  more[at[i] + j] = bytes[at[i] + j]
        <5>1. PICK k : k = at[i] + j
          OBVIOUS
        <5>2. k \in 1 .. Len(bytes) + Len(w) /\ k <= Len(bytes)
          BY <2>2, <2>3, <4>2, <4>3, <4>4, <5>1
        <5> QED BY <2>5, <5>1, <5>2
      <4>6. at[i + 1] <= Len(more)
        BY <2>2, <2>3, <2>5, <4>2, <4>3, <4>4
      <4> QED BY <4>2, <4>3, <4>5, <4>6
    <3> QED BY <3>1, <3>2
  <2>9. at2[1] = 0 /\ n + 1 + 1 = n + 2
    BY <1>2, <2>3, <2>7
  <2>10. IsStream(at2, more, n + 1)
    BY <2>5, <2>7, <2>8, <2>9 DEF IsStream
  <2> QED BY <2>10
<1>3. PICK Bad \in SUBSET Nat :
        Bad = {n \in 0 .. Len(Script) : ~(\E at, bytes : IsStream(at, bytes, n))}
  <2>1. {n \in 0 .. Len(Script) : ~(\E at, bytes : IsStream(at, bytes, n))} \in SUBSET Nat
    BY <1>0
  <2> QED BY <2>1
<1>4. ASSUME Bad # {} PROVE FALSE
  <2> DEFINE Less == {ss \in Nat \X Nat : ss[1] < ss[2]}
  <2>1. IsWellFoundedOn(Less, Nat)
    BY NatLessThanWellFounded DEF OpToRel
  <2>2. PICK n \in Bad : \A m \in Bad : ~(<<m, n>> \in Less)
    <3> HIDE DEF Less
    <3> QED BY <1>4, <2>1, WFMin
  <2>3. n \in 0 .. Len(Script) /\ ~(\E at, bytes : IsStream(at, bytes, n))
    BY <1>3
  <2>4. n \in Nat /\ n # 0 /\ n <= Len(Script)
    BY <1>0, <1>1, <2>3
  <2>5. PICK m \in Nat : n = m + 1 /\ m < Len(Script) /\ m \in 0 .. Len(Script)
    <3>1. /\ n - 1 \in Nat /\ n = (n - 1) + 1 /\ n - 1 < Len(Script)
          /\ n - 1 \in 0 .. Len(Script)
      BY <1>0, <2>4
    <3> QED BY <3>1
  <2>6. m \notin Bad
    <3>1. <<m, n>> \in Nat \X Nat /\ m < n
      BY <2>4, <2>5
    <3>2. <<m, n>> \in Less
      BY <3>1
    <3> QED BY <2>2, <3>2
  <2>7. \E at, bytes : IsStream(at, bytes, m)
    BY <1>3, <2>5, <2>6
  <2> QED BY <1>2, <2>3, <2>5, <2>7
<1> QED BY <1>0, <1>3, <1>4

Layout == CHOOSE p : IsStream(p.at, p.bytes, Len(Script))
At == Layout.at
Stream == Layout.bytes

LEMMA LayoutIsStream == IsStream(At, Stream, Len(Script))
<1>1. PICK at, bytes : IsStream(at, bytes, Len(Script))
  BY StreamExists
<1>2. PICK p : p = [at |-> at, bytes |-> bytes]
  OBVIOUS
<1>3. p.at = at /\ p.bytes = bytes
  BY <1>2
<1>4. IsStream(p.at, p.bytes, Len(Script))
  BY <1>1, <1>3
<1> QED BY <1>4 DEF Layout, At, Stream

\* How much of the stream has been written, and where the variable begins
\* that the reader is filling.
Written == At[writer.call] + Len(Whole(writer.call)) - Len(writer.out) - Len(writer.text)
Begun == Written - Len(wire) - Len(reader.data)

\* What is left to write, in the connection and in the variable of the reader
\* are the bytes of the stream that stand there, and the loop of the reader
\* begins where a word or a text of its call does.  (After a signal that
\* interrupts the reader this is lost.)
OutFramed ==
  /\ Len(writer.out) + Len(writer.text) <= Len(Whole(writer.call))
  /\ \A j \in 1 .. Len(writer.out) : writer.out[j] = Stream[Written + j]
  /\ \A j \in 1 .. Len(writer.text) : writer.text[j] = Stream[Written + Len(writer.out) + j]
  /\ \A j \in 1 .. Len(wire) : wire[j] = Stream[Written - Len(wire) + j]
InFramed ==
  /\ Len(got) < writer.call
  /\ \A j \in 1 .. Len(reader.data) : reader.data[j] = Stream[Begun + j]
  /\ reader.pc \in {"int", "len"} => Begun = At[Len(got) + 1]
  /\ reader.pc = "text" => /\ Begun = At[Len(got) + 1] + WordSize
                           /\ reader.size = Len(Script[Len(got) + 1].arg)
Framed == OutFramed /\ (Looping => InFramed)

FrameInv == WireInv /\ (signals = 0 => Framed)

\* Where the bytes of a call stand.
LEMMA CallAt ==
  ASSUME NEW i \in 1 .. Len(Script) + 1
  PROVE  /\ At[i] \in Nat /\ Len(Whole(i)) \in Nat
         /\ i <= Len(Script) => /\ At[i + 1] = At[i] + Len(Whole(i))
                                /\ \A j \in 1 .. Len(Whole(i)) : Stream[At[i] + j] = Whole(i)[j]
         /\ At[1] = 0
<1>0. Len(Script) \in Nat
  BY Sizes
<1>1. At \in [1 .. Len(Script) + 1 -> Nat] /\ At[1] = 0
  BY LayoutIsStream DEF IsStream
<1>2. ASSUME i <= Len(Script)
      PROVE  /\ At[i + 1] = At[i] + Len(Whole(i))
             /\ \A j \in 1 .. Len(Whole(i)) : Stream[At[i] + j] = Whole(i)[j]
  <2>1. i \in 1 .. Len(Script)
    BY <1>0, <1>2
  <2> QED BY <2>1, LayoutIsStream DEF IsStream
<1> QED BY <1>1, <1>2, WholeTyped

\* The words and the text of a call in the stream.
LEMMA CallInStream ==
  ASSUME NEW i \in 1 .. Len(Script)
  PROVE  /\ IsWord(Script[i]) =>
              /\ Len(Whole(i)) = WordSize
              /\ \A j \in 1 .. WordSize : Stream[At[i] + j] = Bytes[Script[i].arg][j]
         /\ ~IsWord(Script[i]) =>
              /\ Len(Whole(i)) = WordSize + Len(Script[i].arg)
              /\ \A j \in 1 .. WordSize : Stream[At[i] + j] = Bytes[Len(Script[i].arg)][j]
              /\ \A j \in 1 .. Len(Script[i].arg) :
                   Stream[At[i] + WordSize + j] = Script[i].arg[j]
<1>0. /\ i \in 1 .. Len(Script) + 1 /\ i <= Len(Script)
      /\ WordSize \in Nat
  BY Sizes
<1>1. PICK out \in Seq(Byte), text \in Seq(Byte), w \in Seq(Byte) :
        out = Calling(i).out /\ text = Calling(i).text /\ w = Whole(i)
  BY <1>0, CallingTyped, WholeTyped DEF WriterState
<1>2. /\ Len(out) = WordSize /\ Len(text) \in Nat
      /\ Len(w) = WordSize + Len(text) /\ At[i] \in Nat
      /\ \A j \in 1 .. WordSize : w[j] = out[j]
      /\ \A j \in 1 .. Len(text) : w[WordSize + j] = text[j]
      /\ \A j \in 1 .. Len(w) : Stream[At[i] + j] = w[j]
  <2>1. Len(out) = WordSize /\ Len(text) \in Nat
    BY <1>0, <1>1, CallingTyped, LenProperties
  <2>2. /\ Len(w) = Len(out) + Len(text)
        /\ \A j \in 1 .. Len(out) : w[j] = out[j]
        /\ \A j \in 1 .. Len(text) : w[Len(out) + j] = text[j]
    BY <1>0, <1>1, WholeTyped
  <2>3. At[i] \in Nat /\ \A j \in 1 .. Len(w) : Stream[At[i] + j] = w[j]
    BY <1>0, <1>1, CallAt
  <2> QED BY <2>1, <2>2, <2>3
<1>3. \A j \in 1 .. WordSize : Stream[At[i] + j] = out[j]
  <2> TAKE j \in 1 .. WordSize
  <2>1. j \in 1 .. Len(w)
    BY <1>0, <1>2
  <2> QED BY <1>2, <2>1
<1>4. \A j \in 1 .. Len(text) : Stream[At[i] + WordSize + j] = text[j]
  <2> TAKE j \in 1 .. Len(text)
  <2>1. PICK m : m = WordSize + j
    OBVIOUS
  <2>2. m \in 1 .. Len(w) /\ At[i] + WordSize + j = At[i] + m
    BY <1>0, <1>2, <2>1
  <2>3. Stream[At[i] + m] = w[m] /\ w[m] = text[j]
    BY <1>2, <2>1, <2>2
  <2> QED BY <2>2, <2>3
<1>5. ASSUME IsWord(Script[i])
      PROVE  out = Bytes[Script[i].arg] /\ Len(text) = 0
  BY <1>0, <1>1, <1>5, CallingTyped, EmptySeq
<1>6. ASSUME ~IsWord(Script[i])
      PROVE  out = Bytes[Len(Script[i].arg)] /\ text = Script[i].arg
  BY <1>0, <1>1, <1>6, CallingTyped
<1>7. IsWord(Script[i]) =>
        /\ Len(Whole(i)) = WordSize
        /\ \A j \in 1 .. WordSize : Stream[At[i] + j] = Bytes[Script[i].arg][j]
  BY <1>0, <1>1, <1>2, <1>3, <1>5
<1>8. ~IsWord(Script[i]) =>
        /\ Len(Whole(i)) = WordSize + Len(Script[i].arg)
        /\ \A j \in 1 .. WordSize : Stream[At[i] + j] = Bytes[Len(Script[i].arg)][j]
        /\ \A j \in 1 .. Len(Script[i].arg) :
             Stream[At[i] + WordSize + j] = Script[i].arg[j]
  BY <1>1, <1>2, <1>3, <1>4, <1>6
<1> QED BY <1>7, <1>8

\* A step of the writer takes the next bytes of the stream.
LEMMA WriteFrames ==
  ASSUME WireInv, Framed, Write
  PROVE  Framed' /\ writer'.call \in {writer.call, writer.call + 1}
<1>0. UNCHANGED <<reader, got>>
  BY DEF Write
<1>1. PICK k \in Nat : Moved(k) /\ (WroteOn(k) \/ WroteWord(k) \/ WroteAll(k))
  BY WriteDoes
<1>2. writer.call \in 1 .. Len(Script) /\ writer' \in WriterState
  BY WriteDoes
<1>3. PICK c \in 1 .. Len(Script) : c = writer.call
  BY <1>2
<1>4. /\ Len(Script) \in Nat /\ c \in 1 .. Len(Script) + 1 /\ c + 1 \in 1 .. Len(Script) + 1
      /\ c <= Len(Script)
  BY Sizes
<1>5. PICK n \in Nat, t \in Nat, l \in Nat, d \in Nat, a \in Nat, h \in Nat :
        /\ n = Len(writer.out) /\ t = Len(writer.text) /\ l = Len(wire) /\ d = Len(reader.data)
        /\ a = At[c] /\ h = Len(Whole(c))
  BY <1>4, CallAt, LenProperties
     DEF WireInv, WriterRight, ReaderRight, KernelRight, WriterState, ReaderState
<1>6. At[c + 1] = a + h
  BY <1>4, <1>5, CallAt
<1>7. PICK W \in Int : W = Written /\ W = a + h - n - t /\ n + t <= h
  <2>1. Written = a + h - n - t
    BY <1>3, <1>5 DEF Written
  <2>2. n + t <= h
    BY <1>3, <1>5 DEF Framed, OutFramed, InFramed
  <2>3. a + h - n - t \in Int
    OBVIOUS
  <2> QED BY <2>1, <2>2, <2>3
<1>8. /\ k \in 1 .. n
      /\ wire' \in Seq(Byte) /\ Len(wire') = l + k
      /\ \A j \in 1 .. l : wire'[j] = wire[j]
      /\ \A j \in 1 .. k : wire'[l + j] = writer.out[j]
  BY <1>1, <1>5 DEF Moved
<1>9. /\ \A j \in 1 .. n : writer.out[j] = Stream[W + j]
      /\ \A j \in 1 .. t : writer.text[j] = Stream[W + n + j]
      /\ \A j \in 1 .. l : wire[j] = Stream[W - l + j]
  BY <1>5, <1>7 DEF Framed, OutFramed, InFramed
<1>10. /\ Written' = W + k
       /\ Len(writer'.out) + Len(writer'.text) <= Len(Whole(writer'.call))
       /\ \A j \in 1 .. Len(writer'.out) : writer'.out[j] = Stream[W + k + j]
       /\ \A j \in 1 .. Len(writer'.text) :
            writer'.text[j] = Stream[W + k + Len(writer'.out) + j]
       /\ writer'.call \in {writer.call, writer.call + 1}
  <2>1. CASE WroteOn(k)
    <3>1. /\ writer'.call = c /\ Len(writer'.out) = n - k /\ writer'.text = writer.text
          /\ Len(writer'.text) = t
          /\ \A j \in 1 .. n - k : writer'.out[j] = writer.out[k + j]
      BY <1>3, <1>5, <2>1 DEF WroteOn
    <3>2. Written' = a + h - (n - k) - t
      BY <1>5, <3>1 DEF Written
    <3>3. Written' = W + k
      BY <1>7, <3>2
    <3>4. ASSUME NEW j \in 1 .. n - k PROVE writer'.out[j] = Stream[W + k + j]
      <4>1. PICK m : m = k + j
        OBVIOUS
      <4>2. m \in 1 .. n /\ W + k + j = W + m
        BY <1>7, <1>8, <4>1
      <4> QED BY <1>9, <3>1, <4>1, <4>2
    <3>5. ASSUME NEW j \in 1 .. t PROVE writer'.text[j] = Stream[W + k + (n - k) + j]
      <4>1. W + k + (n - k) + j = W + n + j
        BY <1>7
      <4> QED BY <1>9, <3>1, <4>1
    <3>6. (n - k) + t <= h
      BY <1>7, <1>8
    <3> QED BY <1>3, <1>5, <3>1, <3>3, <3>4, <3>5, <3>6
  <2>2. CASE WroteWord(k)
    <3>1. /\ k = n /\ writer'.call = c /\ writer'.out = writer.text /\ writer'.text = <<>>
          /\ Len(writer'.out) = t /\ Len(writer'.text) = 0
      BY <1>3, <1>5, <2>2, EmptySeq DEF WroteWord
    <3>2. Written' = a + h - t - 0
      BY <1>5, <3>1 DEF Written
    <3>3. Written' = W + k
      BY <1>7, <3>1, <3>2
    <3>4. ASSUME NEW j \in 1 .. t PROVE writer'.out[j] = Stream[W + k + j]
      BY <1>9, <3>1
    <3>5. t + 0 <= h
      BY <1>7
    <3> QED BY <1>3, <1>5, <3>1, <3>3, <3>4, <3>5
  <2>3. CASE WroteAll(k)
    <3>1. k = n /\ t = 0 /\ writer' = Calling(c + 1) /\ writer'.call = c + 1
      BY <1>3, <1>4, <1>5, <2>3, CallingTyped, EmptySeq DEF WroteAll
    <3>2. PICK w, out, text : w = Whole(c + 1) /\ out = writer'.out /\ text = writer'.text
      OBVIOUS
    <3>3. PICK n2 \in Nat, t2 \in Nat : n2 = Len(out) /\ t2 = Len(text)
      BY <1>2, <3>2, LenProperties DEF WriterState
    <3>4. out = Calling(c + 1).out /\ text = Calling(c + 1).text
      BY <3>1, <3>2
    <3>5. /\ Len(w) = n2 + t2
          /\ \A j \in 1 .. n2 : w[j] = out[j]
          /\ \A j \in 1 .. t2 : w[n2 + j] = text[j]
      <4>1. /\ Len(w) = Len(out) + Len(text)
            /\ \A j \in 1 .. Len(out) : w[j] = out[j]
            /\ \A j \in 1 .. Len(text) : w[Len(out) + j] = text[j]
        BY <1>4, <3>2, <3>4, WholeTyped
      <4> QED BY <3>3, <4>1
    <3>6. Written' = At[c + 1] + Len(w) - n2 - t2 /\ At[c + 1] \in Nat
      BY <1>4, <3>1, <3>2, <3>3, CallAt DEF Written
    <3>7. Written' = W + k /\ W + k = At[c + 1]
      BY <1>6, <1>7, <3>1, <3>5, <3>6
    <3>8. ASSUME NEW m \in 1 .. n2 + t2 PROVE Stream[W + k + m] = w[m]
      <4>1. c + 1 <= Len(Script)
        <5>1. CASE c + 1 = Len(Script) + 1
          <6>1. out = <<>> /\ text = <<>>
            BY <1>4, <3>4, <5>1, CallingTyped
          <6>2. n2 = 0 /\ t2 = 0
            BY <3>3, <6>1, EmptySeq
          <6> QED BY <6>2
        <5> QED BY <1>4, <5>1
      <4>2. \A j \in 1 .. Len(w) : Stream[At[c + 1] + j] = w[j]
        BY <1>4, <3>2, <4>1, CallAt
      <4> QED BY <3>5, <3>7, <4>2
    <3>9. ASSUME NEW j \in 1 .. n2 PROVE out[j] = Stream[W + k + j]
      <4>1. j \in 1 .. n2 + t2
        OBVIOUS
      <4> QED BY <3>5, <3>8, <4>1
    <3>10. ASSUME NEW j \in 1 .. t2 PROVE text[j] = Stream[W + k + n2 + j]
      <4>1. PICK m : m = n2 + j
        OBVIOUS
      <4>2. m \in 1 .. n2 + t2 /\ W + k + n2 + j = W + k + m
        BY <1>7, <4>1
      <4> QED BY <3>5, <3>8, <4>1, <4>2
    <3>11. n2 + t2 <= Len(w)
      BY <3>5
    <3> QED BY <1>3, <3>1, <3>2, <3>3, <3>7, <3>9, <3>10, <3>11
  <2> QED BY <1>1, <2>1, <2>2, <2>3
<1>11. ASSUME NEW j \in 1 .. l + k PROVE wire'[j] = Stream[Written' - (l + k) + j]
  <2>1. Written' - (l + k) + j = W - l + j
    BY <1>7, <1>10
  <2>2. CASE j \in 1 .. l
    BY <1>8, <1>9, <2>1, <2>2
  <2>3. CASE j \notin 1 .. l
    <3>1. PICK m \in 1 .. k : j = l + m
      <4>1. j - l \in 1 .. k /\ j = l + (j - l)
        BY <2>3
      <4> QED BY <4>1
    <3>2. m \in 1 .. n /\ W - l + j = W + m
      BY <1>7, <1>8, <3>1
    <3>3. wire'[j] = writer.out[m] /\ writer.out[m] = Stream[W + m]
      BY <1>8, <1>9, <3>1, <3>2
    <3>4. Stream[Written' - (l + k) + j] = Stream[W + m]
      BY <2>1, <3>2
    <3> QED BY <3>3, <3>4
  <2> QED BY <2>2, <2>3
<1>12. Begun' = Begun /\ Looping' = Looping
  <2>1. Begun' = Written' - (l + k) - d /\ Begun = W - l - d
    BY <1>0, <1>5, <1>7, <1>8 DEF Begun
  <2> QED BY <1>0, <1>7, <1>10, <2>1 DEF Looping
<1>13. Looping => Len(got) < writer'.call
  <2>1. Looping => Len(got) < c
    BY <1>3 DEF Framed, OutFramed, InFramed
  <2>2. Len(got) \in Nat
    BY LenProperties DEF WireInv, ReaderRight
  <2> QED BY <1>3, <1>10, <2>1, <2>2
<1>14. Looping =>
       /\ \A j \in 1 .. Len(reader.data) : reader.data[j] = Stream[Begun + j]
       /\ reader.pc \in {"int", "len"} => Begun = At[Len(got) + 1]
       /\ reader.pc = "text" => /\ Begun = At[Len(got) + 1] + WordSize
                                /\ reader.size = Len(Script[Len(got) + 1].arg)
  BY DEF Framed, OutFramed, InFramed
<1>15. Framed'
  BY <1>0, <1>8, <1>10, <1>11, <1>12, <1>13, <1>14 DEF Framed, OutFramed, InFramed
<1> QED BY <1>10, <1>15

\* The next entry of the list has been received, and all its bytes were sent.
Received == /\ Len(got) < writer.call - 1
            /\ got' = Append(got, Script[Len(got) + 1])

\* As long as no signal has come, a step of the reader takes the next bytes of
\* the stream, and what it returns is what was sent.
LEMMA ReadFrames ==
  ASSUME WireInv, Framed, Read, signals = 0
  PROVE  Framed' /\ (got' = got \/ Received)
<1>0. UNCHANGED <<writer, open, signals>> /\ Looping
  BY DEF Read
<1>1. PICK k \in Nat, data \in Seq(Byte) :
        Took(k, data) /\ (ReadOn(k, data) \/ ReadAll(k, data) \/ StoredAstray)
  BY ReadDoes
<1>2. PICK z \in Nat, d \in Nat, l \in Nat, c \in 1 .. Len(Script) + 1 :
        /\ z = reader.size /\ d = Len(reader.data) /\ l = Len(wire) /\ c = writer.call
  BY LenProperties
     DEF WireInv, WriterRight, ReaderRight, KernelRight, WriterState, ReaderState
<1>3. reader \in ReaderState /\ reader.slip = 0 /\ got \in Seq(Returned)
  BY DEF WireInv, ReaderRight, ReaderState
<1>4. Left = z - d
  BY <1>2, <1>3 DEF Left
<1>5. PICK r \in 1 .. Len(Script) : r = Len(got) + 1
  <2>1. Len(got) \in Nat /\ Len(got) < Len(Script)
    BY <1>0, <1>3, LenProperties DEF WireInv, ReaderRight
  <2>2. Len(got) + 1 \in 1 .. Len(Script)
    BY <2>1, Sizes
  <2> QED BY <2>2
<1>6. /\ Len(Script) \in Nat /\ WordSize \in Nat
      /\ r \in 1 .. Len(Script) + 1 /\ r + 1 \in 1 .. Len(Script) + 1 /\ r <= Len(Script)
      /\ r <= c
  <2>1. Len(got) < c /\ Len(got) \in Nat
    BY <1>0, <1>2, <1>3, LenProperties DEF Framed, OutFramed, InFramed
  <2> QED BY <1>2, <1>5, <2>1, Sizes
<1>7. PICK a \in Nat, h \in Nat : a = At[r] /\ h = Len(Whole(r)) /\ At[r + 1] = a + h
  BY <1>6, CallAt
<1>8. PICK W \in Int : /\ W = Written /\ W = Written'
                       /\ r = c => W < a + h
  <2>1. PICK n \in Nat, t \in Nat : n = Len(writer.out) /\ t = Len(writer.text)
    BY LenProperties DEF WireInv, WriterRight, WriterState
  <2>2. Written = At[c] + Len(Whole(c)) - n - t
    BY <1>2, <2>1 DEF Written
  <2>3. At[c] \in Nat /\ Len(Whole(c)) \in Nat
    BY CallAt
  <2>4. PICK W \in Int : W = Written
    BY <2>2, <2>3
  <2>5. Written' = Written
    BY <1>0 DEF Written
  <2>6. ASSUME r = c PROVE W < a + h
    <3>1. writer.out # <<>>
      BY <1>2, <1>6, <2>6 DEF WireInv, WriterRight
    <3>2. n > 0
      BY <2>1, <3>1, EmptySeq DEF WireInv, WriterRight, WriterState
    <3> QED BY <1>7, <2>2, <2>4, <2>6, <3>2
  <2> QED BY <2>4, <2>5, <2>6
<1>9. PICK B \in Int : B = Begun /\ B = W - l - d
  BY <1>2, <1>8 DEF Begun
<1>begin. B = W - l - d
  BY <1>9
<1>10. /\ k >= 1 /\ k <= z - d /\ k <= l
       /\ wire' \in Seq(Byte) /\ Len(wire') = l - k
       /\ \A j \in 1 .. l - k : wire'[j] = wire[k + j]
       /\ Len(data) = d + k
       /\ \A j \in 1 .. d : data[j] = reader.data[j]
       /\ \A j \in 1 .. k : data[d + j] = wire[j]
  BY <1>1, <1>2, <1>4 DEF Took
<1>count. k >= 1 /\ k <= z - d /\ k <= l
  BY <1>10
<1>11. /\ \A j \in 1 .. l : wire[j] = Stream[W - l + j]
       /\ \A j \in 1 .. d : reader.data[j] = Stream[B + j]
       /\ reader.pc \in {"int", "len"} => B = a
       /\ reader.pc = "text" => B = a + WordSize /\ z = Len(Script[r].arg)
  BY <1>0, <1>2, <1>5, <1>7, <1>8, <1>9 DEF Framed, OutFramed, InFramed
<1>12. ASSUME NEW j \in 1 .. d + k PROVE data[j] = Stream[B + j]
  <2>1. CASE j \in 1 .. d
    BY <1>10, <1>11, <2>1
  <2>2. CASE j \notin 1 .. d
    <3>1. PICK m \in 1 .. k : j = d + m
      <4>1. j - d \in 1 .. k /\ j = d + (j - d)
        BY <2>2
      <4> QED BY <4>1
    <3>2. m \in 1 .. l /\ W - l + m = B + j
      BY <1>begin, <1>count, <3>1
    <3> QED BY <1>10, <1>11, <3>1, <3>2
  <2> QED BY <2>1, <2>2
<1>13. ASSUME NEW j \in 1 .. l - k PROVE wire'[j] = Stream[W - (l - k) + j]
  <2>1. PICK m : m = k + j
    OBVIOUS
  <2>2. m \in 1 .. l /\ W - l + m = W - (l - k) + j
    BY <1>10, <2>1
  <2> QED BY <1>10, <1>11, <2>1, <2>2
<1>14. /\ Len(writer.out) + Len(writer.text) <= Len(Whole(writer.call))
       /\ \A j \in 1 .. Len(writer.out) : writer.out[j] = Stream[W + j]
       /\ \A j \in 1 .. Len(writer.text) : writer.text[j] = Stream[W + Len(writer.out) + j]
  BY <1>8 DEF Framed, OutFramed, InFramed
<1>15. OutFramed'
  BY <1>0, <1>8, <1>10, <1>13, <1>14 DEF OutFramed
<1>16. CASE ReadOn(k, data)
  <2>1. reader' = [reader EXCEPT !.data = data] /\ got' = got
    BY <1>16 DEF ReadOn
  <2>2. reader'.pc = reader.pc /\ reader'.size = reader.size /\ reader'.data = data
    BY <1>3, <2>1 DEF ReaderState
  <2>3. Begun' = W - (l - k) - (d + k)
    BY <1>8, <1>10, <2>2 DEF Begun
  <2>4. Begun' = B
    BY <1>9, <2>3
  <2>5. Looping' = Looping
    BY <2>2 DEF Looping
  <2>6. InFramed'
    <3>1. Len(reader'.data) = d + k
      BY <1>10, <2>2
    <3>2. \A j \in 1 .. Len(reader'.data) : reader'.data[j] = Stream[B + j]
      BY <1>12, <2>2, <3>1
    <3>3. Len(got') < writer'.call
      BY <1>0, <2>1 DEF Framed, InFramed
    <3>4. /\ reader'.pc \in {"int", "len"} => B = At[Len(got') + 1]
          /\ reader'.pc = "text" => /\ B = At[Len(got') + 1] + WordSize
                                   /\ reader'.size = Len(Script[Len(got') + 1].arg)
      BY <1>2, <1>5, <1>7, <1>11, <2>1, <2>2
    <3> QED BY <2>4, <3>2, <3>3, <3>4 DEF InFramed
  <2> QED BY <1>15, <2>1, <2>6 DEF Framed
<1>17. CASE ReadAll(k, data)
  <2>1. PICK b \in Seq(Byte) :
          Len(b) = z /\ (\A j \in 1 .. z : b[j] = data[0 + j]) /\ Filled(b)
    BY <1>2, <1>3, <1>17 DEF ReadAll
  <2>2. d + k = z
    BY <1>4, <1>17 DEF ReadAll
  <2>3. \A j \in 1 .. z : b[j] = Stream[B + j]
    <3> TAKE j \in 1 .. z
    <3>1. j \in 1 .. d + k /\ 0 + j = j
      BY <2>2
    <3>2. b[j] = data[0 + j]
      BY <2>1
    <3> QED BY <1>12, <3>1, <3>2
  <2>4. W - (l - k) = B + z /\ B + z <= W
    BY <1>9, <1>10, <2>2
  <2>5. ASSUME Return(Script[r].arg), B + z = a + h
        PROVE  Framed' /\ Received
    <3>1. got' = Append(got, Script[r]) /\ reader' = Expecting(r + 1)
      <4>1. Script[r] = [kind |-> Script[r].kind, arg |-> Script[r].arg]
        BY CallKinds
      <4> QED BY <1>5, <2>5, <4>1 DEF Return
    <3>2. r < c
      BY <1>6, <1>8, <2>4, <2>5
    <3>3. Received
      BY <1>2, <1>5, <1>6, <3>1, <3>2 DEF Received
    <3>4. Len(got') = r
      BY <1>3, <1>5, <1>6, <2>5, <1>0, ReturnRight, CallKinds
    <3>5. /\ reader'.data = <<>>
          /\ r + 1 = Len(Script) + 1 => reader'.pc = "end"
          /\ r + 1 <= Len(Script) => reader'.pc \in {"int", "len"}
      BY <1>6, <3>1, ExpectingTyped
    <3>6. Begun' = W - (l - k) - 0 /\ Len(reader'.data) = 0
      BY <1>8, <1>10, <3>5, EmptySeq DEF Begun
    <3>7. Begun' = At[r + 1]
      BY <1>1, <1>2, <1>8, <1>9, <1>7, <1>10, <2>4, <2>5, <3>6
    <3>8. Looping' => reader'.pc \in {"int", "len"}
      BY <1>6, <3>5 DEF Looping
    <3>9. Framed'
      <4>1. \A j \in 1 .. 0 : FALSE
        OBVIOUS
      <4>2. Looping' => InFramed'
        BY <1>0, <1>2, <3>2, <3>4, <3>6, <3>7, <3>8, <4>1 DEF InFramed
      <4> QED BY <1>15, <4>2 DEF Framed
    <3> QED BY <3>3, <3>9
  <2>6. CASE reader.pc = "int" /\ Return(Decode(b))
    <3>1. IsWord(Script[r]) /\ z = WordSize /\ B = a
      BY <1>2, <1>5, <1>11, <2>6 DEF WireInv, ReaderRight
    <3>2. /\ h = WordSize /\ Script[r].arg \in Word
          /\ \A j \in 1 .. WordSize : Stream[a + j] = Bytes[Script[r].arg][j]
      BY <1>7, <3>1, CallInStream, CallKinds
    <3>3. Bytes[Script[r].arg] \in Seq(Byte) /\ Len(Bytes[Script[r].arg]) = WordSize
      BY <3>2, BytesOfWord
    <3>4. \A j \in 1 .. Len(b) : b[j] = Bytes[Script[r].arg][j]
      BY <2>1, <2>3, <3>1, <3>2
    <3>5. b = Bytes[Script[r].arg]
      BY <2>1, <3>1, <3>3, <3>4, SeqEqual
    <3>6. Decode(b) = Script[r].arg
      BY <3>2, <3>5, BytesOfWord
    <3> QED BY <2>5, <2>6, <3>1, <3>2, <3>6
  <2>7. CASE reader.pc = "text" /\ Return(b)
    <3>1. ~IsWord(Script[r]) /\ z = Len(Script[r].arg) /\ B = a + WordSize
      BY <1>2, <1>5, <1>11, <2>7 DEF WireInv, ReaderRight
    <3>2. /\ h = WordSize + z /\ Script[r].arg \in Seq(Byte)
          /\ \A j \in 1 .. z : Stream[a + WordSize + j] = Script[r].arg[j]
      BY <1>7, <3>1, CallInStream, CallKinds
    <3>3. \A j \in 1 .. Len(b) : b[j] = Script[r].arg[j]
      BY <2>1, <2>3, <3>1, <3>2
    <3>4. b = Script[r].arg
      BY <2>1, <3>1, <3>2, <3>3, SeqEqual
    <3>5. B + z = a + h
      <4>1. B = a + WordSize /\ h = WordSize + z /\ WordSize \in Nat
        BY <1>6, <3>1, <3>2
      <4> QED BY <4>1
    <3> QED BY <2>5, <2>7, <3>4, <3>5
  <2>8. ASSUME reader.pc = "len"
        PROVE  /\ ~IsWord(Script[r]) /\ z = WordSize /\ B = a /\ Script[r].arg \in Seq(Byte)
               /\ h = WordSize + Len(Script[r].arg) /\ Decode(b) = Len(Script[r].arg)
    <3>1. ~IsWord(Script[r]) /\ z = WordSize /\ B = a
      BY <1>2, <1>5, <1>11, <2>8 DEF WireInv, ReaderRight
    <3>2. PICK v \in Word : v = Len(Script[r].arg)
      BY <3>1, CallKinds
    <3>3. /\ h = WordSize + v /\ Script[r].arg \in Seq(Byte)
          /\ \A j \in 1 .. WordSize : Stream[a + j] = Bytes[v][j]
      BY <1>7, <3>1, <3>2, CallInStream, CallKinds
    <3>4. Bytes[v] \in Seq(Byte) /\ Len(Bytes[v]) = WordSize /\ Decode(Bytes[v]) = v
      BY BytesOfWord
    <3>5. \A j \in 1 .. Len(b) : b[j] = Bytes[v][j]
      BY <2>1, <2>3, <3>1, <3>3
    <3>6. b = Bytes[v]
      BY <2>1, <3>1, <3>4, <3>5, SeqEqual
    <3> QED BY <3>1, <3>2, <3>3, <3>4, <3>6
  <2>9. CASE reader.pc = "len" /\ Decode(b) = 0 /\ Return(<<>>)
    <3>1. Script[r].arg = <<>> /\ B + z = a + h
      BY <1>6, <2>8, <2>9, EmptySeq
    <3> QED BY <2>5, <2>9, <3>1
  <2>10. CASE /\ reader.pc = "len" /\ Decode(b) \in 1 .. BufferSize
              /\ reader' = [pc |-> "text", size |-> Decode(b), data |-> <<>>, slip |-> 0]
              /\ UNCHANGED got
    <3>1. reader'.pc = "text" /\ reader'.size = Len(Script[r].arg) /\ reader'.data = <<>>
      BY <2>8, <2>10
    <3>2. Begun' = W - (l - k) - 0 /\ Len(reader'.data) = 0
      BY <1>8, <1>10, <3>1, EmptySeq DEF Begun
    <3>3. Begun' = a + WordSize
      <4>1. Begun' = W - (l - k) - 0 /\ W - (l - k) = B + z /\ B = a /\ z = WordSize
        BY <2>4, <2>8, <2>10, <3>2
      <4> QED BY <4>1
    <3>4. Framed'
      <4>1. \A j \in 1 .. 0 : FALSE
        OBVIOUS
      <4>2. Len(got') < writer'.call
        BY <1>0, <2>10 DEF Framed, InFramed
      <4>3. InFramed'
        BY <1>5, <1>7, <2>10, <3>1, <3>2, <3>3, <4>1, <4>2 DEF InFramed
      <4> QED BY <1>15, <4>3 DEF Framed
    <3> QED BY <2>10, <3>4
  <2>11. CASE /\ reader.pc = "len" /\ Decode(b) > BufferSize
              /\ reader' = [reader EXCEPT !.pc = "wild", !.data = <<>>]
              /\ UNCHANGED got
    <3>1. reader'.pc = "wild"
      BY <1>3, <2>11 DEF ReaderState
    <3>2. ~Looping'
      BY <3>1 DEF Looping
    <3> QED BY <1>15, <2>11, <3>2 DEF Framed
  <2> QED BY <2>1, <2>6, <2>7, <2>9, <2>10, <2>11 DEF Filled
<1>18. ~StoredAstray
  BY <1>3 DEF StoredAstray
<1> QED BY <1>1, <1>16, <1>17, <1>18

LEMMA FrameInvInit == Init => FrameInv
<1> SUFFICES ASSUME Init PROVE WireInv /\ Framed
  BY DEF FrameInv
<1>1. WireInv
  BY WireInvInit
<1>2. /\ writer = Calling(1) /\ wire = <<>> /\ reader = Expecting(1) /\ got = <<>>
      /\ 1 \in 1 .. Len(Script) + 1 /\ Len(Script) \in Nat
  BY Sizes DEF Init
<1>3. PICK n \in Nat, t \in Nat : n = Len(writer.out) /\ t = Len(writer.text)
  BY <1>1, LenProperties DEF WireInv, WriterRight, WriterState
<1>4. PICK w, out, text : w = Whole(1) /\ out = writer.out /\ text = writer.text
  OBVIOUS
<1>5. /\ writer.call = 1 /\ Len(w) = n + t /\ At[1] = 0
      /\ \A j \in 1 .. n : w[j] = out[j]
      /\ \A j \in 1 .. t : w[n + j] = text[j]
      /\ 1 <= Len(Script) => \A j \in 1 .. Len(w) : Stream[0 + j] = w[j]
  <2>1. out = Calling(1).out /\ text = Calling(1).text /\ Calling(1).call = 1
    BY <1>2, <1>4, CallingTyped
  <2>2. /\ Len(w) = Len(out) + Len(text)
        /\ \A j \in 1 .. Len(out) : w[j] = out[j]
        /\ \A j \in 1 .. Len(text) : w[Len(out) + j] = text[j]
    BY <1>2, <1>4, <2>1, WholeTyped
  <2>3. At[1] = 0 /\ (1 <= Len(Script) => \A j \in 1 .. Len(w) : Stream[0 + j] = w[j])
    BY <1>2, <1>4, CallAt
  <2> QED BY <1>2, <1>3, <1>4, <2>1, <2>2, <2>3
<1>6. Written = 0
  <2>1. Written = 0 + (n + t) - n - t
    BY <1>3, <1>4, <1>5 DEF Written
  <2> QED BY <2>1
<1>7. ASSUME NEW j \in 1 .. n + t PROVE Stream[0 + j] = w[j]
  <2>1. 1 <= Len(Script)
    <3>1. ASSUME 1 = Len(Script) + 1 PROVE FALSE
      <4>1. writer.out = <<>> /\ writer.text = <<>>
        BY <1>2, <3>1, CallingTyped
      <4>2. n = 0 /\ t = 0
        BY <1>3, <4>1, EmptySeq
      <4> QED BY <4>2
    <3> QED BY <1>2, <3>1
  <2> QED BY <1>5, <2>1
<1>8. ASSUME NEW j \in 1 .. n PROVE out[j] = Stream[0 + j]
  <2>1. j \in 1 .. n + t
    OBVIOUS
  <2> QED BY <1>5, <1>7, <2>1
<1>9. ASSUME NEW j \in 1 .. t PROVE text[j] = Stream[0 + n + j]
  <2>1. PICK m : m = n + j
    OBVIOUS
  <2>2. m \in 1 .. n + t /\ 0 + n + j = 0 + m
    BY <2>1
  <2> QED BY <1>5, <1>7, <2>1, <2>2
<1>10. Len(wire) = 0 /\ Len(reader.data) = 0 /\ Len(got) = 0 /\ \A j \in 1 .. 0 : FALSE
  <2>1. reader.data = <<>>
    BY <1>2, ExpectingTyped
  <2> QED BY <1>2, <2>1, EmptySeq
<1>11. OutFramed
  <2>1. n + t <= Len(w)
    BY <1>5
  <2> QED BY <1>3, <1>4, <1>5, <1>6, <1>8, <1>9, <1>10, <2>1 DEF OutFramed
<1>12. Looping => InFramed
  <2>1. Begun = 0
    BY <1>6, <1>10 DEF Begun
  <2>2. reader.pc # "text"
    BY <1>2 DEF Expecting
  <2> QED BY <1>5, <1>10, <2>1, <2>2 DEF InFramed
<1> QED BY <1>1, <1>11, <1>12 DEF Framed

\* What a step of the whole is for the channel, as long as no signal has come.
LEMMA FrameStep ==
  ASSUME FrameInv, [Next]_vars, signals' = 0
  PROVE  /\ Framed' /\ signals = 0
         /\ \/ UNCHANGED <<got, writer>>
            \/ UNCHANGED got /\ writer'.call \in {writer.call, writer.call + 1}
            \/ UNCHANGED writer /\ Received
<1>1. signals = 0 /\ signals \in Nat
  <2>1. signals \in Nat
    BY Sizes DEF FrameInv, WireInv, KernelRight
  <2>2. signals' = signals \/ signals' = signals + 1
    BY DEF Next, Write, End, Read, Interrupt, Reset, vars
  <2> QED BY <2>1, <2>2
<1>2. WireInv /\ Framed
  BY <1>1 DEF FrameInv
<1>3. CASE Write
  BY <1>1, <1>2, <1>3, WriteFrames DEF Write
<1>4. CASE Read
  BY <1>1, <1>2, <1>4, ReadFrames DEF Read
<1>5. CASE End \/ Reset \/ UNCHANGED vars
  <2>1. UNCHANGED <<writer, wire, got>>
    BY <1>5 DEF End, Reset, vars
  <2>2. reader' = reader \/ ~Looping'
    <3>1. reader \in ReaderState
      BY <1>2 DEF WireInv, ReaderRight
    <3> QED BY <1>5, <3>1 DEF End, Reset, vars, Looping, ReaderState
  <2>3. OutFramed'
    BY <1>2, <2>1 DEF Framed, OutFramed, Written
  <2>4. Looping' => InFramed'
    BY <1>2, <2>1, <2>2 DEF Framed, InFramed, Written, Begun, Looping
  <2> QED BY <1>1, <2>1, <2>3, <2>4 DEF Framed
<1>6. ~Interrupt
  BY <1>1 DEF Interrupt
<1> QED BY <1>3, <1>4, <1>5, <1>6 DEF Next

LEMMA FrameInvHolds == Spec => []FrameInv
<1>1. FrameInv /\ [Next]_vars => FrameInv'
  BY WireInvStep, FrameStep DEF FrameInv
<1> QED BY <1>1, FrameInvInit, PTL DEF Spec

\* As long as no signal interrupts the reader, the bytes of send_int and
\* send_line, cut anywhere, are a channel of whole words and lines: each step
\* sends the next entry of the list, receives the next one, or is neither.
THEOREM ChannelImplemented == Spec => ImplementsChannel
<1>1. Init => Channel!ChannelInit
  <2> SUFFICES ASSUME Init PROVE Channel!ChannelInit
    OBVIOUS
  <2>1. writer.call = 1
    BY Sizes, CallingTyped DEF Init
  <2>2. got = <<>> /\ signals = 0
    BY DEF Init
  <2> QED BY <2>1, <2>2 DEF Channel!ChannelInit, Sent
<1>2. FrameInv /\ [Next]_vars => [Channel!ChannelNext]_(Channel!cvars)
  <2> SUFFICES ASSUME FrameInv, [Next]_vars
               PROVE  [Channel!ChannelNext]_(Channel!cvars)
    OBVIOUS
  <2>1. CASE signals' # 0
    BY <2>1 DEF Channel!ChannelNext
  <2>2. CASE signals' = 0
    <3>1. /\ signals = 0
          /\ \/ UNCHANGED <<got, writer>>
             \/ UNCHANGED got /\ writer'.call \in {writer.call, writer.call + 1}
             \/ UNCHANGED writer /\ Received
      BY <2>2, FrameStep
    <3>2. PICK c \in 1 .. Len(Script) + 1, d \in 1 .. Len(Script) + 1 :
            c = writer.call /\ d = writer'.call
      <4>1. writer \in WriterState /\ writer' \in WriterState
        BY WireInvStep DEF FrameInv, WireInv, WriterRight
      <4> QED BY <4>1 DEF WriterState
    <3>3. Len(Script) \in Nat
      BY Sizes
    <3>4. Sent = c - 1 /\ Sent' = d - 1
      BY <3>2 DEF Sent
    <3>5. CASE got' = got /\ d = c
      BY <2>2, <3>1, <3>4, <3>5 DEF Channel!cvars
    <3>6. CASE got' = got /\ d = c + 1
      <4>1. Sent < Len(Script) /\ Sent' = Sent + 1
        BY <3>2, <3>3, <3>4, <3>6
      <4>2. Channel!Put
        BY <3>6, <4>1 DEF Channel!Put
      <4> QED BY <2>2, <3>1, <4>2 DEF Channel!ChannelNext
    <3>7. CASE Received /\ d = c
      <4>1. Channel!Get
        BY <3>2, <3>4, <3>7 DEF Channel!Get, Received
      <4> QED BY <2>2, <3>1, <4>1 DEF Channel!ChannelNext
    <3> QED BY <3>1, <3>2, <3>5, <3>6, <3>7
  <2> QED BY <2>1, <2>2
<1>3. QED
  BY <1>1, <1>2, FrameInvHolds, PTL DEF Spec, ImplementsChannel, Channel!ChannelSpec

=============================================================================
