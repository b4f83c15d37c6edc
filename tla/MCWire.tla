------------------------------- MODULE MCWire -------------------------------
(* Instances of DsmWire for TLC. *)
EXTENDS DsmWire

\* Four bytes of two bits, the least significant first.
TwoBits == 0 .. 3
LittleEndian == [v \in 0 .. 255 |-> [i \in 1 .. 4 |-> (v \div 4 ^ (i - 1)) % 4]]

Number(v)  == [kind |-> "int", arg |-> v]
Text(b) == [kind |-> "line", arg |-> b]

\* The infos of a process, then a page whose first byte is zero.
Infos == <<Number(1), Text(<<2, 3, 1, 1, 2>>), Number(27), Number(0), Text(<<>>), Number(30)>>
=============================================================================
