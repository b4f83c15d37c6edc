---------------------------- MODULE WordChannel ----------------------------
(***************************************************************************)
(* What the other modules take a connection for: the words and lines of    *)
(* one process reach the other whole and in order, until a signal          *)
(* interrupts the reader; from then on nothing is promised.                *)
(***************************************************************************)
EXTENDS Naturals, Sequences

CONSTANT Script     \* the words and lines, in the order in which they are sent

VARIABLES sent, got, sound    \* how many are sent, what was received

cvars == <<sent, got, sound>>

ChannelInit == sent = 0 /\ got = <<>> /\ sound = TRUE

Put == sent < Len(Script) /\ sent' = sent + 1 /\ UNCHANGED got

Get == /\ Len(got) < sent
       /\ got' = Append(got, Script[Len(got) + 1])
       /\ UNCHANGED sent

ChannelNext == \/ sound /\ sound' /\ (Put \/ Get)
               \/ ~sound'

ChannelSpec == ChannelInit /\ [][ChannelNext]_cvars

=============================================================================
