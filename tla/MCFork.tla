------------------------------- MODULE MCFork -------------------------------
(* Instances of DsmFork for TLC. *)
EXTENDS DsmFork

Strings(n) == UNION {[1 .. k -> {"a", NewLine}] : k \in 0 .. n}

\* All short files, one that gets two buffers to a line, and one with more
\* lines than there are descriptors for.
ShortFiles == Strings(4) \cup {<<"a", "a", "a", "a", NewLine, "a", NewLine>>,
                               [k \in 1 .. 5 |-> NewLine]}

\* Standard input or output is open, or both.
OneOpen == {c \in SUBSET (0 .. 2) : ~({0, 1} \subseteq c)}
=============================================================================
