------------------------------ MODULE MCEmbed -------------------------------
(* Small instances of Embed.                                               *)
EXTENDS Embed, TLC

CONSTANTS t1, t2, s1, win, b1, b2

MCNamedBy == [w \in Windows |-> Surfaces]
Symmetry == Permutations(Threads) \cup Permutations(Buffers)
=============================================================================
