----------------------------- MODULE MCWarnings -----------------------------
(* An instance of Warnings for TLC: rain is summed over two and three      *)
(* hours instead of three and twelve.                                      *)
EXTENDS Warnings

MCRainRules == [l \in 1..2 |-> [short |-> 2 * l, long |-> 3 * l]]
=============================================================================
