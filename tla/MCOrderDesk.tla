----------------------------- MODULE MCOrderDesk -----------------------------
(* The order desk on small instances.                                      *)
EXTENDS OrderDesk, TLC

CONSTANTS c1, c2
MCIds == {c1, c2}
MCSymmetry == Permutations(MCIds)
=============================================================================
