----------------------------- MODULE MCContest -----------------------------
(***************************************************************************)
(* Two people and one invite code, two requests at a time, the contest     *)
(* process and one caller of feedd on the same key.                        *)
(***************************************************************************)
EXTENDS Contest, TLC

\* the process of a caller: each of the two is the only one of its process
MCProcOf(c) == c

\* a purchase, one under the same id that is too dear by its fee, and a sale
MCMenu == {[cid |-> "i1", side |-> "buy", qty |-> 1], [cid |-> "i1", side |-> "buy", qty |-> 2],
           [cid |-> "i2", side |-> "sell", qty |-> 1]}

MCSymmetry == Permutations(Slots) \cup Permutations(People)
=============================================================================
