--------------------------- MODULE MCInstaPayBlocks ---------------------------
(***************************************************************************)
(* An instance of InstaPay whose blocks hold two transactions: two pairs   *)
(* of rivals, for one outpoint each, and locks that complete with one      *)
(* vote.                                                                   *)
(***************************************************************************)
EXTENDS InstaPay

CONSTANTS n1, m1, t1, t2, t3, t4, o1, o2

Solo == [n \in Node |-> NoMn]

\* t1 and t2 spend o1, t3 and t4 spend o2.
TwoPairs == [T \in Tx |-> IF T \in {t1, t2} THEN {o1} ELSE {o2}]

AllRanked == [o \in Outpoint |-> Masternode]
=============================================================================
