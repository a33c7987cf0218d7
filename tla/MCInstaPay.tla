------------------------------ MODULE MCInstaPay ------------------------------
(***************************************************************************)
(* Small instances of InstaPay: one node that is not a masternode (Solo),  *)
(* or two masternodes n1 and n2 (Pair); the remaining masternodes are      *)
(* remote.                                                                 *)
(***************************************************************************)
EXTENDS InstaPay, TLC

CONSTANTS n1, n2, m1, m2, m3, t1, t2, o1, o2

Solo == [n \in Node |-> NoMn]
Pair == [n \in Node |-> IF n = n1 THEN m1 ELSE m2]

\* Both transactions spend o1; or t2 spends o2 as well.
OneInput == [T \in Tx |-> {o1}]
TwoInputs == [T \in Tx |-> IF T = t2 THEN {o1, o2} ELSE {o1}]

\* Somebody signs a vote for t1 to spend o2, which it does not.
OneStray == {[tx |-> t1, out |-> o2, mn |-> m2]}

AllRanked == [o \in Outpoint |-> Masternode]

\* Remote masternodes are interchangeable when no node is a masternode.
SoloSymmetry == Permutations(Masternode)

\* The pairs (n1, m1) and (n2, m2) are interchangeable.
Swap == (n1 :> n2) @@ (n2 :> n1) @@ (m1 :> m2) @@ (m2 :> m1)
PairSymmetry == {Swap}

-----------------------------------------------------------------------------
(* Liveness *)

\* The message thread serves every peer in turn, so a message that is waiting is
\* processed although other handlers run in between (strong fairness), and a
\* handler that has begun runs to its end, however often another thread takes
\* cs_main before its second section (strong fairness again). Nothing is assumed of the
\* masternodes, the miners, the maintenance thread or the user.
MessageThread ==
  \A n \in Node :
    /\ \A T \in Tx : SF_vars(RecvTxLockRequest(n, T))
    /\ \A v \in Vote : SF_vars(RecvTxLockVote(n, v))
    /\ WF_vars(ProcessOrphanTxLockVotes(n))
    /\ WF_vars(FinishLockRequest(n))
    /\ SF_vars(AcceptLockRequest(n))

LiveSpec == Spec /\ MessageThread

\* With no rival about, the node locks the inputs of a transaction that a quorum
\* has voted for, whether the request, the votes or the block with the
\* transaction comes first.
QuorumLocks ==
  \A n \in Node, T \in Tx :
    (\A o \in Inputs[T] : HasQuorum(o, T)) ~> IsLockedInstaPayTransaction(n, T)
=============================================================================
