------------------------- MODULE MCMasternodePayments -------------------------
(***************************************************************************)
(* A small instance of MasternodePaymentsMiner, with the fairness of the   *)
(* threads and of the network.                                             *)
(***************************************************************************)
EXTENDS MasternodePaymentsMiner

VARIABLE spoiled   \* history: votes first received too early, or that failed a check

\* What the node can tell to be good from the vote and its own state.
CanTell(rank, passes) == passes /\ rank = "top" /\ tip \in {"ahead", "behind"}

LiveInit == MinerInit /\ spoiled = {}

\* The steps of MasternodePayments.  ProcessBlock counts a vote of this node for good,
\* whatever became of a copy.
Marked ==
  \/ \E v \in Vote, rank \in Rank, passes \in BOOLEAN :
       /\ ProcessVote(v, rank, passes)
       /\ spoiled' = IF CanTell(rank, passes) THEN spoiled ELSE spoiled \cup {v}
  \/ \E v \in Vote : ProcessBlock(v) /\ spoiled' = spoiled \ {v}
  \/ Proceed /\ spoiled' = IF seen' = {} THEN {} ELSE spoiled

LiveNext ==
  \/ Marked /\ AbandonBlock
  \/ \E p \in Payee : CreateNewBlock(p) /\ UNCHANGED spoiled

ReceiveVote(v) ==
  v \in signed /\ \E rank \in Rank, passes \in BOOLEAN : ProcessVote(v, rank, passes)

\* Votes are relayed, and peers push them again when this node synchronises
\* (MASTERNODEPAYMENTSYNC, RequestLowDataPaymentBlocks); the list is synchronised
\* again after a restart, and the threads go on.  Nothing says that the chain grows.
Fairness ==
  /\ WF_vars(SyncList)
  /\ \A v \in Vote : WF_vars(ReceiveVote(v))
  /\ \A v \in Vote, t \in Thread :
       WF_vars(HasVerifiedPaymentVote(t, v)) /\ WF_vars(AddPaymentVote(t, v))

LiveSpec == LiveInit /\ [][LiveNext]_<<vars, template, spoiled>> /\ Fairness

\* Another vote in the name of the same masternode, signed by it or not.
Rival(v) == \E w \in signed \cup spoiled : w # v /\ w.voter = v.voter

\* A vote that could be checked when it arrived is counted for good, whatever was
\* ignored before the synchronisation and whatever restart loses: unless another vote
\* in its voter's name came (CanVote takes the first, good or bad).
VotesAreCounted ==
  \A v \in Vote :
    <>[](v \in signed \ spoiled /\ ~Rival(v) /\ tip # "expired") => <>[](v \in verified)

\* "AddPaymentVote() below should take care of it if vote is actually ok"
\* (masternode-payments.cpp, l.409): a vote that exists, alone in its voter's name, is
\* counted in the end, even if it came before the node could check it.
GoodVotesAreVerified ==
  \A v \in Vote :
    <>[](v \in signed /\ ~Rival(v) /\ synced /\ tip = "ahead") => <>[](v \in verified)
=============================================================================
