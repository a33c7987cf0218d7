---------------------------- MODULE MCMasternode ----------------------------
(* The instances of Masternode that TLC checks, and its behaviour in time. *)
EXTENDS Masternode, TLC

Symmetry == Permutations(Peer)

\* What the network and the node's threads keep doing: peers announce a broadcast
\* again when they are asked for it (AskForMN, and the list request of the
\* synchronisation), pings are relayed, and the maintenance thread runs every second.
\* A check that finds cs_main held is repeated, hence the strong fairness.
Fairness ==
  /\ \A b \in Broadcast : WF_vars(ReceiveBroadcast(b))
  /\ WF_vars(ReceivePing)
  /\ SF_vars(CheckMasternode /\ \E late \in LateVote : mn' = Check(mn, late))
  /\ WF_vars(CheckAgainSoon) /\ WF_vars(CheckAndRemove)
  /\ WF_vars(SyncProgress) /\ WF_vars(Block)
  /\ WF_vars(SendPing) /\ WF_vars(Tick)

LiveSpec == Spec /\ Fairness

\* The collateral stays, and this node still learns of the newest broadcast.
Announced == published > 0 /\ collateral = "ok" /\ published \notin lost

\* A masternode whose collateral stays in the chain is listed for good with its newest
\* broadcast, whatever reorganisation, restart or ban came before and whatever was
\* missing when the broadcast first arrived: unless it was lost (MasternodeMan marks
\* it as seen and drops it when the collateral is missing, the masternode is banned
\* or the previous broadcast is less than MIN_MNB old).
AnnouncedIsListed == <>[]Announced => <>[](Listed /\ mn.sig = published)
=============================================================================
