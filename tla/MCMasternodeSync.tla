--------------------------- MODULE MCMasternodeSync ---------------------------
(***************************************************************************)
(* A small instance of MasternodeSync, and its behaviour in time: a peer   *)
(* that comes, goes and comes back.                                        *)
(***************************************************************************)
EXTENDS MasternodeSync

-----------------------------------------------------------------------------
(* Liveness *)

\* The clock goes on, the maintenance thread and the others take their steps, and
\* blocks keep arriving.  A tick that finds a timeout is not for ever preceded by data
\* that comes at the last moment.
Fairness ==
  /\ WF_vars(Elapse) /\ WF_vars(MaintenanceThread)
  /\ SF_vars(ProcessTick /\ TimedOut)
  /\ WF_vars(TipThread)
  /\ WF_vars(SwitchAfterReset("rpc"))

LiveSpec == Spec /\ Fairness

GoodPeer(p) == p \notin Old \cup Unreliable

\* A peer that can be asked stays, and the stream of data has pauses of
\* MASTERNODE_SYNC_TIMEOUT_SECONDS that are not over before the tick of the time ends.
Favourable ==
  /\ []<>(TimedOut /\ pc["tick"] = "idle")
  /\ \E p \in Peer : GoodPeer(p) /\ <>[](p \in ToSet(vNodes))

\* Synchronisation ends, whatever failures, resets, restarts, reconnections, expired
\* or left-over records of requests and races of the threads came before, unless
\* the computer slept for an hour (ProcessTick).
SyncEnds == Favourable /\ []~slept => <>(asset = "FINISHED")
=============================================================================
