----------------------------- MODULE MCPrivatePay -----------------------------
(***************************************************************************)
(* Small instances of PrivatePay: pools of two users, so that a session    *)
(* that follows another, late messages of the first one and users who come *)
(* twice are within reach; a third user where an outsider is needed.       *)
(***************************************************************************)
EXTENDS PrivatePay, TLC

CONSTANTS c1, c2, c3, d1, d2, k1, k2

\* Clients, their coins and denominations are interchangeable.
Symmetry == Permutations(Client) \cup Permutations(Coin) \cup Permutations(Denom)

-----------------------------------------------------------------------------
(* Liveness *)

\* The message threads serve all peers in turn and end what they have begun; the
\* server's timer thread announces a complete queue.
MessageFairness ==
  /\ \A c \in Client : SF_vars(MessageThread(c)) /\ WF_vars(ClientMessageThread(c))
  /\ WF_vars(CheckForCompleteQueue)

LiveSpec == Spec /\ MessageFairness

\* The timer threads check the timeouts every second.
ServerTimer == WF_vars(CheckTimeout) /\ WF_vars(ChargeFees)
ClientTimer(c) == WF_vars(ClientCheckTimeout(c))

\* A session ends whatever its clients, their connections and the locks do, and
\* the masternode is idle again (CheckTimeout, SetNull, SetState).
ServerRecovers == ServerTimer => (nState # "IDLE" ~> nState = "IDLE")

\* A client always gets out of a session, with its coins unlocked, even when the
\* masternode never answers (CheckTimeout, CheckPool), unless its user switches mixing off.
ClientsRecover ==
  \A c \in Client : ClientTimer(c) => (cState[c] # "IDLE" ~> cState[c] = "IDLE")

\* The protocol works: once a queue is complete, its transaction is committed,
\* unless a timeout, a lost connection, a busy lock or a full queue interferes.
ReadySessionCommits ==
  []undisturbed => (nState = "ACCEPTING_ENTRIES" ~> committed # {})
=============================================================================
