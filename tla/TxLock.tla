-------------------------------- MODULE TxLock --------------------------------
(***************************************************************************)
(* What InstaPay promises to its users (instapay.cpp, l.33-38): the        *)
(* network chooses at most one transaction for an outpoint and never       *)
(* changes its choice; a node locks an outpoint only for the chosen        *)
(* transaction, and all inputs of that transaction at once.                *)
(***************************************************************************)
CONSTANTS Node, Tx, Outpoint, NoTx, Inputs

VARIABLES
  chosen,   \* [Outpoint -> Tx or NoTx]
  lock      \* [Node -> [Outpoint -> Tx or NoTx]]

lockVars == <<chosen, lock>>

Init ==
  /\ chosen = [o \in Outpoint |-> NoTx]
  /\ lock = [n \in Node |-> [o \in Outpoint |-> NoTx]]

\* Some outpoints without a choice get one.
Choose ==
  /\ chosen' \in [Outpoint -> Tx \cup {NoTx}]
  /\ \A o \in Outpoint : chosen[o] \in {NoTx, chosen'[o]}
  /\ UNCHANGED lock

\* A node completes the lock of T.
Complete(n, T) ==
  /\ \A o \in Inputs[T] : chosen[o] = T /\ lock[n][o] \in {NoTx, T}
  /\ lock' = [lock EXCEPT ![n] =
       [o \in Outpoint |-> IF o \in Inputs[T] THEN T ELSE @[o]]]
  /\ UNCHANGED chosen

\* A node forgets locks.
Release(n, S) ==
  /\ lock' = [lock EXCEPT ![n] = [o \in Outpoint |-> IF o \in S THEN NoTx ELSE @[o]]]
  /\ UNCHANGED chosen

Next ==
  \/ Choose
  \/ \E n \in Node : \/ \E T \in Tx : Complete(n, T)
                     \/ \E S \in SUBSET Outpoint : Release(n, S)

Spec == Init /\ [][Next]_lockVars
=============================================================================
