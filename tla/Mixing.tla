-------------------------------- MODULE Mixing --------------------------------
(***************************************************************************)
(* What mixing promises to its users (privatepay-client.cpp, l.475:        *)
(* "check it to make sure it's what we want, then sign it if we agree"): a *)
(* coin is spent by a mixing transaction only when its owner has agreed to *)
(* that very transaction, in which it has found the entry it offered; the  *)
(* transaction needs the agreement of everybody in it, and hides a crowd   *)
(* of different users among each other.  Anybody may leave at any time,    *)
(* and the masternode may forget anything.                                 *)
(***************************************************************************)
CONSTANTS
  Client,
  Crowd      \* the sets of clients that are large enough to hide each other

VARIABLES
  offered,   \* [Client -> the entries for which it has locked its coins]
  agreed,    \* the agreements that are under way or collected: [input, tx]
  mixes      \* the transactions that took effect

mixVars == <<offered, agreed, mixes>>

Input(e) == [client |-> e.client, denom |-> e.denom, coin |-> e.coin]

Agreement(e, tx) == [input |-> Input(e), tx |-> tx]

Init == offered = [c \in Client |-> {}] /\ agreed = {} /\ mixes = {}

\* A client offers one entry, its own, at a time.
Offer(c, e) ==
  /\ offered[c] = {} /\ e.client = c
  /\ offered' = [offered EXCEPT ![c] = {e}]
  /\ UNCHANGED <<agreed, mixes>>

Withdraw(c) ==
  /\ offered' = [offered EXCEPT ![c] = {}]
  /\ UNCHANGED <<agreed, mixes>>

\* It agrees to a transaction with the entry that it offers.
Agree(c, e, tx) ==
  /\ e \in offered[c] /\ e \in tx
  /\ agreed' = agreed \cup {Agreement(e, tx)}
  /\ UNCHANGED <<offered, mixes>>

\* Agreements are lost with a session or a connection.
Forget == agreed' \subseteq agreed /\ UNCHANGED <<offered, mixes>>

\* All or nothing: everybody has agreed, and nobody's coin is spent already.
Mix(tx) ==
  /\ \A e \in tx : Agreement(e, tx) \in agreed
  /\ \A e \in tx : \A t \in mixes : \A f \in t : Input(f) # Input(e)
  /\ \A e, f \in tx : e.client = f.client => e = f
  /\ {e.client : e \in tx} \in Crowd
  /\ mixes' = mixes \cup {tx}
  /\ agreed' \subseteq agreed
  /\ UNCHANGED offered

Next ==
  \/ Forget
  \/ \E tx \in mixes' : Mix(tx)
  \/ \E c \in Client :
       \/ Withdraw(c)
       \/ \E e \in offered'[c] : Offer(c, e)
       \/ \E e \in offered[c] : \E a \in agreed' : Agree(c, e, a.tx)

Spec == Init /\ [][Next]_mixVars
=============================================================================
