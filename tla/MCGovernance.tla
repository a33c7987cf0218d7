----------------------------- MODULE MCGovernance -----------------------------
(* The instance of Governance that TLC checks, and its behaviour in time. *)
EXTENDS Governance

\* After the synchronisation every tick asks peers for the votes on some object
\* (RequestGovernanceObjectVotes), and what ConfirmInventoryRequest wants is sent.
LiveSpec == Spec /\ \A v \in Vote : WF_vars(ReceiveVote(v))

\* v can be counted: it is the only newest vote of a listed masternode, and the object is
\* held.  It has not been found invalid, and it was not indexed and then lost with its
\* masternode.
Countable(v) ==
  /\ v \in signed /\ v.mn \in listed /\ Held /\ ~deleted
  /\ \A w \in signed \ {v} : w.mn = v.mn => w.time < v.time
  /\ v \notin invalid
  /\ ~(v.mn \in left /\ v \in index \ file)

\* A vote that can be counted is: whether it came before its object, before its
\* masternode or before an older vote, and although a vote that waited for the object
\* is dropped when the object comes.
VotesAreCounted == \A v \in Vote : <>[]Countable(v) => <>[](current[v.mn] = Instance(v))
=============================================================================
