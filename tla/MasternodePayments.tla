-------------------------- MODULE MasternodePayments --------------------------
(***************************************************************************)
(* The election of the masternode that one block pays                      *)
(* (src/2018/Jiaozi-new/src/masternode-payments.cpp), as one node sees it. *)
(*                                                                         *)
(* The masternodes that rank among the first SIGNATURES_TOTAL for a block  *)
(* sign a vote for its payee ten blocks ahead, and a node counts the votes *)
(* it can check.  What it does with the counts, MasternodePaymentsMiner    *)
(* says.                                                                   *)
(*                                                                         *)
(* One height is followed: that of the block.  The votes of other heights  *)
(* are seen only through mapMasternodesLastVote, which keeps one height    *)
(* per masternode.  The node may itself be a masternode (Self).  Votes     *)
(* come in the message thread; ProcessBlock runs in whatever thread        *)
(* activated the chain; CheckAndRemove runs in the maintenance thread and  *)
(* takes both locks.  AddPaymentVote tests under one lock and adds under   *)
(* the next: a thread is between the two while its vote is in `adding`.    *)
(*                                                                         *)
(* The masternode list is another component: what it says of a voter is    *)
(* open at every vote that comes.  Not here: superblocks, and protocol     *)
(* versions.                                                               *)
(*                                                                         *)
(* An operator whose name extends that of the definition after it is that  *)
(* definition with a plausible bug; no specification uses it.              *)
(***************************************************************************)
EXTENDS Integers, Sequences, FiniteSets

CONSTANTS
  Voter,              \* the masternodes
  Payee,              \* the masternodes a vote may name
  Self,               \* the voter this node runs, or none
  SIGNATURES_REQUIRED,
  MaxFaults           \* bound: second or bad signatures, restarts

ASSUME PaymentsAssumption ==
  /\ IsFiniteSet(Voter) /\ IsFiniteSet(Payee)
  /\ Self \subseteq Voter /\ Cardinality(Self) <= 1
  /\ SIGNATURES_REQUIRED \in Nat \ {0}
  /\ MaxFaults \in Nat

VARIABLES
  signed,     \* the votes that a node has signed and relayed
  seen,       \* the keys of mapMasternodePaymentVotes
  verified,   \* those of them with a signature
  payees,     \* vecPayees of the block: the sequence of [payee, count of vote hashes]
  lastVote,   \* the voters whose mapMasternodesLastVote is this height
  testing,    \* [thread -> the vote it brings to AddPaymentVote, if any]
  adding,     \* [thread -> the vote it found not verified and is about to add]
  tip,        \* where the node's tip is, relative to the block
  synced,     \* masternodeSync.IsMasternodeListSynced
  faults,     \* second and bad signatures and restarts so far
  forgotten   \* history: voters whose vote for this height CanVote forgot

threads == <<testing, adding>>
vars == <<signed, seen, verified, payees, lastVote, threads, tip, synced, faults, forgotten>>

\* A vote is known by its hash, which leaves the signature out.
Vote == [voter : Voter, payee : Payee]

Thread == {"message", "chain"}

\* What the masternode list says of a voter when its vote comes: nothing, a rank behind
\* the first SIGNATURES_TOTAL, or one among them.
Rank == {"unknown", "low", "top"}

\* The block is more than 20 blocks ahead, ahead or at the tip, behind it, or too old
\* to be stored (GetStorageLimit).
Tip == {"far", "ahead", "behind", "expired"}

-----------------------------------------------------------------------------
(* CMasternodeBlockPayees *)

Entry(p) == {i \in DOMAIN payees : payees[i].payee = p}

Count(p) == IF Entry(p) = {} THEN 0 ELSE payees[CHOOSE i \in Entry(p) : TRUE].count

AddPayeeUncounted(p) ==
  IF Entry(p) = {}
  THEN Append(payees, [payee |-> p, count |-> 0])
  ELSE [i \in DOMAIN payees |->
          IF i \in Entry(p) THEN [payees[i] EXCEPT !.count = @ + 1] ELSE payees[i]]

\* A new payee is constructed with its first vote.
AddPayee(p) ==
  IF Entry(p) = {}
  THEN Append(payees, [payee |-> p, count |-> 1])
  ELSE [i \in DOMAIN payees |->
          IF i \in Entry(p) THEN [payees[i] EXCEPT !.count = @ + 1] ELSE payees[i]]

\* The payees a block may be required to pay.
Winners == {p \in Payee : Count(p) >= SIGNATURES_REQUIRED}

-----------------------------------------------------------------------------
Init ==
  /\ signed = {} /\ seen = {} /\ verified = {}
  /\ payees = <<>>
  /\ lastVote = {}
  /\ testing = [t \in Thread |-> {}] /\ adding = [t \in Thread |-> {}]
  /\ tip = "far"
  /\ synced = FALSE
  /\ faults = 0
  /\ forgotten = {}

(* Votes that arrive *)

Idle(t) == testing[t] = {} /\ adding[t] = {}

\* The height is in range, and IsValid: the voter is listed, and in the first
\* SIGNATURES_TOTAL unless the block is behind and this node is no masternode.
InPlace(rank) ==
  /\ tip \in {"ahead", "behind"}
  /\ rank # "unknown"
  /\ rank = "low" => tip = "behind" /\ Self = {}

CanVoteAlways(m) == TRUE

CanVote(m) == m \notin lastVote

ProcessVoteAlways(v, rank, passes) ==
  /\ Idle("message")
  /\ v \notin seen
  /\ (passes => v \in signed) /\ (passes \/ faults < MaxFaults)
  /\ faults' = IF passes THEN faults ELSE faults + 1
  /\ seen' = seen \cup {v}
  /\ IF synced /\ InPlace(rank) /\ CanVote(v.voter)
     THEN /\ lastVote' = lastVote \cup {v.voter}
          /\ testing' = IF passes THEN [testing EXCEPT !["message"] = {v}] ELSE testing
     ELSE UNCHANGED <<lastVote, testing>>
  /\ UNCHANGED <<signed, verified, payees, adding, tip, synced, forgotten>>

\* ProcessMessage, MASTERNODEPAYMENTVOTE, up to AddPaymentVote; a node that has not
\* synchronised the masternode list ignores the vote.  The vote is known before it is
\* checked, and CanVote remembers the voter before the signature is.  The signature of a
\* vote that exists passes, unless the list has another key of its voter; a vote with
\* a signature that its voter did not make fails, and has the hash of the good one.
ProcessVote(v, rank, passes) ==
  /\ Idle("message")
  /\ synced
  /\ v \notin seen
  /\ (passes => v \in signed) /\ (passes \/ faults < MaxFaults)
  /\ faults' = IF passes THEN faults ELSE faults + 1
  /\ seen' = seen \cup {v}
  /\ IF InPlace(rank) /\ CanVote(v.voter)
     THEN /\ lastVote' = lastVote \cup {v.voter}
          /\ testing' = IF passes THEN [testing EXCEPT !["message"] = {v}] ELSE testing
     ELSE UNCHANGED <<lastVote, testing>>
  /\ UNCHANGED <<signed, verified, payees, adding, tip, synced, forgotten>>

\* A vote of m for another height passes CanVote, which keeps one height per voter.
ProcessVoteForOtherHeight(m) ==
  /\ Idle("message")
  /\ synced
  /\ m \in lastVote
  /\ lastVote' = lastVote \ {m}
  /\ forgotten' = forgotten \cup {m}
  /\ UNCHANGED <<signed, seen, verified, payees, threads, tip, synced, faults>>

-----------------------------------------------------------------------------
(* Votes that are signed: ProcessBlock, when the tip is ten blocks before.  *)
(* The height is processed again after a reorganisation.                    *)

Again(m) == \E v \in signed : v.voter = m

CountFaultOf(m) ==
  /\ Again(m) => faults < MaxFaults
  /\ faults' = IF Again(m) THEN faults + 1 ELSE faults

\* Another masternode may think that it ranks when it does not.
Sign(v) ==
  /\ v.voter \notin Self
  /\ v \notin signed
  /\ tip # "expired"
  /\ CountFaultOf(v.voter)
  /\ signed' = signed \cup {v}
  /\ UNCHANGED <<seen, verified, payees, lastVote, threads, tip, synced, forgotten>>

\* This node's own vote is counted without CanVote, and relayed once it is.
ProcessBlock(v) ==
  /\ Idle("chain")
  /\ v.voter \in Self
  /\ synced
  /\ tip = "ahead"
  /\ CountFaultOf(v.voter)
  /\ testing' = [testing EXCEPT !["chain"] = {v}]
  /\ UNCHANGED <<signed, seen, verified, payees, lastVote, adding, tip, synced, forgotten>>

-----------------------------------------------------------------------------
(* AddPaymentVote, in two sections *)

\* The test, under a lock of its own: nothing more when HasVerifiedPaymentVote.
HasVerifiedPaymentVote(t, v) ==
  /\ v \in testing[t]
  /\ testing' = [testing EXCEPT ![t] = {}]
  /\ adding' = [adding EXCEPT ![t] = IF v \in verified THEN {} ELSE {v}]
  /\ UNCHANGED <<signed, seen, verified, payees, lastVote, tip, synced, faults, forgotten>>

\* LOCK2: the vote is counted, and then relayed.
AddPaymentVote(t, v) ==
  /\ v \in adding[t]
  /\ adding' = [adding EXCEPT ![t] = {}]
  /\ signed' = signed \cup {v}
  /\ seen' = seen \cup {v}
  /\ verified' = verified \cup {v}
  /\ payees' = AddPayee(v.payee)
  /\ UNCHANGED <<lastVote, testing, tip, synced, faults, forgotten>>

-----------------------------------------------------------------------------
(* The rest of the node *)

\* CheckAndRemove: the votes for a block that is too old go, and the block with them.
CheckAndRemove ==
  /\ tip = "expired"
  /\ seen # {}
  /\ seen' = {} /\ verified' = {} /\ payees' = <<>>
  /\ UNCHANGED <<signed, lastVote, threads, tip, synced, faults, forgotten>>

\* The masternode list is synchronised: AskForMN and the list request were answered.
SyncList ==
  /\ ~synced
  /\ synced' = TRUE
  /\ UNCHANGED <<signed, seen, verified, payees, lastVote, threads, tip, faults, forgotten>>

NextTip == [far |-> "ahead", ahead |-> "behind", behind |-> "expired"]

\* UpdatedBlockTip
UpdatedBlockTip ==
  /\ tip # "expired"
  /\ tip' = NextTip[tip]
  /\ UNCHANGED <<signed, seen, verified, payees, lastVote, threads, synced, faults, forgotten>>

RestartWithoutVotes ==
  /\ faults < MaxFaults
  /\ faults' = faults + 1
  /\ synced' = FALSE
  /\ lastVote' = {}
  /\ forgotten' = forgotten \cup lastVote
  /\ testing' = [t \in Thread |-> {}] /\ adding' = [t \in Thread |-> {}]
  /\ seen' = {} /\ verified' = {}
  /\ UNCHANGED <<signed, payees, tip>>

\* The node stops, its threads having ended, and starts again: mnpayments.dat holds the
\* votes, the ones not verified too, and the payees, but not mapMasternodesLastVote.
\* After a crash there may be no file.
Restart ==
  /\ faults < MaxFaults
  /\ faults' = faults + 1
  /\ synced' = FALSE
  /\ lastVote' = {}
  /\ forgotten' = forgotten \cup lastVote
  /\ testing' = [t \in Thread |-> {}] /\ adding' = [t \in Thread |-> {}]
  /\ \/ /\ \A t \in Thread : Idle(t)
        /\ UNCHANGED <<seen, verified, payees>>
     \/ seen' = {} /\ verified' = {} /\ payees' = <<>>
  /\ UNCHANGED <<signed, tip>>

Receive == \E v \in Vote, rank \in Rank, passes \in BOOLEAN : ProcessVote(v, rank, passes)

Proceed ==
  \/ \E v \in Vote : Sign(v)
  \/ \E v \in Vote, t \in Thread : HasVerifiedPaymentVote(t, v) \/ AddPaymentVote(t, v)
  \/ \E m \in Voter : ProcessVoteForOtherHeight(m)
  \/ CheckAndRemove \/ SyncList \/ UpdatedBlockTip \/ Restart

Next == Receive \/ Proceed \/ \E v \in Vote : ProcessBlock(v)

Spec == Init /\ [][Next]_vars

-----------------------------------------------------------------------------
(* Properties *)

\* The type of the state; a payee is listed from its first vote and a masternode votes
\* for it once, or twice when it is this node.
TypeOK ==
  /\ signed \subseteq Vote /\ seen \subseteq Vote /\ verified \subseteq Vote
  /\ payees \in Seq([payee : Payee, count : 1 .. Cardinality(Voter) + 1])
  /\ lastVote \subseteq Voter
  /\ testing \in [Thread -> SUBSET Vote] /\ adding \in [Thread -> SUBSET Vote]
  /\ tip \in Tip
  /\ synced \in BOOLEAN
  /\ faults \in 0 .. MaxFaults
  /\ forgotten \subseteq Voter

VotesFor(p) == {v \in verified : v.payee = p}

OwnVotes == {v \in verified : v.voter \in Self}

\* The counts a block is judged by are those of the votes that were checked: a vote with
\* a bad signature is never counted, no vote of another masternode is counted twice,
\* however often it is received and across restarts, none remains counted that is gone,
\* and no payee is listed twice.  Only this node's own vote can count once more, when it
\* comes back from a peer while ProcessBlock signs it again.
CountsAreHonest ==
  /\ verified \subseteq seen \cap signed
  /\ \A p \in Payee :
       /\ Count(p) >= Cardinality(VotesFor(p))
       /\ Count(p) <= Cardinality(VotesFor(p)) + Cardinality(VotesFor(p) \cap OwnVotes)
  /\ \A i, j \in DOMAIN payees : payees[i].payee = payees[j].payee => i = j

Counted == {v.voter : v \in verified}

\* This node's own votes that two threads have added.
Doubled == {v \in OwnVotes : Count(v.payee) > Cardinality(VotesFor(v.payee))}

SignedTwice(m) == \E v, w \in signed : v.voter = m /\ w.voter = m /\ v # w

\* Two payees both have the required votes only if that many masternodes were counted,
\* those twice that signed for both and that CanVote forgot, and this node's own votes
\* twice where two threads added one.  The number of masternodes counted is not bounded by SIGNATURES_TOTAL: views of
\* the ranks change, and a node that is no masternode ignores ranks for past blocks.
NoSplit ==
  Cardinality(Winners) > 1
  => 2 * SIGNATURES_REQUIRED
     <= Cardinality(Counted) + Cardinality({m \in Self \cup forgotten : SignedTwice(m)})
        + Cardinality(Doubled)
=============================================================================
