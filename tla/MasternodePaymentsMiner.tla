------------------------ MODULE MasternodePaymentsMiner ------------------------
(***************************************************************************)
(* What a node does with the votes for a block (MasternodePayments): it    *)
(* mines the payee with the most votes (FillBlockPayee), and accepts a     *)
(* block only if it pays somebody with SIGNATURES_REQUIRED votes, when     *)
(* there is one (IsTransactionValid).  The votes go on arriving while the  *)
(* block is being mined.                                                   *)
(*                                                                         *)
(* SPORK_8_MASTERNODE_PAYMENT_ENFORCEMENT is taken to be on (by default it *)
(* is off, and any payee is accepted) and the node to be synchronised.     *)
(*                                                                         *)
(* An operator whose name extends that of the definition after it is that  *)
(* definition with a plausible bug; no specification uses it.              *)
(***************************************************************************)
EXTENDS MasternodePayments

CONSTANT ForkBlock    \* the block is that of nForkHeight + 1

ASSUME MinerAssumption == ForkBlock \in BOOLEAN

VARIABLE template     \* the block this node is mining, if any

\* What the coinbase creates: the block reward, at nForkHeight + 1 with the outputs of
\* fillwallet.  A payment is a share of one or the other (GetMasternodePayment).
Value == {"reward", "reward and fillwallet"}

\* `elected` is history: a payee had the required votes when the block was built.
Block == [payee : Payee, shareOf : Value, elected : BOOLEAN]

\* GetBestPayee: the first payee with the most votes, or none.
BestPayee ==
  {payees[i].payee : i \in {i \in DOMAIN payees :
     /\ \A j \in DOMAIN payees : payees[j].count <= payees[i].count
     /\ \A j \in 1 .. i - 1 : payees[j].count < payees[i].count}}

\* FillBlockPayee: without votes the node calculates the payee on its own.
PayeesToMine == IF BestPayee = {} THEN Payee ELSE BestPayee

\* GetValueOut of the coinbase, when fillwallet has added its outputs.
ValueOut == IF ForkBlock THEN "reward and fillwallet" ELSE "reward"

IsTransactionValidForBestOnly(b) ==
  Winners = {} \/ (b.payee \in BestPayee /\ b.shareOf = ValueOut)

\* The block pays somebody with the required votes the share of what it creates, or
\* nobody has them.
IsTransactionValid(b) ==
  Winners = {} \/ (b.payee \in Winners /\ b.shareOf = ValueOut)

\* CreateNewBlock, FillBlockPayee: the share is that of blockReward, which does not count
\* what fillwallet adds afterwards.
CreateNewBlock(p) ==
  /\ synced
  /\ tip \in {"far", "ahead"}
  /\ p \in PayeesToMine
  /\ template' = {[payee |-> p, shareOf |-> "reward", elected |-> Winners # {}]}
  /\ UNCHANGED vars

\* A block for a height that is taken is of no use any more, and a restart ends the miner.
AbandonBlock == template' = IF tip' = "behind" \/ ~synced' THEN {} ELSE template

MinerInit == Init /\ template = {}

MinerNext ==
  \/ Next /\ AbandonBlock
  \/ \E p \in Payee : CreateNewBlock(p)

MinerSpec == MinerInit /\ [][MinerNext]_<<vars, template>>

\* A block that was built when the election was decided remains one that the node accepts
\* while it is being mined, whatever votes come later and whoever overtakes its payee.
\* Not so at nForkHeight + 1, where it pays the share of another value than is required.
MinedBlockIsValid == \A b \in template : b.elected => IsTransactionValid(b)
=============================================================================
