----------------------- MODULE InstaPayAgreement_proofs -----------------------
(***************************************************************************)
(* Agreement: a masternode that keeps its memory never votes for two rival *)
(* transactions, so no two nodes lock an outpoint differently and the      *)
(* network implements TxLock.                                              *)
(*                                                                         *)
(* The vote memory of CInstaPay is erased when a transaction is buried     *)
(* under nInstaPayKeepLock blocks; from then on only the chain keeps the   *)
(* node from voting for a rival.  The results therefore assume that no     *)
(* block is disconnected once it is buried that deep (DeepBlocksStay).     *)
(* Spork 3 can break that: blocks that contradict a lock are not connected *)
(* again, and each ResolveConflicts may take nInstaPayKeepLock blocks off  *)
(* an already shortened chain.  While no step makes a chain shorter it is  *)
(* a theorem, with spork 3 as well.                                        *)
(***************************************************************************)
EXTENDS InstaPay_proofs

\* No two of the nodes run with the key of the same masternode.
DistinctMasternodes ==
  \A n, p \in Node : MnOf[n] = MnOf[p] /\ MnOf[n] # NoMn => n = p

\* A block buried under more than nInstaPayKeepLock blocks stays where it is.
DeepBlocksStay ==
  \A n \in Node : \A i \in DOMAIN chain[n] :
    i + nInstaPayKeepLock < Len(chain[n])
    => /\ i + nInstaPayKeepLock < Len(chain'[n])
       /\ chain'[n][i] = chain[n][i]

-----------------------------------------------------------------------------
(* What is buried *)

\* A block buried for good holds X.
MinedDeep(n, X) ==
  \E i \in DOMAIN chain[n] : i + nInstaPayKeepLock < Len(chain[n]) /\ X \in chain[n][i]

\* A block buried for good spends o.
SpentDeep(n, o) == \E X \in Tx : o \in Inputs[X] /\ MinedDeep(n, X)

\* The notified tip is no higher than the chain, unless the chain is too short
\* for anything to expire.
TipInv ==
  \A n \in Node : \/ pCurrentBlockIndex[n] <= Len(chain[n])
                  \/ pCurrentBlockIndex[n] <= nInstaPayKeepLock + 1

LEMMA MinedDeepIsStable ==
  ASSUME TypeOK, TypeOK', [DeepBlocksStay]_vars, NEW n \in Node, NEW X, MinedDeep(n, X)
  PROVE  MinedDeep(n, X)'
<1>1. chain[n] \in Seq(Block) /\ chain'[n] \in Seq(Block) /\ nInstaPayKeepLock \in Nat
  BY ConstantsAssumption DEF TypeOK
<1>2. PICK i \in DOMAIN chain[n] : i + nInstaPayKeepLock < Len(chain[n]) /\ X \in chain[n][i]
  BY DEF MinedDeep
<1>3. i + nInstaPayKeepLock < Len(chain'[n]) /\ X \in chain'[n][i]
  BY <1>2 DEF DeepBlocksStay, vars
<1>4. i \in DOMAIN chain'[n]
  BY <1>1, <1>2, <1>3
<1> QED
  BY <1>3, <1>4 DEF MinedDeep

LEMMA SpentDeepIsStable ==
  ASSUME TypeOK, TypeOK', [DeepBlocksStay]_vars, NEW n \in Node, NEW o, SpentDeep(n, o)
  PROVE  SpentDeep(n, o)'
BY MinedDeepIsStable DEF SpentDeep

LEMMA SpentDeepIsSpent ==
  ASSUME NEW n \in Node, NEW o, SpentDeep(n, o)
  PROVE  Spent(chain[n], o)
BY ConstantsAssumption DEF SpentDeep, MinedDeep, Spent

\* CheckAndRemove forgets a candidate only when its block is buried.
LEMMA ExpiredIsDeep ==
  ASSUME TypeOK, NEW n \in Node, NodeSound(n), TipInv, NEW X \in ExpiredCandidates(n)
  PROVE  X \in Tx /\ X \in Candidates(n) /\ MinedDeep(n, X)
<1> DEFINE h == mapTxLockCandidates[n][X]
<1>1. /\ X \in Tx /\ h # Absent /\ h # Unconfirmed
      /\ pCurrentBlockIndex[n] - h > nInstaPayKeepLock
  BY DEF ExpiredCandidates, IsExpired
<1>2. X \in Candidates(n)
  BY <1>1 DEF Candidates
<1>3. h \in DOMAIN chain[n] /\ X \in chain[n][h]
  BY <1>1, <1>2 DEF NodeSound, TrueHeight
<1>4. /\ chain[n] \in Seq(Block) /\ pCurrentBlockIndex[n] \in Nat
      /\ nInstaPayKeepLock \in Nat
  BY ConstantsAssumption DEF TypeOK
<1> HIDE DEF h
<1>5. h \in Nat /\ h >= 1 /\ Len(chain[n]) \in Nat
  BY <1>3, <1>4
<1>6. h + nInstaPayKeepLock < Len(chain[n])
  BY <1>1, <1>4, <1>5 DEF TipInv, h
<1> QED
  BY <1>1, <1>2, <1>3, <1>6 DEF MinedDeep

\* The tip that a step leaves behind is the old one, the new chain's or NULL.
LEMMA TipStep ==
  ASSUME TypeOK, Next, NEW p \in Node
  PROVE  pCurrentBlockIndex'[p] \in {pCurrentBlockIndex[p], Len(chain'[p]), 0}
<1> DEFINE Goal == \A q \in Node :
             pCurrentBlockIndex'[q] \in {pCurrentBlockIndex[q], Len(chain'[q]), 0}
<1> SUFFICES Goal
  OBVIOUS
<1>1. ASSUME NEW n \in Node, NEW T, NEW vts, NEW kn, TryToFinalizeLockCandidate(n, T, vts, kn)
      PROVE  Goal
  <2>1. \/ UNCHANGED pCurrentBlockIndex
        \/ \E d, k : Reactivate(n, T, vts, kn, d, k)
    BY <1>1 DEF TryToFinalizeLockCandidate, ReplaceInMempool, DisconnectAndReactivate, chainVars
  <2>2. CASE \E d, k : Reactivate(n, T, vts, kn, d, k)
    BY <2>2 DEF Reactivate, TypeOK
  <2> QED
    BY <2>1, <2>2
<1>2. ASSUME UNCHANGED pCurrentBlockIndex
      PROVE  Goal
  BY <1>2
<1> HIDE DEF Goal
<1>3. ASSUME NEW n, NEW v, NEW kn, CountVote(n, v, kn), n \in Node
      PROVE  Goal
  BY <1>1, <1>2, <1>3 DEF CountVote, chainVars
<1>4. CASE \E n \in Node, T \in Tx : RecvTxLockRequest(n, T) \/ LocalTxLockRequest(n, T)
  <2>1. \E n, T, kn, orph, net : StartLockRequest(n, T, kn, orph, net)
    BY <1>4 DEF RecvTxLockRequest, LocalTxLockRequest
  <2> QED
    BY <1>2, <2>1 DEF StartLockRequest, CreateAndVote, chainVars
<1>5. CASE \E n \in Node : \E v \in sentVotes \cup Stray : RecvTxLockVote(n, v)
  <2>1. PICK n \in Node, v \in sentVotes \cup Stray : RecvTxLockVote(n, v)
    BY <1>5
  <2>2. UNCHANGED pCurrentBlockIndex \/ \E kn : CountVote(n, v, kn)
    BY <2>1 DEF RecvTxLockVote, IgnoreVote, StartLockRequest, CreateAndVote, chainVars
  <2> QED
    BY <1>2, <1>3, <2>1, <2>2
<1>6. CASE \E n \in Node : ProcessOrphanTxLockVotes(n)
  <2>a. PICK n \in Node : ProcessOrphanTxLockVotes(n)
    BY <1>6
  <2>1. PICK v \in handler[n].todo : ProcessOrphanTxLockVote(n, v)
    BY <2>a DEF ProcessOrphanTxLockVotes
  <2>2. UNCHANGED pCurrentBlockIndex \/ \E kn : CountVote(n, v, kn)
    BY <2>1 DEF ProcessOrphanTxLockVote, IgnoreVote, chainVars
  <2> QED
    BY <1>2, <1>3, <2>a, <2>2
<1>7. CASE \E n \in Node : FinishLockRequest(n)
  <2>1. PICK n \in Node : FinishLockRequest(n)
    BY <1>7
  <2>2. TryToFinalizeLockCandidate(n, handler[n].tx, mapMasternodeVotes[n], mapTxLockVotes[n])
    BY <2>1 DEF FinishLockRequest
  <2> QED
    BY <1>1, <2>1, <2>2
<1>8. CASE \E n \in Node : UpdatedBlockTip(n) \/ Restart(n)
  BY <1>8 DEF UpdatedBlockTip, Restart, TypeOK, Goal
<1>9. CASE \/ \E n \in Node :
                \/ AcceptLockRequest(n) \/ CheckAndRemove(n)
                \/ \E T \in Tx : RecvTx(n, T)
                \/ \E m \in Masternode : AddMasternode(n, m)
                \/ \E k \in 0 .. MaxReorg : \E bs \in BlocksOfLength(k + 1) :
                     ActivateBestChainStep(n, k, bs)
           \/ \E m \in Masternode, T \in Tx : RemoteVote(m, T) \/ RemoteVoteAfterRestart(m, T)
           \/ Tick
  <2>1. \A n \in Node : AcceptLockRequest(n) \/ CheckAndRemove(n) => UNCHANGED pCurrentBlockIndex
    BY DEF AcceptLockRequest, CheckAndRemove, chainVars
  <2>2. \A n \in Node, T \in Tx : RecvTx(n, T) => UNCHANGED pCurrentBlockIndex
    BY DEF RecvTx
  <2>3. \A n \in Node, m \in Masternode : AddMasternode(n, m) => UNCHANGED pCurrentBlockIndex
    BY DEF AddMasternode, chainVars
  <2>4. \A n \in Node, k \in 0 .. MaxReorg : \A bs \in BlocksOfLength(k + 1) :
          ActivateBestChainStep(n, k, bs) => UNCHANGED pCurrentBlockIndex
    BY DEF ActivateBestChainStep
  <2>5. \A m \in Masternode, T \in Tx :
          RemoteVote(m, T) \/ RemoteVoteAfterRestart(m, T) => UNCHANGED pCurrentBlockIndex
    BY DEF RemoteVote, RemoteVoteAfterRestart, chainVars
  <2>6. Tick => UNCHANGED pCurrentBlockIndex
    BY DEF Tick, chainVars
  <2>7. UNCHANGED pCurrentBlockIndex
    BY <1>9, <2>1, <2>2, <2>3, <2>4, <2>5, <2>6
  <2> QED
    BY <1>2, <2>7
<1> QED
  BY <1>4, <1>5, <1>6, <1>7, <1>8, <1>9 DEF Next

LEMMA TipInvStep ==
  ASSUME TypeOK, TypeOK', TipInv, Next, [DeepBlocksStay]_vars
  PROVE  TipInv'
<1> SUFFICES ASSUME NEW n \in Node
             PROVE  \/ pCurrentBlockIndex'[n] <= Len(chain'[n])
                    \/ pCurrentBlockIndex'[n] <= nInstaPayKeepLock + 1
  BY DEF TipInv
<1>1. /\ chain[n] \in Seq(Block) /\ chain'[n] \in Seq(Block)
      /\ pCurrentBlockIndex[n] \in Nat
      /\ nInstaPayKeepLock \in Nat
  BY ConstantsAssumption DEF TypeOK
<1>2. Len(chain[n]) \in Nat /\ Len(chain'[n]) \in Nat /\ DOMAIN chain[n] = 1 .. Len(chain[n])
  BY <1>1
<1>3. Len(chain[n]) <= Len(chain'[n]) \/ Len(chain[n]) <= nInstaPayKeepLock + 1
  <2> SUFFICES ASSUME Len(chain[n]) > nInstaPayKeepLock + 1
               PROVE  Len(chain[n]) <= Len(chain'[n])
    BY <1>1, <1>2
  <2> DEFINE i == Len(chain[n]) - nInstaPayKeepLock - 1
  <2>1. i \in DOMAIN chain[n] /\ i + nInstaPayKeepLock < Len(chain[n])
    <3>1. \A l, k \in Nat : l > k + 1 => l - k - 1 \in 1 .. l /\ (l - k - 1) + k < l
      OBVIOUS
    <3>2. i \in 1 .. Len(chain[n]) /\ i + nInstaPayKeepLock < Len(chain[n])
      BY <1>1, <1>2, <3>1
    <3> QED
      BY <1>2, <3>2
  <2>2. CASE DeepBlocksStay
    <3>1. i + nInstaPayKeepLock < Len(chain'[n])
      BY <2>1, <2>2 DEF DeepBlocksStay
    <3> QED
      BY <1>1, <1>2, <3>1
  <2>3. CASE UNCHANGED vars
    BY <1>2, <2>3 DEF vars
  <2> QED
    BY <2>2, <2>3
<1>4. pCurrentBlockIndex'[n] \in {pCurrentBlockIndex[n], Len(chain'[n]), 0}
  BY TipStep
<1>5. \/ pCurrentBlockIndex[n] <= Len(chain[n])
      \/ pCurrentBlockIndex[n] <= nInstaPayKeepLock + 1
  BY DEF TipInv
<1> QED
  BY <1>1, <1>2, <1>3, <1>4, <1>5

-----------------------------------------------------------------------------
(* What a step does to the votes *)

\* The votes a node keeps as orphans or has yet to process are on the network, those it
\* counts were sent for an input, and only masternodes ranked for an outpoint send one.
VotesWereSent ==
  /\ \A n \in Node : /\ mapMasternodeVotes[n] \subseteq sentVotes
                     /\ OrphanVotes(n) \subseteq sentVotes \cup Stray
                     /\ handler[n].todo \subseteq sentVotes \cup Stray
  /\ \A v \in sentVotes : v.mn \in TopRank[v.out]

OthersKeepVotes(n) ==
  \A p \in Node \ {n} :
    /\ mapMasternodeVotes'[p] = mapMasternodeVotes[p]
    /\ mapVotedOutpoints'[p] = mapVotedOutpoints[p]
    /\ mapTxLockVotesOrphan'[p] = mapTxLockVotesOrphan[p]
    /\ handler'[p] = handler[p]

\* Node n counts votes that were sent, and neither votes nor forgets.
Counts(n) ==
  /\ UNCHANGED <<sentVotes, restarts>>
  /\ mapMasternodeVotes[n] \subseteq mapMasternodeVotes'[n]
  /\ mapMasternodeVotes'[n] \subseteq mapMasternodeVotes[n] \cup sentVotes
  /\ \A o \in Outpoint : mapVotedOutpoints[n][o] \subseteq mapVotedOutpoints'[n][o]
  /\ OrphanVotes(n)' \subseteq OrphanVotes(n) \cup sentVotes \cup Stray
  /\ handler'[n].todo \subseteq handler[n].todo
  /\ OthersKeepVotes(n)

\* Node n casts the votes of fresh for T.
Casts(n, T, fresh) ==
  /\ \A v \in fresh : /\ v \in InputVote /\ v.tx = T /\ v.mn = MnOf[n]
                      /\ v.out \in Votable(n, T) /\ ~Spent(chain[n], v.out)
  /\ sentVotes' = sentVotes \cup fresh /\ UNCHANGED restarts
  /\ mapMasternodeVotes'[n] = mapMasternodeVotes[n] \cup fresh
  /\ \A o \in Outpoint : mapVotedOutpoints[n][o] \subseteq mapVotedOutpoints'[n][o]
  /\ \A v \in fresh : T \in mapVotedOutpoints'[n][v.out]
  /\ OrphanVotes(n)' \subseteq OrphanVotes(n) \cup sentVotes \cup Stray
  /\ handler'[n].todo \subseteq OrphanVotes(n) \cup sentVotes \cup Stray
  /\ OthersKeepVotes(n)

LEMMA CountVoteCounts ==
  ASSUME TypeOK, NEW n \in Node, NEW v \in Vote, NEW kn, CountVote(n, v, kn)
  PROVE  /\ mapMasternodeVotes[n] \subseteq mapMasternodeVotes'[n]
         /\ mapMasternodeVotes'[n] \subseteq mapMasternodeVotes[n] \cup ({v} \cap InputVote)
         /\ \A o \in Outpoint : mapVotedOutpoints[n][o] \subseteq mapVotedOutpoints'[n][o]
         /\ \A p \in Node \ {n} : /\ mapMasternodeVotes'[p] = mapMasternodeVotes[p]
                                  /\ mapVotedOutpoints'[p] = mapVotedOutpoints[p]
<1>1. mapVotedOutpoints' = [mapVotedOutpoints EXCEPT ![n][v.out] = @ \cup {v.tx}]
  BY DEF CountVote
<1>2. \/ UNCHANGED mapMasternodeVotes
      \/ /\ v \in InputVote
         /\ mapMasternodeVotes' = [mapMasternodeVotes EXCEPT ![n] = mapMasternodeVotes[n] \cup {v}]
  BY DEF CountVote, AddVote
<1>3. /\ \A o \in Outpoint : mapVotedOutpoints[n][o] \subseteq mapVotedOutpoints'[n][o]
      /\ \A p \in Node \ {n} : mapVotedOutpoints'[p] = mapVotedOutpoints[p]
  BY <1>1 DEF TypeOK
<1>4. /\ mapMasternodeVotes[n] \subseteq mapMasternodeVotes'[n]
      /\ mapMasternodeVotes'[n] \subseteq mapMasternodeVotes[n] \cup ({v} \cap InputVote)
      /\ \A p \in Node \ {n} : mapMasternodeVotes'[p] = mapMasternodeVotes[p]
  BY <1>2 DEF TypeOK
<1> QED
  BY <1>3, <1>4

LEMMA StartLockRequestCasts ==
  ASSUME TypeOK, NEW n \in Node, NEW T \in Tx, NEW kn, NEW orph, NEW net,
         {v \in Vote : orph[v] # Absent} \subseteq OrphanVotes(n) \cup sentVotes \cup Stray,
         StartLockRequest(n, T, kn, orph, net)
  PROVE  \E fresh : Casts(n, T, fresh)
<1>1. PICK reached \in Reached(n, T), refused \in SUBSET {o \in Inputs[T] : Forgotten(n, T, o)} :
        CreateAndVote(n, T, kn, orph, net, (Votable(n, T) \cap reached) \ refused)
  BY DEF StartLockRequest
<1>2. \A o \in (Votable(n, T) \cap reached) \ refused : o \in Inputs[T] /\ ~Spent(chain[n], o)
  BY DEF Reached, Votable, AllUnspent
<1> DEFINE outs == (Votable(n, T) \cap reached) \ refused
           mine == {v \in InputVote : v.tx = T /\ v.out \in outs /\ v.mn = MnOf[n]}
           fresh == mine \ mapMasternodeVotes[n]
<1>3. /\ mapMasternodeVotes' = [mapMasternodeVotes EXCEPT ![n] = @ \cup fresh]
      /\ mapVotedOutpoints' =
           [mapVotedOutpoints EXCEPT ![n] =
              [o \in Outpoint |->
                 IF \E v \in fresh : v.out = o THEN @[o] \cup {T} ELSE @[o]]]
      /\ sentVotes' = sentVotes \cup fresh
      /\ mapTxLockVotesOrphan' = [mapTxLockVotesOrphan EXCEPT ![n] = orph]
      /\ handler' = [handler EXCEPT ![n] =
           Handler("orphans", T, {v \in Vote : orph[v] # Absent}, net)]
      /\ UNCHANGED restarts
  BY <1>1 DEF CreateAndVote, envVars
<1>4. \A v \in fresh : /\ v \in InputVote /\ v.tx = T /\ v.mn = MnOf[n]
                       /\ v.out \in Votable(n, T) /\ ~Spent(chain[n], v.out)
                       /\ v.out \in Outpoint
  BY <1>2, VoteFields DEF InputVote
<1> HIDE DEF fresh, mine, outs
<1>5. /\ mapMasternodeVotes'[n] = mapMasternodeVotes[n] \cup fresh
      /\ \A o \in Outpoint : mapVotedOutpoints'[n][o] =
           IF \E v \in fresh : v.out = o THEN mapVotedOutpoints[n][o] \cup {T}
                                         ELSE mapVotedOutpoints[n][o]
      /\ mapTxLockVotesOrphan'[n] = orph
      /\ OthersKeepVotes(n)
  BY <1>3 DEF TypeOK, OthersKeepVotes
<1>6. /\ \A o \in Outpoint : mapVotedOutpoints[n][o] \subseteq mapVotedOutpoints'[n][o]
      /\ \A v \in fresh : T \in mapVotedOutpoints'[n][v.out]
  <2>1. \A o \in Outpoint : mapVotedOutpoints[n][o] \subseteq mapVotedOutpoints'[n][o]
    BY <1>5
  <2>2. ASSUME NEW v \in fresh
        PROVE  T \in mapVotedOutpoints'[n][v.out]
    <3>1. v.out \in Outpoint /\ \E w \in fresh : w.out = v.out
      BY <1>4
    <3>2. mapVotedOutpoints'[n][v.out] = mapVotedOutpoints[n][v.out] \cup {T}
      BY <1>5, <3>1
    <3> QED
      BY <3>2
  <2> QED
    BY <2>1, <2>2
<1>7. handler'[n].todo = {v \in Vote : orph[v] # Absent}
  BY <1>3 DEF TypeOK, Handler
<1>8. OrphanVotes(n)' = {v \in Vote : orph[v] # Absent}
  BY <1>5 DEF OrphanVotes
<1>9. Casts(n, T, fresh)
  BY <1>3, <1>4, <1>5, <1>6, <1>7, <1>8 DEF Casts
<1> QED
  BY <1>9

\* A TXLOCKVOTE message.
LEMMA RecvTxLockVoteEffect ==
  ASSUME TypeOK, NEW n \in Node, NEW v \in sentVotes \cup Stray, RecvTxLockVote(n, v)
  PROVE  Counts(n) \/ \E T \in Tx : \E fresh : Casts(n, T, fresh)
<1> DEFINE kn == [mapTxLockVotes[n] EXCEPT ![v] = Unconfirmed]
           orph == [mapTxLockVotesOrphan[n] EXCEPT ![v] = now]
           Rest == UNCHANGED <<requestVars, envVars, handler, sentVotes>>
           Ignored == /\ IgnoreVote(n, kn) /\ Rest
                      /\ UNCHANGED <<mapTxLockVotesOrphan, mapMasternodeOrphanVotes>>
           Counted == /\ CountVote(n, v, kn) /\ Rest
                      /\ UNCHANGED <<mapTxLockVotesOrphan, mapMasternodeOrphanVotes>>
           Stored == /\ \E x \in {orph, mapTxLockVotesOrphan[n]} :
                          mapTxLockVotesOrphan' = [mapTxLockVotesOrphan EXCEPT ![n] = x]
                     /\ \/ UNCHANGED mapMasternodeOrphanVotes
                        \/ TrackOrphanVote(n, v.mn)
                     /\ IgnoreVote(n, kn) /\ Rest
<1>1. v \in Vote /\ v.tx \in Tx /\ {v} \cap InputVote \subseteq sentVotes
  BY VoteFields, RelayedVotes, StrayAssumption
<1>2. {w \in Vote : orph[w] # Absent} \subseteq OrphanVotes(n) \cup sentVotes \cup Stray
  BY DEF TypeOK, OrphanVotes
<1> HIDE DEF kn, orph
<1>3. Ignored \/ Counted \/ StartLockRequest(n, v.tx, kn, orph, NoTx) \/ Stored
  BY DEF RecvTxLockVote, kn, orph
<1>4. CASE StartLockRequest(n, v.tx, kn, orph, NoTx)
  BY <1>1, <1>2, <1>4, StartLockRequestCasts
<1>5. CASE Ignored \/ Counted \/ Stored
  <2>0. /\ IgnoreVote(n, kn) \/ CountVote(n, v, kn)
        /\ \/ UNCHANGED mapTxLockVotesOrphan
           \/ \E x \in {orph, mapTxLockVotesOrphan[n]} :
                mapTxLockVotesOrphan' = [mapTxLockVotesOrphan EXCEPT ![n] = x]
        /\ UNCHANGED <<handler, sentVotes>>
    BY <1>5
  <2>1. /\ mapMasternodeVotes[n] \subseteq mapMasternodeVotes'[n]
        /\ mapMasternodeVotes'[n] \subseteq mapMasternodeVotes[n] \cup ({v} \cap InputVote)
        /\ \A o \in Outpoint : mapVotedOutpoints[n][o] \subseteq mapVotedOutpoints'[n][o]
        /\ \A p \in Node \ {n} : /\ mapMasternodeVotes'[p] = mapMasternodeVotes[p]
                                 /\ mapVotedOutpoints'[p] = mapVotedOutpoints[p]
    BY <1>1, <2>0, CountVoteCounts DEF IgnoreVote
  <2>2. OrphanVotes(n)' \subseteq OrphanVotes(n) \cup sentVotes \cup Stray
    BY <1>2, <2>0 DEF OrphanVotes, TypeOK
  <2>3. \A p \in Node \ {n} : mapTxLockVotesOrphan'[p] = mapTxLockVotesOrphan[p]
    BY <2>0 DEF TypeOK
  <2>4. UNCHANGED restarts
    BY DEF RecvTxLockVote, envVars, StartLockRequest, CreateAndVote
  <2>5. Counts(n)
    BY <1>1, <2>0, <2>4, <2>1, <2>2, <2>3 DEF Counts, OthersKeepVotes
  <2> QED
    BY <2>5
<1> QED
  BY <1>3, <1>4, <1>5

\* One iteration of the loop over the orphan votes.
LEMMA ProcessOrphanTxLockVoteEffect ==
  ASSUME TypeOK, VotesWereSent, NEW n \in Node, NEW v \in handler[n].todo,
         ProcessOrphanTxLockVote(n, v)
  PROVE  Counts(n)
<1>1. v \in Vote /\ {v} \cap InputVote \subseteq sentVotes
  BY RelayedVotes, StrayAssumption DEF VotesWereSent
<1>2. IgnoreVote(n, mapTxLockVotes[n]) \/ CountVote(n, v, mapTxLockVotes[n])
  BY DEF ProcessOrphanTxLockVote
<1>3. /\ mapMasternodeVotes[n] \subseteq mapMasternodeVotes'[n]
      /\ mapMasternodeVotes'[n] \subseteq mapMasternodeVotes[n] \cup ({v} \cap InputVote)
      /\ \A o \in Outpoint : mapVotedOutpoints[n][o] \subseteq mapVotedOutpoints'[n][o]
      /\ \A p \in Node \ {n} : /\ mapMasternodeVotes'[p] = mapMasternodeVotes[p]
                               /\ mapVotedOutpoints'[p] = mapVotedOutpoints[p]
  BY <1>1, <1>2, CountVoteCounts DEF IgnoreVote
<1>4. \/ UNCHANGED mapTxLockVotesOrphan
      \/ mapTxLockVotesOrphan' = [mapTxLockVotesOrphan EXCEPT ![n][v] = Absent]
  BY DEF ProcessOrphanTxLockVote
<1>5. OrphanVotes(n)' \subseteq OrphanVotes(n)
  BY <1>4 DEF OrphanVotes, TypeOK
<1>6. \A p \in Node \ {n} : mapTxLockVotesOrphan'[p] = mapTxLockVotesOrphan[p]
  BY <1>4 DEF TypeOK
<1>7. /\ handler' = [handler EXCEPT ![n] =
           Handler("orphans", @.tx, @.todo \ {v}, @.net)]
      /\ UNCHANGED <<sentVotes, restarts>>
  BY DEF ProcessOrphanTxLockVote, envVars
<1>8. /\ handler'[n].todo \subseteq handler[n].todo
      /\ \A p \in Node \ {n} : handler'[p] = handler[p]
  BY <1>7 DEF TypeOK, Handler
<1> QED
  BY <1>1, <1>3, <1>5, <1>6, <1>7, <1>8 DEF Counts, OthersKeepVotes

\* The steps that leave the votes alone, whatever they do to the chain.
LEMMA QuietCounts ==
  ASSUME TypeOK, NEW n \in Node,
         UNCHANGED <<sentVotes, restarts, mapMasternodeVotes, mapVotedOutpoints,
                     mapTxLockVotesOrphan>>,
         handler' = handler \/ \E h : handler' = [handler EXCEPT ![n] = h] /\ h.todo = {}
  PROVE  Counts(n)
<1>1. OrphanVotes(n)' = OrphanVotes(n)
  BY DEF OrphanVotes
<1>2. /\ handler'[n].todo \subseteq handler[n].todo
      /\ \A p \in Node \ {n} : handler'[p] = handler[p]
  BY DEF TypeOK
<1> QED
  BY <1>1, <1>2 DEF Counts, OthersKeepVotes

\* Every step counts votes, casts votes, forgets, or leaves the votes alone.
LEMMA VotesStep ==
  ASSUME TypeOK, VotesWereSent, Next
  PROVE  \/ \E n \in Node : Counts(n)
         \/ \E n \in Node, T \in Tx : \E fresh : Casts(n, T, fresh)
         \/ \E n \in Node : CheckAndRemove(n)
         \/ \E n \in Node : Restart(n)
         \/ \E m \in Masternode, T \in Tx : RemoteVote(m, T) \/ RemoteVoteAfterRestart(m, T)
         \/ UNCHANGED <<sentVotes, restarts, mapMasternodeVotes, mapVotedOutpoints,
                        mapTxLockVotesOrphan, handler>>
<1>1. CASE \E n \in Node, T \in Tx : RecvTxLockRequest(n, T) \/ LocalTxLockRequest(n, T)
  <2>1. PICK n \in Node, T \in Tx : RecvTxLockRequest(n, T) \/ LocalTxLockRequest(n, T)
    BY <1>1
  <2>2. \E net : StartLockRequest(n, T, mapTxLockVotes[n], mapTxLockVotesOrphan[n], net)
    BY <2>1 DEF RecvTxLockRequest, LocalTxLockRequest
  <2>3. {v \in Vote : mapTxLockVotesOrphan[n][v] # Absent} \subseteq OrphanVotes(n)
    BY DEF OrphanVotes
  <2> QED
    BY <2>2, <2>3, StartLockRequestCasts
<1>2. CASE \E n \in Node : \E v \in sentVotes \cup Stray : RecvTxLockVote(n, v)
  BY <1>2, RecvTxLockVoteEffect
<1>3. CASE \E n \in Node : ProcessOrphanTxLockVotes(n)
  BY <1>3, ProcessOrphanTxLockVoteEffect DEF ProcessOrphanTxLockVotes
<1>4. CASE \E n \in Node : FinishLockRequest(n) \/ AcceptLockRequest(n)
  <2>1. PICK n \in Node : FinishLockRequest(n) \/ AcceptLockRequest(n)
    BY <1>4
  <2>2. UNCHANGED <<sentVotes, restarts, mapMasternodeVotes, mapVotedOutpoints,
                    mapTxLockVotesOrphan>>
    BY <2>1 DEF FinishLockRequest, AcceptLockRequest, envVars
  <2>3. \E h : handler' = [handler EXCEPT ![n] = h] /\ h.todo = {}
    <3>1. CASE FinishLockRequest(n)
      <4> DEFINE h == Handler("idle", NoTx, {}, handler[n].net)
      <4>1. handler' = [handler EXCEPT ![n] = h]
        BY <3>1 DEF FinishLockRequest
      <4>2. h.todo = {}
        BY DEF Handler
      <4> QED
        BY <4>1, <4>2
    <3>2. CASE AcceptLockRequest(n)
      <4>1. handler' = [handler EXCEPT ![n] = Idle]
        BY <3>2 DEF AcceptLockRequest
      <4>2. Idle.todo = {}
        BY DEF Handler, Idle
      <4> QED
        BY <4>1, <4>2
    <3> QED
      BY <2>1, <3>1, <3>2
  <2> QED
    BY <2>2, <2>3, QuietCounts
<1>5. CASE \/ \E n \in Node :
                \/ \E T \in Tx : RecvTx(n, T)
                \/ \E k \in 0 .. MaxReorg : \E bs \in BlocksOfLength(k + 1) :
                     ActivateBestChainStep(n, k, bs)
                \/ UpdatedBlockTip(n)
                \/ \E m \in Masternode : AddMasternode(n, m)
           \/ Tick
  <2> DEFINE Quiet == UNCHANGED <<sentVotes, restarts, mapMasternodeVotes, mapVotedOutpoints,
                                  mapTxLockVotesOrphan, handler>>
  <2>1. \A n \in Node, T \in Tx : RecvTx(n, T) => Quiet
    BY DEF RecvTx, envVars
  <2>2. \A n \in Node, k \in 0 .. MaxReorg : \A bs \in BlocksOfLength(k + 1) :
          ActivateBestChainStep(n, k, bs) => Quiet
    BY DEF ActivateBestChainStep, envVars
  <2>3. \A n \in Node : UpdatedBlockTip(n) => Quiet
    BY DEF UpdatedBlockTip, envVars
  <2>4. \A n \in Node, m \in Masternode : AddMasternode(n, m) => Quiet
    BY DEF AddMasternode
  <2>5. Tick => Quiet
    BY DEF Tick
  <2> HIDE DEF Quiet
  <2>6. Quiet
    BY <1>5, <2>1, <2>2, <2>3, <2>4, <2>5
  <2> QED
    BY <2>6 DEF Quiet
<1>6. CASE \/ \E n \in Node : CheckAndRemove(n) \/ Restart(n)
           \/ \E m \in Masternode, T \in Tx : RemoteVote(m, T) \/ RemoteVoteAfterRestart(m, T)
  BY <1>6
<1> QED
  BY <1>1, <1>2, <1>3, <1>4, <1>5, <1>6 DEF Next

LEMMA VotesWereSentStep ==
  ASSUME TypeOK, VotesWereSent, Next
  PROVE  VotesWereSent'
<1>1. CASE \E n \in Node : Counts(n)
  <2>1. PICK n \in Node : Counts(n)
    BY <1>1
  <2>2. \A p \in Node \ {n} : OrphanVotes(p)' = OrphanVotes(p)
    BY <2>1 DEF Counts, OthersKeepVotes, OrphanVotes
  <2> QED
    BY <2>1, <2>2 DEF Counts, OthersKeepVotes, VotesWereSent
<1>2. CASE \E n \in Node, T \in Tx : \E fresh : Casts(n, T, fresh)
  <2>0. PICK n \in Node, T \in Tx : \E fresh : Casts(n, T, fresh)
    BY <1>2
  <2>1. PICK fresh : Casts(n, T, fresh)
    BY <2>0
  <2>2. \A p \in Node \ {n} : OrphanVotes(p)' = OrphanVotes(p)
    BY <2>1 DEF Casts, OthersKeepVotes, OrphanVotes
  <2>3. \A v \in fresh : v.mn \in TopRank[v.out]
    BY <2>1 DEF Casts, Votable
  <2>4. sentVotes' = sentVotes \cup fresh
    BY <2>1 DEF Casts
  <2>5. /\ mapMasternodeVotes'[n] \subseteq sentVotes'
        /\ OrphanVotes(n)' \subseteq sentVotes' \cup Stray
        /\ handler'[n].todo \subseteq sentVotes' \cup Stray
    BY <2>1, <2>4 DEF Casts, VotesWereSent
  <2>6. \A p \in Node \ {n} :
          /\ mapMasternodeVotes'[p] \subseteq sentVotes'
          /\ OrphanVotes(p)' \subseteq sentVotes' \cup Stray
          /\ handler'[p].todo \subseteq sentVotes' \cup Stray
    BY <2>1, <2>2, <2>4 DEF Casts, OthersKeepVotes, VotesWereSent
  <2> QED
    BY <2>3, <2>4, <2>5, <2>6 DEF VotesWereSent
<1>3. CASE \E n \in Node : CheckAndRemove(n)
  <2>1. PICK n \in Node : CheckAndRemove(n)
    BY <1>3
  <2>2. \A p \in Node : mapMasternodeVotes'[p] \subseteq mapMasternodeVotes[p]
    BY <2>1 DEF CheckAndRemove, TypeOK
  <2>3. /\ mapTxLockVotesOrphan' = [mapTxLockVotesOrphan EXCEPT ![n] =
             [v \in Vote |-> IF v \in ExpiredOrphans(n) THEN Absent ELSE @[v]]]
        /\ UNCHANGED <<handler, sentVotes>>
    BY <2>1 DEF CheckAndRemove
  <2>4. \A p \in Node : OrphanVotes(p)' \subseteq OrphanVotes(p)
    BY <2>3 DEF OrphanVotes, TypeOK
  <2> QED
    BY <2>2, <2>3, <2>4 DEF VotesWereSent
<1>4. CASE \E n \in Node : Restart(n)
  <2>1. PICK n \in Node : Restart(n)
    BY <1>4
  <2>2. /\ \A p \in Node \ {n} : /\ mapMasternodeVotes'[p] = mapMasternodeVotes[p]
                                 /\ mapTxLockVotesOrphan'[p] = mapTxLockVotesOrphan[p]
                                 /\ handler'[p] = handler[p]
        /\ mapMasternodeVotes'[n] = {} /\ mapTxLockVotesOrphan'[n] = EmptyMap(Vote)
        /\ handler'[n].todo = {} /\ UNCHANGED sentVotes
    BY <2>1 DEF Restart, TypeOK, Idle, Handler
  <2>3. \A p \in Node : OrphanVotes(p)' \subseteq OrphanVotes(p)
    BY <2>2 DEF OrphanVotes, EmptyMap
  <2> QED
    BY <2>2, <2>3 DEF VotesWereSent
<1>5. CASE \E m \in Masternode, T \in Tx : RemoteVote(m, T) \/ RemoteVoteAfterRestart(m, T)
  <2>1. PICK m \in Masternode, T \in Tx : RemoteVote(m, T) \/ RemoteVoteAfterRestart(m, T)
    BY <1>5
  <2>2. PICK fresh : /\ sentVotes' = sentVotes \cup fresh
                     /\ \A v \in fresh : v.mn \in TopRank[v.out]
    <3> DEFINE open == {v \in InputVote : /\ v.tx = T /\ v.mn = m /\ m \in TopRank[v.out]
                  /\ \A X \in Tx : [tx |-> X, out |-> v.out, mn |-> v.mn] \notin sentVotes}
               all == {v \in InputVote : v.tx = T /\ v.mn = m /\ m \in TopRank[v.out]}
    <3>1. sentVotes' = sentVotes \cup open \/ sentVotes' = sentVotes \cup all
      BY <2>1 DEF RemoteVote, RemoteVoteAfterRestart
    <3>2. /\ \A v \in open : v.mn \in TopRank[v.out]
          /\ \A v \in all : v.mn \in TopRank[v.out]
      OBVIOUS
    <3> HIDE DEF open, all
    <3> QED
      BY <3>1, <3>2
  <2>3. UNCHANGED <<mapMasternodeVotes, mapTxLockVotesOrphan, handler>>
    BY <2>1 DEF RemoteVote, RemoteVoteAfterRestart
  <2>4. \A p \in Node : OrphanVotes(p)' = OrphanVotes(p)
    BY <2>3 DEF OrphanVotes
  <2> QED
    BY <2>2, <2>3, <2>4 DEF VotesWereSent
<1>6. CASE UNCHANGED <<sentVotes, restarts, mapMasternodeVotes, mapVotedOutpoints,
                       mapTxLockVotesOrphan, handler>>
  <2>1. \A p \in Node : OrphanVotes(p)' = OrphanVotes(p)
    BY <1>6 DEF OrphanVotes
  <2> QED
    BY <1>6, <2>1 DEF VotesWereSent
<1> QED
  BY <1>1, <1>2, <1>3, <1>4, <1>5, <1>6, VotesStep

-----------------------------------------------------------------------------
(* One vote per outpoint *)

\* As long as no node lost its memory: a vote of the node's own masternode is
\* still in its memory, or the outpoint is spent for good.
OwnVotesRemembered ==
  restarts = 0 =>
    \A n \in Node, v \in sentVotes :
      v.mn = MnOf[n]
      => \/ v \in mapMasternodeVotes[n] /\ v.tx \in mapVotedOutpoints[n][v.out]
         \/ SpentDeep(n, v.out)

VoteInv == VotesWereSent /\ OwnVotesRemembered /\ OneVotePerOutpoint

\* A vote is its three fields.
LEMMA VoteIsItsFields ==
  ASSUME NEW v \in Vote
  PROVE  v = [tx |-> v.tx, out |-> v.out, mn |-> v.mn]
BY DEF Vote

\* The node votes for an unspent input only if it remembers no vote for a rival.
LEMMA CastsOnce ==
  ASSUME TypeOK, VoteInv, restarts = 0, NEW n \in Node, NEW T \in Tx, NEW fresh,
         Casts(n, T, fresh), NEW v \in fresh, NEW w \in sentVotes, w.out = v.out, w.mn = v.mn
  PROVE  FALSE
<1>1. /\ v.mn = MnOf[n] /\ v.out \in Votable(n, T) /\ ~Spent(chain[n], v.out)
  BY DEF Casts
<1>2. ~SpentDeep(n, w.out)
  BY <1>1, SpentDeepIsSpent
<1>3. w \in mapMasternodeVotes[n] /\ w.tx \in mapVotedOutpoints[n][w.out]
  BY <1>1, <1>2 DEF VoteInv, OwnVotesRemembered
<1>4. w = [tx |-> w.tx, out |-> v.out, mn |-> MnOf[n]]
  BY <1>1, VoteIsItsFields, RelayedVotes
<1> QED
  BY <1>1, <1>3, <1>4 DEF Votable

LEMMA OneVoteStep ==
  ASSUME TypeOK, VoteInv, Next
  PROVE  OneVotePerOutpoint'
<1> SUFFICES ASSUME restarts' = 0, NEW v \in sentVotes', NEW w \in sentVotes',
                    v.out = w.out, v.mn = w.mn
             PROVE  v = w
  BY DEF OneVotePerOutpoint
<1>1. CASE sentVotes' = sentVotes /\ restarts' = restarts
  BY <1>1 DEF VoteInv, OneVotePerOutpoint
<1>2. CASE \E n \in Node, T \in Tx : \E fresh : Casts(n, T, fresh)
  <2>0. PICK n \in Node, T \in Tx : \E fresh : Casts(n, T, fresh)
    BY <1>2
  <2>1. PICK fresh : Casts(n, T, fresh)
    BY <2>0
  <2>2. restarts = 0 /\ sentVotes' = sentVotes \cup fresh
    BY <2>1 DEF Casts
  <2>3. CASE v \in sentVotes /\ w \in sentVotes
    BY <2>2, <2>3 DEF VoteInv, OneVotePerOutpoint
  <2>4. CASE v \in fresh /\ w \in fresh
    <3>1. v \in Vote /\ w \in Vote /\ v.tx = w.tx
      BY <2>1, <2>4 DEF Casts, InputVote
    <3> QED
      BY <3>1, VoteIsItsFields
  <2> QED
    BY <2>1, <2>2, <2>3, <2>4, CastsOnce
<1>3. CASE \E m \in Masternode, T \in Tx : RemoteVote(m, T) \/ RemoteVoteAfterRestart(m, T)
  <2>1. PICK m \in Masternode, T \in Tx : RemoteVote(m, T) \/ RemoteVoteAfterRestart(m, T)
    BY <1>3
  <2>2. RemoteVote(m, T) /\ restarts = 0
    BY <2>1 DEF RemoteVote, RemoteVoteAfterRestart, TypeOK, envVars
  <2> DEFINE fresh == {x \in InputVote : /\ x.tx = T /\ x.mn = m /\ m \in TopRank[x.out]
                        /\ \A X \in Tx : [tx |-> X, out |-> x.out, mn |-> x.mn] \notin sentVotes}
  <2>3. sentVotes' = sentVotes \cup fresh
    BY <2>2 DEF RemoteVote
  <2>4. ASSUME NEW x \in fresh, NEW y \in sentVotes, x.out = y.out, x.mn = y.mn
        PROVE  FALSE
    <3>1. y \in Vote /\ y.tx \in Tx
      BY VoteFields, RelayedVotes
    <3> QED
      BY <2>4, <3>1, VoteIsItsFields
  <2>5. CASE v \in sentVotes /\ w \in sentVotes
    BY <2>2, <2>5 DEF VoteInv, OneVotePerOutpoint
  <2>6. CASE v \in fresh /\ w \in fresh
    <3>1. v \in Vote /\ w \in Vote /\ v.tx = w.tx
      BY <2>6 DEF InputVote
    <3> QED
      BY <3>1, VoteIsItsFields
  <2> HIDE DEF fresh
  <2> QED
    BY <2>3, <2>4, <2>5, <2>6
<1>4. CASE \E n \in Node : Restart(n)
  BY <1>4 DEF Restart, TypeOK
<1>5. CASE \E n \in Node : Counts(n)
  BY <1>1, <1>5 DEF Counts
<1>6. CASE \E n \in Node : CheckAndRemove(n)
  BY <1>1, <1>6 DEF CheckAndRemove, envVars
<1> QED
  BY <1>1, <1>2, <1>3, <1>4, <1>5, <1>6, VotesStep DEF VoteInv

\* CheckAndRemove forgets a vote only when the outpoint is spent for good.
LEMMA CheckAndRemoveRemembers ==
  ASSUME TypeOK, ChainInv, TipInv, NEW n \in Node, CheckAndRemove(n), NEW v \in Vote,
         v \in mapMasternodeVotes[n], v.tx \in mapVotedOutpoints[n][v.out]
  PROVE  \/ v \in mapMasternodeVotes'[n] /\ v.tx \in mapVotedOutpoints'[n][v.out]
         \/ SpentDeep(n, v.out)
<1> DEFINE gone == ExpiredCandidates(n)
           freed == FreedOutpoints(n, gone)
<1>1. v.out \in Outpoint /\ v.out \in Inputs[v.tx]
  BY VoteFields DEF TypeOK, InputVote
<1>2. /\ mapVotedOutpoints' = [mapVotedOutpoints EXCEPT ![n] =
            [o \in Outpoint |-> IF o \in freed THEN {} ELSE @[o]]]
      /\ mapMasternodeVotes' = [mapMasternodeVotes EXCEPT ![n] = {x \in @ : x.tx \notin gone}]
  BY DEF CheckAndRemove
<1>3. CASE \E X \in gone : v.out \in Inputs[X]
  BY <1>3, ExpiredIsDeep DEF SpentDeep, ChainInv
<1>4. CASE \A X \in gone : v.out \notin Inputs[X]
  <2>1. v.out \notin freed /\ v.tx \notin gone
    BY <1>1, <1>4 DEF FreedOutpoints
  <2> HIDE DEF gone, freed
  <2>2. /\ mapVotedOutpoints'[n][v.out] = mapVotedOutpoints[n][v.out]
        /\ v \in mapMasternodeVotes'[n]
    BY <1>1, <1>2, <2>1 DEF TypeOK
  <2> QED
    BY <2>2
<1> QED
  BY <1>3, <1>4

LEMMA OwnVotesStep ==
  ASSUME DistinctMasternodes, TypeOK, TypeOK', ChainInv, TipInv, VoteInv, Next,
         [DeepBlocksStay]_vars
  PROVE  OwnVotesRemembered'
<1> SUFFICES ASSUME restarts' = 0, NEW p \in Node, NEW v \in sentVotes', v.mn = MnOf[p]
             PROVE  \/ v \in mapMasternodeVotes'[p] /\ v.tx \in mapVotedOutpoints'[p][v.out]
                    \/ SpentDeep(p, v.out)'
  BY DEF OwnVotesRemembered
<1>1. SpentDeep(p, v.out) => SpentDeep(p, v.out)'
  BY SpentDeepIsStable
<1>2. v \in Vote /\ v.out \in Outpoint /\ v.mn \in Masternode
  BY VoteFields DEF TypeOK, InputVote
<1>3. ASSUME restarts = 0, v \in sentVotes
      PROVE  \/ v \in mapMasternodeVotes[p] /\ v.tx \in mapVotedOutpoints[p][v.out]
             \/ SpentDeep(p, v.out)
  BY <1>3 DEF VoteInv, OwnVotesRemembered
<1>4. CASE \E n \in Node : Counts(n)
  <2>1. PICK n \in Node : Counts(n)
    BY <1>4
  <2>2. restarts = 0 /\ v \in sentVotes
    BY <2>1 DEF Counts
  <2> QED
    BY <1>1, <1>2, <1>3, <2>1, <2>2 DEF Counts, OthersKeepVotes
<1>5. CASE \E n \in Node, T \in Tx : \E fresh : Casts(n, T, fresh)
  <2>0. PICK n \in Node, T \in Tx : \E fresh : Casts(n, T, fresh)
    BY <1>5
  <2>1. PICK fresh : Casts(n, T, fresh)
    BY <2>0
  <2>2. restarts = 0 /\ sentVotes' = sentVotes \cup fresh
    BY <2>1 DEF Casts
  <2>3. CASE v \in sentVotes
    <3>1. \/ v \in mapMasternodeVotes[p] /\ v.tx \in mapVotedOutpoints[p][v.out]
          \/ SpentDeep(p, v.out)
      BY <1>3, <2>2, <2>3
    <3>2. /\ mapMasternodeVotes[p] \subseteq mapMasternodeVotes'[p]
          /\ mapVotedOutpoints[p][v.out] \subseteq mapVotedOutpoints'[p][v.out]
      BY <1>2, <2>1 DEF Casts, OthersKeepVotes
    <3> QED
      BY <1>1, <3>1, <3>2
  <2>4. CASE v \in fresh
    <3>1. v.tx = T /\ MnOf[n] = MnOf[p] /\ MnOf[n] # NoMn
      BY <1>2, <2>1, <2>4, ConstantsAssumption DEF Casts
    <3>2. n = p
      BY <3>1 DEF DistinctMasternodes
    <3> QED
      BY <2>1, <2>4, <3>1, <3>2 DEF Casts
  <2> QED
    BY <2>2, <2>3, <2>4
<1>6. CASE \E n \in Node : CheckAndRemove(n)
  <2>1. PICK n \in Node : CheckAndRemove(n)
    BY <1>6
  <2>2. restarts = 0 /\ v \in sentVotes
    BY <2>1 DEF CheckAndRemove, envVars
  <2>3. CASE p = n
    BY <1>1, <1>2, <1>3, <2>1, <2>2, <2>3, CheckAndRemoveRemembers
  <2>4. CASE p # n
    <3>1. /\ mapMasternodeVotes'[p] = mapMasternodeVotes[p]
          /\ mapVotedOutpoints'[p] = mapVotedOutpoints[p]
      BY <2>1, <2>4 DEF CheckAndRemove, TypeOK
    <3>2. \/ v \in mapMasternodeVotes[p] /\ v.tx \in mapVotedOutpoints[p][v.out]
          \/ SpentDeep(p, v.out)
      BY <1>3, <2>2
    <3> QED
      BY <1>1, <3>1, <3>2
  <2> QED
    BY <2>3, <2>4
<1>7. CASE \E n \in Node : Restart(n)
  BY <1>7 DEF Restart, TypeOK
<1>8. CASE \E m \in Masternode, T \in Tx : RemoteVote(m, T) \/ RemoteVoteAfterRestart(m, T)
  <2>1. PICK m \in Masternode, T \in Tx : RemoteVote(m, T) \/ RemoteVoteAfterRestart(m, T)
    BY <1>8
  <2>2. restarts = 0
    BY <2>1 DEF RemoteVote, RemoteVoteAfterRestart, TypeOK, envVars
  <2>3. \A x \in sentVotes' : x \in sentVotes \/ x.mn = m
    BY <2>1 DEF RemoteVote, RemoteVoteAfterRestart
  <2>4. MnOf[p] # m /\ UNCHANGED <<mapMasternodeVotes, mapVotedOutpoints>>
    BY <2>1 DEF RemoteVote, RemoteVoteAfterRestart
  <2>5. v \in sentVotes
    BY <2>3, <2>4
  <2> QED
    BY <1>1, <1>3, <2>2, <2>4, <2>5
<1>9. CASE UNCHANGED <<sentVotes, restarts, mapMasternodeVotes, mapVotedOutpoints,
                       mapTxLockVotesOrphan, handler>>
  BY <1>1, <1>3, <1>9
<1> QED
  BY <1>4, <1>5, <1>6, <1>7, <1>8, <1>9, VotesStep DEF VoteInv

-----------------------------------------------------------------------------

AgreementInv == TypeOK /\ LockInv /\ ChainInv /\ TipInv /\ VoteInv

LEMMA AgreementStep ==
  ASSUME DistinctMasternodes, TypeOK, TypeOK', ChainInv, TipInv, VoteInv,
         [Next]_vars, [DeepBlocksStay]_vars
  PROVE  TipInv' /\ VoteInv'
<1>1. CASE Next
  BY <1>1, TipInvStep, VotesWereSentStep, OwnVotesStep, OneVoteStep DEF VoteInv
<1>2. CASE UNCHANGED vars
  <2>1. TipInv'
    BY <1>2 DEF vars, TipInv
  <2>2. VotesWereSent'
    BY <1>2 DEF vars, VoteInv, VotesWereSent, OrphanVotes
  <2>3. \A n \in Node, v \in sentVotes : SpentDeep(n, v.out) => SpentDeep(n, v.out)'
    BY SpentDeepIsStable
  <2>4. OwnVotesRemembered'
    BY <1>2, <2>3 DEF vars, VoteInv, OwnVotesRemembered
  <2>5. OneVotePerOutpoint'
    BY <1>2 DEF vars, VoteInv, OneVotePerOutpoint
  <2> QED
    BY <2>1, <2>2, <2>4, <2>5 DEF VoteInv
<1> QED
  BY <1>1, <1>2

LEMMA AgreementInvariant ==
  ASSUME DistinctMasternodes
  PROVE  Spec /\ [][DeepBlocksStay]_vars => []AgreementInv
<1>1. Init => TipInv /\ VoteInv
  <2> SUFFICES ASSUME Init
               PROVE  TipInv /\ VoteInv
    OBVIOUS
  <2>1. \A n \in Node : /\ OrphanVotes(n) = {} /\ handler[n].todo = {}
                        /\ mapMasternodeVotes[n] = {} /\ pCurrentBlockIndex[n] = 1
    BY DEF Init, OrphanVotes, EmptyMap, Idle, Handler
  <2>2. sentVotes = {}
    BY DEF Init
  <2>3. VoteInv
    BY <2>1, <2>2 DEF VoteInv, VotesWereSent, OwnVotesRemembered, OneVotePerOutpoint
  <2>4. TipInv
    BY <2>1, ConstantsAssumption DEF TipInv
  <2> QED
    BY <2>3, <2>4
<1>2. /\ TypeOK /\ TypeOK' /\ ChainInv /\ TipInv /\ VoteInv
      /\ [Next]_vars /\ [DeepBlocksStay]_vars
      => TipInv' /\ VoteInv'
  BY AgreementStep
<1> QED
  BY <1>1, <1>2, TypeCorrect, LockInvariant, ChainInvariant, PTL DEF Spec, AgreementInv

\* While no node loses its memory, no masternode signs votes for two
\* transactions that spend the same outpoint: not for what it votes on when a
\* request arrives late, nor after CheckAndRemove has erased the memory of a
\* buried transaction.
THEOREM MasternodesVoteOnce ==
  ASSUME DistinctMasternodes
  PROVE  Spec /\ [][DeepBlocksStay]_vars => []OneVotePerOutpoint
<1>1. AgreementInv => OneVotePerOutpoint
  BY DEF AgreementInv, VoteInv
<1> QED
  BY <1>1, AgreementInvariant, PTL

-----------------------------------------------------------------------------
(* Quorums intersect *)

\* The masternodes that voted for T to spend o.
Voters(S, o, T) == {v.mn : v \in {w \in S : w.tx = T /\ w.out = o}}

LEMMA VotersCountVotes ==
  ASSUME NEW S \in SUBSET Vote, NEW o, NEW T
  PROVE  /\ IsFiniteSet(Voters(S, o, T))
         /\ Cardinality(Voters(S, o, T)) = Cardinality({w \in S : w.tx = T /\ w.out = o})
<1> DEFINE V == {w \in S : w.tx = T /\ w.out = o}
           f == [v \in V |-> v.mn]
<1>1. IsFiniteSet(V)
  BY VotesAreFinite
<1>2. \A v, w \in V : v.mn = w.mn => v = w
  BY VoteIsItsFields
<1>3. f \in Bijection(V, Voters(S, o, T))
  <2>1. f \in [V -> Voters(S, o, T)]
    BY DEF Voters
  <2>2. \A t \in Voters(S, o, T) : \E v \in V : f[v] = t
    BY DEF Voters
  <2>3. \A v, w \in V : f[v] = f[w] => v = w
    BY <1>2
  <2> QED
    BY <2>1, <2>2, <2>3 DEF Bijection, Injection, Surjection, IsInjective
<1>4. ExistsBijection(V, Voters(S, o, T))
  BY <1>3 DEF ExistsBijection
<1> HIDE DEF V, f
<1>5. /\ IsFiniteSet(Voters(S, o, T))
      /\ Cardinality(Voters(S, o, T)) = Cardinality(V)
  BY <1>1, <1>4, FS_Bijection
<1> QED
  BY <1>5 DEF V

\* Every vote is from a ranked masternode, and its only vote for the outpoint.
Ranked(S) == /\ S \in SUBSET Vote
             /\ \A v \in S : v.mn \in TopRank[v.out]
             /\ \A v, w \in S : v.out = w.out /\ v.mn = w.mn => v = w

\* HasQuorum, for the votes S.
QuorumIn(S, o, T) == Cardinality({v \in S : v.tx = T /\ v.out = o}) >= SIGNATURES_REQUIRED

\* Two transactions cannot both have a quorum for the same outpoint.
LEMMA QuorumsAgree ==
  ASSUME NEW S, Ranked(S), NEW o \in Outpoint, NEW T, NEW X,
         QuorumIn(S, o, T), QuorumIn(S, o, X)
  PROVE  T = X
<1> DEFINE A == Voters(S, o, T)
           B == Voters(S, o, X)
<1>1. /\ IsFiniteSet(TopRank[o]) /\ Cardinality(TopRank[o]) \in Nat
      /\ Cardinality(TopRank[o]) <= SIGNATURES_TOTAL
      /\ 2 * SIGNATURES_REQUIRED > SIGNATURES_TOTAL
      /\ SIGNATURES_REQUIRED \in Nat /\ SIGNATURES_TOTAL \in Nat
  BY ConstantsAssumption, QuorumAssumption, FS_Subset, FS_CardinalityType
<1>2. A \in SUBSET TopRank[o] /\ B \in SUBSET TopRank[o]
  BY DEF Voters, Ranked
<1>3. /\ Cardinality(A) >= SIGNATURES_REQUIRED
      /\ Cardinality(B) >= SIGNATURES_REQUIRED
      /\ IsFiniteSet(A) /\ IsFiniteSet(B)
  BY VotersCountVotes DEF Ranked, QuorumIn
<1> HIDE DEF A, B
<1>4. Cardinality(A) \in Nat /\ Cardinality(B) \in Nat
  BY <1>3, FS_CardinalityType
<1>5. Cardinality(A) + Cardinality(B) > Cardinality(TopRank[o])
  BY <1>1, <1>3, <1>4
<1>6. A \cap B # {}
  BY <1>1, <1>2, <1>5, FS_MajoritiesIntersect
<1>7. PICK m : m \in A /\ m \in B
  BY <1>6
<1>8. PICK v \in S : v.tx = T /\ v.out = o /\ v.mn = m
  BY <1>7 DEF A, Voters
<1>9. PICK w \in S : w.tx = X /\ w.out = o /\ w.mn = m
  BY <1>7 DEF B, Voters
<1>10. v = w
  BY <1>8, <1>9 DEF Ranked
<1> QED
  BY <1>8, <1>9, <1>10

\* The votes a node has counted towards a lock are votes of the network.
LEMMA ReadyHasQuorum ==
  ASSUME TypeOK, VotesWereSent, NEW n \in Node, NEW T \in Tx,
         IsAllOutPointsReady(T, mapMasternodeVotes[n]), NEW o \in Inputs[T]
  PROVE  HasQuorum(o, T)
<1>1. /\ mapMasternodeVotes[n] \subseteq sentVotes /\ sentVotes \in SUBSET Vote
  BY RelayedVotes DEF VotesWereSent
<1>2. IsAllOutPointsReady(T, sentVotes)
  BY <1>1, ReadyIsMonotone
<1> QED
  BY <1>2 DEF IsAllOutPointsReady, HasQuorum

\* While no node loses its memory, no two nodes treat an outpoint as locked for
\* different transactions.
THEOREM NodesAgreeOnLocks ==
  ASSUME DistinctMasternodes
  PROVE  Spec /\ [][DeepBlocksStay]_vars => []NoConflictingLocks
<1>1. AgreementInv => NoConflictingLocks
  <2> SUFFICES ASSUME AgreementInv, restarts = 0, NEW n \in Node, NEW p \in Node,
                      NEW o \in Outpoint,
                      mapLockedOutpoints[n][o] # NoTx, mapLockedOutpoints[p][o] # NoTx
               PROVE  mapLockedOutpoints[n][o] = mapLockedOutpoints[p][o]
    BY DEF NoConflictingLocks
  <2> DEFINE T == mapLockedOutpoints[n][o]
             X == mapLockedOutpoints[p][o]
  <2>1. TypeOK /\ LockBackedByQuorum /\ VotesWereSent /\ OneVotePerOutpoint
    BY DEF AgreementInv, LockInv, VoteInv
  <2>2. T \in Tx /\ X \in Tx
    BY <2>1 DEF TypeOK
  <2>3. /\ o \in Inputs[T] /\ IsAllOutPointsReady(T, mapMasternodeVotes[n])
        /\ o \in Inputs[X] /\ IsAllOutPointsReady(X, mapMasternodeVotes[p])
    BY <2>1 DEF LockBackedByQuorum
  <2> HIDE DEF T, X
  <2>4. HasQuorum(o, T) /\ HasQuorum(o, X)
    BY <2>1, <2>2, <2>3, ReadyHasQuorum
  <2>5. T = X
    <3>1. Ranked(sentVotes)
      <4>1. sentVotes \in SUBSET Vote
        BY <2>1, RelayedVotes
      <4> QED
        BY <2>1, <4>1 DEF VotesWereSent, OneVotePerOutpoint, Ranked
    <3>2. QuorumIn(sentVotes, o, T) /\ QuorumIn(sentVotes, o, X)
      BY <2>4 DEF HasQuorum, QuorumIn
    <3> QED
      BY <3>1, <3>2, QuorumsAgree
  <2> QED
    BY <2>5 DEF T, X
<1> QED
  BY <1>1, AgreementInvariant, PTL

-----------------------------------------------------------------------------
(* Locks *)

\* Node n locks the inputs of a candidate that has a quorum and no rival lock.
Completes(n, T) ==
  /\ LockTransactionInputs(n, T) /\ ~LockedByOther(n, T)
  /\ T \in Candidates(n)'
  /\ IsAllOutPointsReady(T, mapMasternodeVotes'[n])
  /\ UNCHANGED <<sentVotes, restarts>>

CandidatesKept == \A p \in Node : Candidates(p) \subseteq Candidates(p)'

LocksCompleteOrStay ==
  /\ CandidatesKept
  /\ UNCHANGED mapLockedOutpoints \/ \E n \in Node, T \in Tx : Completes(n, T)

LEMMA TryToFinalizeCompletes ==
  ASSUME NEW n, NEW T, NEW vts, NEW kn, TryToFinalizeLockCandidate(n, T, vts, kn)
  PROVE  \/ UNCHANGED mapLockedOutpoints
         \/ LockTransactionInputs(n, T) /\ IsAllOutPointsReady(T, vts) /\ ~LockedByOther(n, T)
BY DEF TryToFinalizeLockCandidate, ReplaceInMempool, DisconnectAndReactivate, Reactivate

LEMMA CountVoteCompletes ==
  ASSUME TypeOK, NEW n \in Node, NEW v \in Vote, NEW kn \in [Vote -> HeightType],
         CountVote(n, v, kn), v.tx \in Candidates(n), UNCHANGED <<sentVotes, restarts>>
  PROVE  LocksCompleteOrStay
<1>1. \A p \in Node : Candidates(p)' = Candidates(p)
  BY CountVoteType
<1>2. v.tx \in Tx
  BY VoteFields
<1>3. CASE ~AddVote(n, v)
  BY <1>1, <1>3 DEF CountVote, LocksCompleteOrStay, CandidatesKept
<1>4. CASE AddVote(n, v)
  <2>1. /\ mapMasternodeVotes' = [mapMasternodeVotes EXCEPT ![n] = mapMasternodeVotes[n] \cup {v}]
        /\ TryToFinalizeLockCandidate(n, v.tx, mapMasternodeVotes[n] \cup {v}, kn)
    BY <1>4 DEF CountVote
  <2>2. mapMasternodeVotes'[n] = mapMasternodeVotes[n] \cup {v}
    BY <2>1 DEF TypeOK
  <2>3. \/ UNCHANGED mapLockedOutpoints
        \/ /\ LockTransactionInputs(n, v.tx) /\ ~LockedByOther(n, v.tx)
           /\ IsAllOutPointsReady(v.tx, mapMasternodeVotes'[n])
    BY <2>1, <2>2, TryToFinalizeCompletes
  <2> QED
    BY <1>1, <1>2, <2>3 DEF LocksCompleteOrStay, Completes, CandidatesKept
<1> QED
  BY <1>3, <1>4

LEMMA StartLockRequestLocks ==
  ASSUME TypeOK, NEW n \in Node, NEW T, NEW kn, NEW orph, NEW net,
         StartLockRequest(n, T, kn, orph, net)
  PROVE  LocksCompleteOrStay
<1>1. /\ mapTxLockCandidates' =
           [mapTxLockCandidates EXCEPT ![n][T] = IF @ = Absent THEN Unconfirmed ELSE @]
      /\ UNCHANGED mapLockedOutpoints
  BY DEF StartLockRequest, CreateAndVote
<1>2. mapTxLockCandidates \in [Node -> [Tx -> HeightType]]
  BY DEF TypeOK, HeightType
<1>3. CandidatesKept
  BY <1>1, <1>2 DEF CandidatesKept, Candidates, Absent, Unconfirmed
<1> QED
  BY <1>1, <1>3 DEF LocksCompleteOrStay

\* Locks change when a node completes one, expires or restarts.
LEMMA LocksStep ==
  ASSUME TypeOK, LockInv, Next
  PROVE  \/ LocksCompleteOrStay
         \/ \E n \in Node : CheckAndRemove(n)
         \/ \E n \in Node : Restart(n)
<1>1. CASE \E n \in Node, T \in Tx : RecvTxLockRequest(n, T) \/ LocalTxLockRequest(n, T)
  BY <1>1, StartLockRequestLocks DEF RecvTxLockRequest, LocalTxLockRequest
<1>2. CASE \E n \in Node : \E v \in sentVotes \cup Stray : RecvTxLockVote(n, v)
  <2>1. PICK n \in Node, v \in sentVotes \cup Stray : RecvTxLockVote(n, v)
    BY <1>2
  <2> DEFINE kn == [mapTxLockVotes[n] EXCEPT ![v] = Unconfirmed]
             orph == [mapTxLockVotesOrphan[n] EXCEPT ![v] = now]
  <2>2. v \in Vote /\ v.tx \in Tx /\ kn \in [Vote -> HeightType]
    BY VoteFields, RelayedVotes DEF TypeOK, HeightType
  <2> HIDE DEF kn, orph
  <2>3. \/ IgnoreVote(n, kn)
        \/ v.tx \in Candidates(n) /\ CountVote(n, v, kn) /\ UNCHANGED sentVotes
        \/ StartLockRequest(n, v.tx, kn, orph, NoTx)
    BY <2>1 DEF RecvTxLockVote, MayCount, kn, orph
  <2>4. UNCHANGED restarts
    BY <2>1 DEF RecvTxLockVote, envVars
  <2>5. CASE IgnoreVote(n, kn)
    BY <2>2, <2>5, IgnoreVoteType DEF IgnoreVote, LocksCompleteOrStay, CandidatesKept
  <2> QED
    BY <2>2, <2>3, <2>4, <2>5, CountVoteCompletes, StartLockRequestLocks
<1>3. CASE \E n \in Node : ProcessOrphanTxLockVotes(n)
  <2>1. PICK n \in Node : ProcessOrphanTxLockVotes(n)
    BY <1>3
  <2>2. PICK v \in handler[n].todo : ProcessOrphanTxLockVote(n, v)
    BY <2>1 DEF ProcessOrphanTxLockVotes
  <2> DEFINE kn == mapTxLockVotes[n]
  <2>3. v \in Vote /\ kn \in [Vote -> HeightType]
    BY <2>2, HandlerType DEF ProcessOrphanTxLockVote, BusyHandler, TypeOK, HeightType
  <2>4. \/ IgnoreVote(n, kn)
        \/ v.tx \in Candidates(n) /\ CountVote(n, v, kn)
    BY <2>2 DEF ProcessOrphanTxLockVote, MayCount
  <2>5. UNCHANGED <<sentVotes, restarts>>
    BY <2>2 DEF ProcessOrphanTxLockVote, envVars
  <2> HIDE DEF kn
  <2>6. CASE IgnoreVote(n, kn)
    BY <2>3, <2>6, IgnoreVoteType DEF IgnoreVote, LocksCompleteOrStay, CandidatesKept
  <2> QED
    BY <2>3, <2>4, <2>5, <2>6, CountVoteCompletes
<1>4. CASE \E n \in Node : FinishLockRequest(n)
  <2>1. PICK n \in Node : FinishLockRequest(n)
    BY <1>4
  <2> DEFINE T == handler[n].tx
  <2>2. T \in Tx /\ T \in Candidates(n)
    BY <2>1, HandlerType DEF FinishLockRequest, BusyHandler, LockInv, RunningCandidate
  <2>3. TryToFinalizeLockCandidate(n, T, mapMasternodeVotes[n], mapTxLockVotes[n])
    BY <2>1 DEF FinishLockRequest
  <2>4. UNCHANGED <<sentVotes, restarts, mapMasternodeVotes>>
    BY <2>1 DEF FinishLockRequest, envVars
  <2>5. \A p \in Node : Candidates(p)' = Candidates(p)
    BY <2>2, <2>3, TryToFinalizeType DEF TypeOK, HeightType
  <2> HIDE DEF T
  <2>6. \/ UNCHANGED mapLockedOutpoints
        \/ /\ LockTransactionInputs(n, T) /\ ~LockedByOther(n, T)
           /\ IsAllOutPointsReady(T, mapMasternodeVotes'[n])
    BY <2>3, <2>4, TryToFinalizeCompletes
  <2> QED
    BY <2>2, <2>4, <2>5, <2>6 DEF LocksCompleteOrStay, Completes, CandidatesKept
<1>5. CASE \E n \in Node :
             \/ \E T \in Tx : RecvTx(n, T)
             \/ AcceptLockRequest(n)
             \/ \E k \in 0 .. MaxReorg : k < Len(chain[n]) /\
                  \E bs \in BlocksOfLength(k + 1) : ActivateBestChainStep(n, k, bs)
  <2>1. ASSUME NEW n \in Node, NEW T \in Tx, RecvTx(n, T)
        PROVE  UNCHANGED mapLockedOutpoints /\ \A p \in Node : Candidates(p)' = Candidates(p)
    BY <2>1, RecvTxCandidates DEF RecvTx
  <2>2. ASSUME NEW n \in Node, AcceptLockRequest(n)
        PROVE  UNCHANGED mapLockedOutpoints /\ \A p \in Node : Candidates(p)' = Candidates(p)
    BY <2>2, AcceptLockRequestCandidates DEF AcceptLockRequest
  <2>3. ASSUME NEW n \in Node, NEW k \in 0 .. MaxReorg, k < Len(chain[n]),
               NEW bs \in BlocksOfLength(k + 1), ActivateBestChainStep(n, k, bs)
        PROVE  UNCHANGED mapLockedOutpoints /\ \A p \in Node : Candidates(p)' = Candidates(p)
    <3>1. UNCHANGED mapLockedOutpoints
      BY <2>3 DEF ActivateBestChainStep
    <3>2. \A p \in Node : Candidates(p)' = Candidates(p)
      BY <2>3, ActivateCandidates
    <3> QED
      BY <3>1, <3>2
  <2>4. UNCHANGED mapLockedOutpoints /\ \A p \in Node : Candidates(p)' = Candidates(p)
    BY <1>5, <2>1, <2>2, <2>3
  <2> QED
    BY <2>4 DEF LocksCompleteOrStay, CandidatesKept
<1>6. CASE \/ \E n \in Node : UpdatedBlockTip(n) \/ \E m \in Masternode : AddMasternode(n, m)
           \/ \E m \in Masternode, T \in Tx : RemoteVote(m, T) \/ RemoteVoteAfterRestart(m, T)
           \/ Tick
  <2>1. UNCHANGED <<mapTxLockCandidates, mapLockedOutpoints>>
    BY <1>6 DEF UpdatedBlockTip, AddMasternode, RemoteVote, RemoteVoteAfterRestart, Tick
  <2> QED
    BY <2>1 DEF LocksCompleteOrStay, CandidatesKept, Candidates
<1> QED
  BY <1>1, <1>2, <1>3, <1>4, <1>5, <1>6 DEF Next

-----------------------------------------------------------------------------
(* Locks are atomic *)

\* All inputs of a locked transaction are locked by it, unless a rival is buried
\* for good.
LockAtomicDeep ==
  \A n \in Node, o \in Outpoint :
    LET T == mapLockedOutpoints[n][o] IN
    T # NoTx => \/ IsLockedInstaPayTransaction(n, T)
                \/ \E X \in Rivals(T, Tx) : MinedDeep(n, X)

LEMMA LockAtomicStep ==
  ASSUME TypeOK, TypeOK', LockInv, ChainInv, TipInv, LockAtomicDeep, Next,
         [DeepBlocksStay]_vars
  PROVE  LockAtomicDeep'
<1> SUFFICES ASSUME NEW p \in Node, NEW o \in Outpoint, NEW T \in Tx,
                    mapLockedOutpoints'[p][o] = T
             PROVE  \/ IsLockedInstaPayTransaction(p, T)'
                    \/ \E X \in Rivals(T, Tx) : MinedDeep(p, X)'
  BY DEF LockAtomicDeep, TypeOK
<1>1. ASSUME NEW X, MinedDeep(p, X)
      PROVE  MinedDeep(p, X)'
  BY <1>1, MinedDeepIsStable
<1>2. Inputs[T] \subseteq Outpoint
  BY ConstantsAssumption
<1>3. ASSUME mapLockedOutpoints[p][o] = T
      PROVE  \/ IsLockedInstaPayTransaction(p, T)
             \/ \E X \in Rivals(T, Tx) : MinedDeep(p, X)
  BY <1>3, ConstantsAssumption DEF LockAtomicDeep
<1>4. CASE LocksCompleteOrStay
  <2>1. ASSUME NEW q \in Outpoint, mapLockedOutpoints[p][q] # NoTx
        PROVE  mapLockedOutpoints'[p][q] = mapLockedOutpoints[p][q]
    <3>1. CASE \E n \in Node, X \in Tx : Completes(n, X)
      <4>1. PICK n \in Node, X \in Tx : Completes(n, X)
        BY <3>1
      <4>2. LockTransactionInputs(n, X)
        BY <4>1 DEF Completes
      <4> QED
        BY <2>1, <4>2 DEF LockTransactionInputs, TypeOK
    <3> QED
      BY <1>4, <3>1 DEF LocksCompleteOrStay
  <2>2. CASE mapLockedOutpoints[p][o] = T
    <3>1. CASE IsLockedInstaPayTransaction(p, T)
      <4>1. T \in Candidates(p)'
        BY <1>4, <3>1 DEF LocksCompleteOrStay, CandidatesKept, IsLockedInstaPayTransaction
      <4>2. ASSUME NEW q \in Inputs[T]
            PROVE  mapLockedOutpoints'[p][q] = T
        BY <1>2, <2>1, <3>1, ConstantsAssumption DEF IsLockedInstaPayTransaction
      <4> QED
        BY <4>1, <4>2 DEF IsLockedInstaPayTransaction
    <3> QED
      BY <1>1, <1>3, <2>2, <3>1
  <2>3. CASE mapLockedOutpoints[p][o] # T
    <3>1. mapLockedOutpoints'[p][o] # mapLockedOutpoints[p][o]
      BY <2>3
    <3>2. PICK n \in Node, X \in Tx : Completes(n, X)
      BY <1>4, <3>1 DEF LocksCompleteOrStay
    <3>3. p = n /\ X = T
      BY <3>1, <3>2 DEF Completes, LockTransactionInputs, TypeOK
    <3>4. \A q \in Inputs[T] : mapLockedOutpoints'[p][q] = T
      BY <1>2, <3>2, <3>3 DEF Completes, LockTransactionInputs, LockedByOther, TypeOK
    <3> QED
      BY <3>2, <3>3, <3>4 DEF Completes, IsLockedInstaPayTransaction
  <2> QED
    BY <2>2, <2>3
<1>5. CASE \E n \in Node : CheckAndRemove(n)
  <2>1. PICK n \in Node : CheckAndRemove(n)
    BY <1>5
  <2> DEFINE gone == ExpiredCandidates(n)
             freed == FreedOutpoints(n, gone)
  <2>2. /\ mapLockedOutpoints' = [mapLockedOutpoints EXCEPT ![n] =
             [q \in Outpoint |-> IF q \in freed THEN NoTx ELSE @[q]]]
        /\ mapTxLockCandidates' = [mapTxLockCandidates EXCEPT ![n] =
             [X \in Tx |-> IF X \in gone THEN Absent ELSE @[X]]]
    BY <2>1 DEF CheckAndRemove
  <2>3. \A X \in gone : X \in Tx /\ MinedDeep(n, X)
    BY ExpiredIsDeep DEF ChainInv
  <2>4. \A q : q \in freed <=> \E X \in gone : q \in Inputs[X]
    BY <2>3, ConstantsAssumption DEF FreedOutpoints
  <2> HIDE DEF gone, freed
  <2>5. CASE p # n
    <3>1. /\ mapLockedOutpoints'[p] = mapLockedOutpoints[p]
          /\ mapTxLockCandidates'[p] = mapTxLockCandidates[p]
      BY <2>2, <2>5 DEF TypeOK
    <3>2. IsLockedInstaPayTransaction(p, T) => IsLockedInstaPayTransaction(p, T)'
      BY <3>1 DEF IsLockedInstaPayTransaction, Candidates
    <3> QED
      BY <1>1, <1>3, <3>1, <3>2
  <2>6. CASE p = n
    <3>1. /\ \A q \in Outpoint : mapLockedOutpoints'[p][q] =
               IF q \in freed THEN NoTx ELSE mapLockedOutpoints[p][q]
          /\ \A X \in Tx : mapTxLockCandidates'[p][X] =
               IF X \in gone THEN Absent ELSE mapTxLockCandidates[p][X]
      BY <2>2, <2>6 DEF TypeOK
    <3>2. o \notin freed /\ mapLockedOutpoints[p][o] = T
      BY <3>1, ConstantsAssumption
    <3>3. o \in Inputs[T]
      BY <3>2, ConstantsAssumption DEF LockInv, LockBackedByQuorum
    <3>4. T \notin gone
      BY <2>4, <3>2, <3>3
    <3>5. CASE \E X \in gone : Inputs[X] \cap Inputs[T] # {}
      <4>1. PICK X \in gone : Inputs[X] \cap Inputs[T] # {}
        BY <3>5
      <4>2. X \in Rivals(T, Tx)
        BY <2>3, <3>4, <4>1, ConstantsAssumption DEF Rivals
      <4>3. MinedDeep(p, X)'
        BY <1>1, <2>3, <2>6, <4>1
      <4> QED
        BY <4>2, <4>3
    <3>6. CASE \A X \in gone : Inputs[X] \cap Inputs[T] = {}
      <4>1. \A q \in Inputs[T] : mapLockedOutpoints'[p][q] = mapLockedOutpoints[p][q]
        BY <1>2, <2>4, <3>1, <3>6
      <4>2. mapTxLockCandidates'[p][T] = mapTxLockCandidates[p][T]
        BY <3>1, <3>4
      <4>3. IsLockedInstaPayTransaction(p, T) => IsLockedInstaPayTransaction(p, T)'
        BY <4>1, <4>2 DEF IsLockedInstaPayTransaction, Candidates
      <4> QED
        BY <1>1, <1>3, <3>2, <4>3
    <3> QED
      BY <3>5, <3>6
  <2> QED
    BY <2>5, <2>6
<1>6. CASE \E n \in Node : Restart(n)
  <2>1. PICK n \in Node : Restart(n)
    BY <1>6
  <2>2. /\ mapLockedOutpoints' =
             [mapLockedOutpoints EXCEPT ![n] = [q \in Outpoint |-> NoTx]]
        /\ mapTxLockCandidates' = [mapTxLockCandidates EXCEPT ![n] = EmptyMap(Tx)]
    BY <2>1 DEF Restart
  <2>3. p # n
    BY <2>2, ConstantsAssumption DEF TypeOK
  <2>4. /\ mapLockedOutpoints'[p] = mapLockedOutpoints[p]
        /\ mapTxLockCandidates'[p] = mapTxLockCandidates[p]
    BY <2>2, <2>3 DEF TypeOK
  <2>5. IsLockedInstaPayTransaction(p, T) => IsLockedInstaPayTransaction(p, T)'
    BY <2>4 DEF IsLockedInstaPayTransaction, Candidates
  <2> QED
    BY <1>1, <1>3, <2>4, <2>5
<1> QED
  BY <1>4, <1>5, <1>6, LocksStep

\* A lock covers all inputs of its transaction or none of them, whatever expires
\* in between; only a rival in the chain can take an input away from it.
THEOREM LocksAreAtomic == Spec /\ [][DeepBlocksStay]_vars => []LockIsAtomicUnlessRivalMined
<1>1. Init => TipInv /\ LockAtomicDeep
  BY ConstantsAssumption DEF Init, TipInv, LockAtomicDeep
<1>2. /\ TypeOK /\ TypeOK' /\ LockInv /\ ChainInv /\ TipInv /\ LockAtomicDeep
      /\ [Next]_vars /\ [DeepBlocksStay]_vars
      => TipInv' /\ LockAtomicDeep'
  <2> SUFFICES ASSUME TypeOK, TypeOK', LockInv, ChainInv, TipInv, LockAtomicDeep,
                      [Next]_vars, [DeepBlocksStay]_vars
               PROVE  TipInv' /\ LockAtomicDeep'
    OBVIOUS
  <2>1. CASE Next
    BY <2>1, TipInvStep, LockAtomicStep
  <2>2. CASE UNCHANGED vars
    BY <2>2 DEF vars, TipInv, LockAtomicDeep, IsLockedInstaPayTransaction, Candidates,
                MinedDeep
  <2> QED
    BY <2>1, <2>2
<1>3. LockAtomicDeep => LockIsAtomicUnlessRivalMined
  <2> SUFFICES ASSUME LockAtomicDeep, NEW n \in Node, NEW o \in Outpoint, NEW T,
                      NEW X \in Rivals(T, Tx), MinedDeep(n, X)
               PROVE  \E i \in DOMAIN chain[n] : Rivals(T, chain[n][i]) # {}
    BY DEF LockAtomicDeep, LockIsAtomicUnlessRivalMined
  <2>1. PICK i \in DOMAIN chain[n] : X \in chain[n][i]
    BY DEF MinedDeep
  <2>2. X \in Rivals(T, chain[n][i])
    BY <2>1 DEF Rivals
  <2> QED
    BY <2>2
<1> QED
  BY <1>1, <1>2, <1>3, TypeCorrect, LockInvariant, ChainInvariant, PTL DEF Spec

-----------------------------------------------------------------------------
(* When deep blocks stay *)

\* ActivateBestChain connects every block again that ResolveConflicts disconnected, or
\* the chain is shorter than it was.
LEMMA ResolveConflictsKeepsChain ==
  ASSUME TypeOK, TypeOK', ChainsNeverShrink, NEW n \in Node, NEW T, NEW vts, NEW kn,
         TryToFinalizeLockCandidate(n, T, vts, kn)
  PROVE  UNCHANGED chain
<1>1. CASE \E d \in DisconnectDepth(n, T) :
             \E k \in Reconnectable(n, Popped(n, d)) : Reactivate(n, T, vts, kn, d, k)
  <2>1. PICK d \in DisconnectDepth(n, T) :
          \E k \in Reconnectable(n, Popped(n, d)) : Reactivate(n, T, vts, kn, d, k)
    BY <1>1
  <2>2. PICK k \in Reconnectable(n, Popped(n, d)) : Reactivate(n, T, vts, kn, d, k)
    BY <2>1
  <2>3. chain[n] \in Seq(Block) /\ d \in 0 .. Len(chain[n])
    BY DEF TypeOK, DisconnectDepth
  <2>4. Len(Popped(n, d)) = d /\ d \in Nat /\ Len(chain[n]) \in Nat
    BY <2>3 DEF Popped
  <2>5. k \in 0 .. d
    BY <2>4 DEF Reconnectable
  <2>6. chain'[n] = Base(n, d - k)
    BY <2>2 DEF Reactivate, TypeOK
  <2>7. d - k \in 0 .. Len(chain[n])
    BY <2>3, <2>4, <2>5
  <2>8. Len(Base(n, d - k)) = Len(chain[n]) - (d - k)
    BY <2>7, BaseAndPopped
  <2>9. Len(chain[n]) - (d - k) >= Len(chain[n])
    BY <2>6, <2>8 DEF ChainsNeverShrink
  <2>10. d - k = 0
    BY <2>4, <2>7, <2>9
  <2>11. Base(n, 0) = chain[n]
    BY <2>3 DEF Base
  <2>12. chain' = [chain EXCEPT ![n] = chain[n]]
    BY <2>2, <2>10, <2>11 DEF Reactivate
  <2> QED
    BY <2>12 DEF TypeOK
<1> QED
  BY <1>1 DEF TryToFinalizeLockCandidate, ReplaceInMempool, DisconnectAndReactivate, chainVars

LEMMA CountVoteKeepsChain ==
  ASSUME TypeOK, TypeOK', ChainsNeverShrink, NEW n \in Node, NEW v, NEW kn,
         CountVote(n, v, kn)
  PROVE  UNCHANGED chain
BY ResolveConflictsKeepsChain DEF CountVote, chainVars

\* While no step shortens a chain, only new blocks change it.
LEMMA OnlyBlocksMoveTheChain ==
  ASSUME TypeOK, TypeOK', ChainsNeverShrink, Next
  PROVE  \/ UNCHANGED chain
         \/ \E n \in Node : \E k \in 0 .. MaxReorg : k < Len(chain[n]) /\
              \E bs \in BlocksOfLength(k + 1) : ActivateBestChainStep(n, k, bs)
<1>1. CASE \E n \in Node : \/ \E T \in Tx : RecvTxLockRequest(n, T) \/ LocalTxLockRequest(n, T)
                          \/ \E v \in sentVotes \cup Stray : RecvTxLockVote(n, v)
  <2>1. \/ \E n, T, kn, orph, net : StartLockRequest(n, T, kn, orph, net)
        \/ \E n \in Node : \E v, kn : IgnoreVote(n, kn) \/ CountVote(n, v, kn)
    <3>1. CASE \E n \in Node, T \in Tx : RecvTxLockRequest(n, T) \/ LocalTxLockRequest(n, T)
      BY <3>1 DEF RecvTxLockRequest, LocalTxLockRequest
    <3>2. CASE \E n \in Node : \E v \in sentVotes \cup Stray : RecvTxLockVote(n, v)
      <4>1. PICK n \in Node, v \in sentVotes \cup Stray : RecvTxLockVote(n, v)
        BY <3>2
      <4> DEFINE kn == [mapTxLockVotes[n] EXCEPT ![v] = Unconfirmed]
                 orph == [mapTxLockVotesOrphan[n] EXCEPT ![v] = now]
      <4>2. \/ StartLockRequest(n, v.tx, kn, orph, NoTx)
            \/ IgnoreVote(n, kn) \/ CountVote(n, v, kn)
        BY <4>1 DEF RecvTxLockVote
      <4> HIDE DEF kn, orph
      <4> QED
        BY <4>2
    <3> QED
      BY <1>1, <3>1, <3>2
  <2>2. CASE \E n, T, kn, orph, net : StartLockRequest(n, T, kn, orph, net)
    BY <2>2 DEF StartLockRequest, CreateAndVote, chainVars
  <2> QED
    BY <2>1, <2>2, CountVoteKeepsChain DEF IgnoreVote, chainVars
<1>2. CASE \E n \in Node : ProcessOrphanTxLockVotes(n)
  <2>1. \E n \in Node : \E v, kn : IgnoreVote(n, kn) \/ CountVote(n, v, kn)
    BY <1>2 DEF ProcessOrphanTxLockVotes, ProcessOrphanTxLockVote
  <2> QED
    BY <2>1, CountVoteKeepsChain DEF IgnoreVote, chainVars
<1>3. CASE \E n \in Node : FinishLockRequest(n)
  BY <1>3, ResolveConflictsKeepsChain DEF FinishLockRequest
<1>4. CASE \/ \E n \in Node :
                \/ AcceptLockRequest(n) \/ UpdatedBlockTip(n) \/ CheckAndRemove(n) \/ Restart(n)
                \/ \E T \in Tx : RecvTx(n, T)
                \/ \E m \in Masternode : AddMasternode(n, m)
           \/ \E m \in Masternode, T \in Tx : RemoteVote(m, T) \/ RemoteVoteAfterRestart(m, T)
           \/ Tick
  BY <1>4 DEF AcceptLockRequest, UpdatedBlockTip, CheckAndRemove, Restart, RecvTx,
              AddMasternode, RemoteVote, RemoteVoteAfterRestart, Tick, chainVars
<1> QED
  BY <1>1, <1>2, <1>3, <1>4 DEF Next

\* While no block is refused after it was disconnected, and with no reorganisation deeper
\* than the depth at which CheckAndRemove forgets, what is forgotten stays in the chain:
\* then the theorems above hold.
THEOREM DeepBlocksDoStay ==
  ASSUME MaxReorg <= nInstaPayKeepLock
  PROVE  Spec /\ [][ChainsNeverShrink]_vars => [][DeepBlocksStay]_vars
<1>1. TypeOK /\ TypeOK' /\ [Next]_vars /\ [ChainsNeverShrink]_vars => [DeepBlocksStay]_vars
  <2> SUFFICES ASSUME TypeOK, TypeOK', Next, ChainsNeverShrink
               PROVE  DeepBlocksStay
    BY DEF vars, ChainsNeverShrink
  <2> SUFFICES ASSUME NEW n \in Node, NEW i \in DOMAIN chain[n],
                      i + nInstaPayKeepLock < Len(chain[n])
               PROVE  /\ i + nInstaPayKeepLock < Len(chain'[n])
                      /\ chain'[n][i] = chain[n][i]
    BY DEF DeepBlocksStay
  <2>1. CASE UNCHANGED chain
    BY <2>1
  <2>2. CASE \E p \in Node : \E k \in 0 .. MaxReorg : k < Len(chain[p]) /\
               \E bs \in BlocksOfLength(k + 1) : ActivateBestChainStep(p, k, bs)
    <3>1. PICK p \in Node, k \in 0 .. MaxReorg : k < Len(chain[p]) /\
            \E bs \in BlocksOfLength(k + 1) : ActivateBestChainStep(p, k, bs)
      BY <2>2
    <3>2. PICK bs \in BlocksOfLength(k + 1) : ActivateBestChainStep(p, k, bs)
      BY <3>1
    <3>3. chain' = [chain EXCEPT ![p] = Base(p, k) \o bs]
      BY <3>2 DEF ActivateBestChainStep
    <3>4. CASE n # p
      BY <3>3, <3>4 DEF TypeOK
    <3>5. CASE n = p
      <4>1. /\ chain[n] \in Seq(Block) /\ Len(chain[n]) \in Nat
            /\ nInstaPayKeepLock \in Nat /\ MaxReorg \in Nat
            /\ bs \in Seq(Block) /\ Len(bs) = k + 1 /\ k \in Nat
        BY ConstantsAssumption DEF TypeOK, BlocksOfLength
      <4>2. k \in 0 .. Len(chain[n]) /\ i \in 1 .. Len(chain[n]) - k
        <5>1. i \in Nat /\ i >= 1 /\ k < Len(chain[n]) /\ k <= MaxReorg
          BY <3>1, <3>5, <4>1
        <5> QED
          BY <4>1, <5>1
      <4>3. Base(n, k) \in Seq(Block) /\ Len(Base(n, k)) = Len(chain[n]) - k
        BY <4>1, <4>2 DEF Base
      <4>4. chain'[n] = Base(n, k) \o bs
        BY <3>3, <3>5 DEF TypeOK
      <4>5. chain'[n][i] = Base(n, k)[i] /\ Base(n, k)[i] = chain[n][i]
        BY <4>1, <4>2, <4>3, <4>4, BaseBlocks
      <4>6. Len(chain'[n]) = Len(chain[n]) + 1
        <5>1. bs \in Seq(Block) /\ Base(n, k) \in Seq(Block)
          BY <4>1, <4>3
        <5>2. Len(Base(n, k) \o bs) = Len(Base(n, k)) + Len(bs)
          BY <5>1
        <5>3. Len(chain'[n]) = (Len(chain[n]) - k) + (k + 1)
          BY <4>1, <4>3, <4>4, <5>2
        <5>4. k \in Int /\ Len(chain[n]) \in Int
          BY <4>1
        <5>5. \A a, b \in Int : (a - b) + (b + 1) = a + 1
          OBVIOUS
        <5> QED
          BY <5>3, <5>4, <5>5
      <4> QED
        BY <4>1, <4>5, <4>6
    <3> QED
      BY <3>4, <3>5
  <2> QED
    BY <2>1, <2>2, OnlyBlocksMoveTheChain
<1> QED
  BY <1>1, TypeCorrect, PTL DEF Spec

-----------------------------------------------------------------------------
(* The network implements TxLock *)

\* Chosen, for the votes S.
ChosenIn(S) == [o \in Outpoint |->
  IF \E T \in Tx : QuorumIn(S, o, T) THEN CHOOSE T \in Tx : QuorumIn(S, o, T) ELSE NoTx]

LEMMA ChosenIsTheQuorum ==
  ASSUME NEW S, Ranked(S), NEW o \in Outpoint, NEW T \in Tx, QuorumIn(S, o, T)
  PROVE  ChosenIn(S)[o] = T
<1>1. \A X \in Tx : QuorumIn(S, o, X) => X = T
  BY QuorumsAgree
<1> QED
  BY <1>1 DEF ChosenIn

LEMMA ChosenType ==
  ASSUME NEW S
  PROVE  ChosenIn(S) \in [Outpoint -> Tx \cup {NoTx}]
<1>1. ASSUME NEW o \in Outpoint
      PROVE  ChosenIn(S)[o] \in Tx \cup {NoTx}
  BY DEF ChosenIn
<1> QED
  BY <1>1 DEF ChosenIn

\* The network never changes its choice.
LEMMA ChoiceIsFinal ==
  ASSUME NEW S, NEW R, S \subseteq R, Ranked(R), NEW o \in Outpoint
  PROVE  ChosenIn(S)[o] \in {NoTx, ChosenIn(R)[o]}
<1>1. CASE \E T \in Tx : QuorumIn(S, o, T)
  <2>1. PICK T \in Tx : QuorumIn(S, o, T)
    BY <1>1
  <2>2. Ranked(S)
    BY DEF Ranked
  <2> DEFINE A == {v \in S : v.tx = T /\ v.out = o}
             B == {v \in R : v.tx = T /\ v.out = o}
  <2>3. IsFiniteSet(B) /\ A \in SUBSET B
    BY VotesAreFinite DEF Ranked
  <2>4. Cardinality(A) <= Cardinality(B) /\ Cardinality(B) \in Nat /\ Cardinality(A) \in Nat
    BY <2>3, FS_Subset, FS_CardinalityType
  <2>5. QuorumIn(R, o, T)
    BY <2>1, <2>4, QuorumAssumption DEF QuorumIn
  <2> QED
    BY <2>1, <2>2, <2>5, ChosenIsTheQuorum
<1>2. CASE ~\E T \in Tx : QuorumIn(S, o, T)
  BY <1>2 DEF ChosenIn
<1> QED
  BY <1>1, <1>2

LEMMA NothingChosenYet ==
  ASSUME NEW o, NEW T
  PROVE  ~QuorumIn({}, o, T)
<1>1. {v \in {} : v.tx = T /\ v.out = o} = {}
  OBVIOUS
<1>2. SIGNATURES_REQUIRED \in Nat /\ SIGNATURES_REQUIRED >= 1
  BY QuorumAssumption
<1> QED
  BY <1>1, <1>2, FS_EmptySet DEF QuorumIn

LEMMA VotesOnlyGrow ==
  ASSUME TypeOK, VotesWereSent, Next
  PROVE  sentVotes \subseteq sentVotes'
BY VotesStep
   DEF Counts, Casts, CheckAndRemove, Restart, RemoteVote, RemoteVoteAfterRestart

\* A step of InstaPay is a step of TxLock.
LEMMA RefinementStep ==
  ASSUME AgreementInv, AgreementInv', restarts = 0, restarts' = 0, Next
  PROVE  L!Next
<1>1. /\ TypeOK /\ LockInv /\ VotesWereSent
      /\ Ranked(sentVotes) /\ Ranked(sentVotes')
  <2>1. sentVotes \in SUBSET Vote /\ sentVotes' \in SUBSET Vote
    BY DEF AgreementInv, TypeOK, InputVote
  <2>2. /\ TypeOK /\ LockInv /\ VotesWereSent /\ VotesWereSent'
        /\ OneVotePerOutpoint /\ OneVotePerOutpoint'
    BY DEF AgreementInv, VoteInv
  <2> QED
    BY <2>1, <2>2 DEF VotesWereSent, OneVotePerOutpoint, Ranked
<1>2. Chosen = ChosenIn(sentVotes) /\ Chosen' = ChosenIn(sentVotes')
  BY DEF Chosen, ChosenIn, HasQuorum, QuorumIn
<1>3. CASE UNCHANGED mapLockedOutpoints
  <2>1. Chosen' \in [Outpoint -> Tx \cup {NoTx}]
    BY <1>2, ChosenType
  <2>2. \A o \in Outpoint : Chosen[o] \in {NoTx, Chosen'[o]}
    BY <1>1, <1>2, VotesOnlyGrow, ChoiceIsFinal
  <2> QED
    BY <1>3, <2>1, <2>2 DEF L!Next, L!Choose
<1>4. CASE \E n \in Node, T \in Tx : Completes(n, T)
  <2>1. PICK n \in Node, T \in Tx : Completes(n, T)
    BY <1>4
  <2>2. Chosen' = Chosen
    BY <1>2, <2>1 DEF Completes
  <2>3. ASSUME NEW o \in Inputs[T]
        PROVE  Chosen[o] = T /\ mapLockedOutpoints[n][o] \in {NoTx, T}
    <3>1. o \in Outpoint
      BY ConstantsAssumption
    <3>2. mapMasternodeVotes'[n] \subseteq sentVotes'
      BY DEF AgreementInv, VoteInv, VotesWereSent
    <3>3. IsAllOutPointsReady(T, sentVotes')
      BY <1>1, <2>1, <3>2, ReadyIsMonotone DEF Completes, Ranked
    <3>4. QuorumIn(sentVotes', o, T)
      BY <3>3 DEF IsAllOutPointsReady, QuorumIn
    <3>5. Chosen'[o] = T
      BY <1>1, <1>2, <3>1, <3>4, ChosenIsTheQuorum
    <3> QED
      BY <2>1, <2>2, <3>5 DEF Completes, LockedByOther
  <2>4. mapLockedOutpoints' = [mapLockedOutpoints EXCEPT ![n] =
          [o \in Outpoint |-> IF o \in Inputs[T] THEN T ELSE @[o]]]
    <3>1. LockTransactionInputs(n, T)
      BY <2>1 DEF Completes
    <3>2. [o \in Outpoint |-> IF o \in Inputs[T] /\ mapLockedOutpoints[n][o] = NoTx
                              THEN T ELSE mapLockedOutpoints[n][o]]
          = [o \in Outpoint |-> IF o \in Inputs[T] THEN T ELSE mapLockedOutpoints[n][o]]
      BY <2>3
    <3> QED
      BY <3>1, <3>2 DEF LockTransactionInputs
  <2> QED
    BY <2>2, <2>3, <2>4 DEF L!Next, L!Complete
<1>5. CASE \E n \in Node : CheckAndRemove(n)
  <2>1. PICK n \in Node : CheckAndRemove(n)
    BY <1>5
  <2> DEFINE freed == FreedOutpoints(n, ExpiredCandidates(n))
  <2>2. mapLockedOutpoints' = [mapLockedOutpoints EXCEPT ![n] =
          [o \in Outpoint |-> IF o \in freed THEN NoTx ELSE @[o]]]
    BY <2>1 DEF CheckAndRemove
  <2>3. UNCHANGED sentVotes
    BY <2>1 DEF CheckAndRemove
  <2>4. Chosen' = Chosen
    BY <1>2, <2>3
  <2>5. freed \in SUBSET Outpoint
    BY ConstantsAssumption DEF FreedOutpoints, ExpiredCandidates
  <2> HIDE DEF freed
  <2> QED
    BY <2>2, <2>4, <2>5 DEF L!Next, L!Release
<1>6. CASE \E n \in Node : Restart(n)
  BY <1>1, <1>6 DEF Restart, TypeOK
<1> QED
  BY <1>1, <1>3, <1>4, <1>5, <1>6, LocksStep DEF LocksCompleteOrStay

\* While no node loses its memory, the nodes and masternodes together keep the
\* promise of instapay.cpp, l.33-38: the network chooses at most one transaction
\* for an outpoint and never changes its choice, and a node locks an outpoint
\* only for that transaction, together with all its other inputs.
THEOREM InstaPayImplementsTxLock ==
  ASSUME DistinctMasternodes
  PROVE  Spec /\ [][DeepBlocksStay]_vars /\ [](restarts = 0) => ImplementsTxLock
<1>1. Init => L!Init
  <2> SUFFICES ASSUME Init
               PROVE  L!Init
    OBVIOUS
  <2>1. sentVotes = {} /\ mapLockedOutpoints = [n \in Node |-> [o \in Outpoint |-> NoTx]]
    BY DEF Init
  <2>2. Chosen = ChosenIn({})
    BY <2>1 DEF Chosen, ChosenIn, HasQuorum, QuorumIn
  <2>3. Chosen = [o \in Outpoint |-> NoTx]
    BY <2>2, NothingChosenYet DEF ChosenIn
  <2> QED
    BY <2>1, <2>3 DEF L!Init
<1>2. /\ AgreementInv /\ AgreementInv' /\ restarts = 0 /\ (restarts = 0)' /\ [Next]_vars
      => [L!Next]_L!lockVars
  <2> SUFFICES ASSUME AgreementInv, AgreementInv', restarts = 0, restarts' = 0, [Next]_vars
               PROVE  [L!Next]_L!lockVars
    OBVIOUS
  <2>1. CASE Next
    BY <2>1, RefinementStep
  <2>2. CASE UNCHANGED vars
    BY <2>2 DEF vars, L!lockVars, Chosen, HasQuorum
  <2> QED
    BY <2>1, <2>2
<1> QED
  BY <1>1, <1>2, AgreementInvariant, PTL DEF Spec, ImplementsTxLock, L!Spec

\* While no block is refused after it was disconnected, and with no reorganisation deeper
\* than the depth at which CheckAndRemove forgets, nothing is left to assume of the chain.
THEOREM AgreementWhileChainsGrow ==
  ASSUME DistinctMasternodes, MaxReorg <= nInstaPayKeepLock
  PROVE  Spec /\ [][ChainsNeverShrink]_vars
         => /\ []OneVotePerOutpoint
            /\ []NoConflictingLocks
            /\ []LockIsAtomicUnlessRivalMined
            /\ [](restarts = 0) => ImplementsTxLock
<1> QED
  BY DeepBlocksDoStay, MasternodesVoteOnce, NodesAgreeOnLocks, LocksAreAtomic,
     InstaPayImplementsTxLock, PTL

=============================================================================
