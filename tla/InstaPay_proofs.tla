---------------------------- MODULE InstaPay_proofs ----------------------------
(***************************************************************************)
(* Proofs about InstaPay for any number of nodes, masternodes,             *)
(* transactions and outpoints, any heights, times and restarts: types,     *)
(* the quorum behind each lock, and that chain and mempool stay consistent *)
(* through removals of rivals, reorganisations and the reactivation that   *)
(* ResolveConflicts triggers, with the locks while no step shortens a      *)
(* chain.                                                                  *)
(***************************************************************************)
EXTENDS InstaPay, FiniteSetTheorems, TLAPS

HeightType == {Absent, Unconfirmed} \cup Height

\* The handlers that run no loop, and those that do.
IdleHandler == [at : {"idle"}, tx : {NoTx}, todo : {{}}, net : Tx \cup {NoTx}]

BusyHandler == [at : {"orphans"}, tx : Tx, todo : SUBSET Vote, net : Tx \cup {NoTx}]

-----------------------------------------------------------------------------
(* Lemmas about the operators *)

\* A vote's fields.
LEMMA VoteFields ==
  ASSUME NEW v \in Vote
  PROVE  v.tx \in Tx /\ v.out \in Outpoint /\ v.mn \in Masternode
BY DEF Vote

\* A vote that is relayed is a vote.
LEMMA RelayedVotes ==
  ASSUME TypeOK
  PROVE  sentVotes \cup Stray \subseteq Vote
BY StrayAssumption DEF TypeOK, InputVote

\* Every transaction of a block of ch, and every transaction that is mined on it.
LEMMA BlockFields ==
  ASSUME NEW ch \in Seq(Block), NEW i \in DOMAIN ch
  PROVE  ch[i] \in SUBSET Tx /\ ch[i] \in Block
BY DEF Block

\* The height of a transaction is a height or Unconfirmed, never Absent.
LEMMA HeightInType ==
  ASSUME NEW ch \in Seq(Block), Len(ch) <= MaxHeight, NEW T
  PROVE  HeightIn(ch, T) \in {Unconfirmed} \cup Height
<1>1. CASE Mined(ch, T)
  <2>1. PICK i \in DOMAIN ch : T \in ch[i]
    BY <1>1 DEF Mined
  <2>2. HeightIn(ch, T) \in DOMAIN ch
    BY <1>1, <2>1 DEF HeightIn
  <2> QED
    BY <2>2, ConstantsAssumption DEF Height
<1>2. CASE ~Mined(ch, T)
  BY <1>2 DEF HeightIn
<1> QED
  BY <1>1, <1>2

\* SyncTransaction keeps the types and the set of candidates of every node.
LEMMA SyncTransactionType ==
  ASSUME TypeOK, NEW n \in Node, NEW S, NEW ch \in Seq(Block), Len(ch) <= MaxHeight,
         NEW vts, NEW kn \in [Vote -> HeightType],
         SyncTransaction(n, S, ch, vts, kn)
  PROVE  /\ mapTxLockCandidates' \in [Node -> [Tx -> HeightType]]
         /\ mapTxLockVotes' \in [Node -> [Vote -> HeightType]]
         /\ \A p \in Node : Candidates(p)' = Candidates(p)
<1> DEFINE cand == [T \in Tx |-> IF T \in S \cap Candidates(n) THEN HeightIn(ch, T)
                                 ELSE mapTxLockCandidates[n][T]]
           known == [v \in Vote |->
                       IF v.tx \in S /\ (v \in OrphanVotes(n) \/ (v \in vts /\ kn[v] # Absent))
                       THEN HeightIn(ch, v.tx) ELSE kn[v]]
<1>1. /\ mapTxLockCandidates' = [mapTxLockCandidates EXCEPT ![n] = cand]
      /\ mapTxLockVotes' = [mapTxLockVotes EXCEPT ![n] = known]
  BY DEF SyncTransaction
<1>2. /\ mapTxLockCandidates \in [Node -> [Tx -> HeightType]]
      /\ mapTxLockVotes \in [Node -> [Vote -> HeightType]]
  BY DEF TypeOK, HeightType
<1>3. \A T : HeightIn(ch, T) \in HeightType /\ HeightIn(ch, T) # Absent
  BY HeightInType DEF HeightType, Height, Absent, Unconfirmed
<1>4. cand \in [Tx -> HeightType]
  BY <1>2, <1>3
<1>5. known \in [Vote -> HeightType]
  BY <1>3
<1>6. \A T \in Tx : cand[T] # Absent <=> mapTxLockCandidates[n][T] # Absent
  BY <1>3 DEF Candidates
<1>7. \A p \in Node : Candidates(p)' = Candidates(p)
  BY <1>1, <1>2, <1>6 DEF Candidates
<1> QED
  BY <1>1, <1>2, <1>4, <1>5, <1>7

LEMMA NoSyncType ==
  ASSUME TypeOK, NEW n \in Node, NEW kn \in [Vote -> HeightType], NoSync(n, kn)
  PROVE  /\ mapTxLockCandidates' \in [Node -> [Tx -> HeightType]]
         /\ mapTxLockVotes' \in [Node -> [Vote -> HeightType]]
         /\ \A p \in Node : Candidates(p)' = Candidates(p)
<1>1. /\ mapTxLockCandidates \in [Node -> [Tx -> HeightType]]
      /\ mapTxLockVotes \in [Node -> [Vote -> HeightType]]
  BY DEF TypeOK, HeightType
<1> QED
  BY <1>1 DEF NoSync, Candidates

LEMMA LockTransactionInputsType ==
  ASSUME TypeOK, NEW n \in Node, NEW T \in Tx, LockTransactionInputs(n, T)
  PROVE  mapLockedOutpoints' \in [Node -> [Outpoint -> Tx \cup {NoTx}]]
BY DEF TypeOK, LockTransactionInputs

LEMMA TxsOfType ==
  ASSUME NEW ch \in Seq(Block)
  PROVE  TxsOf(ch) \subseteq Tx
<1>1. \A i \in DOMAIN ch : ch[i] \in SUBSET Tx
  BY BlockFields
<1> QED
  BY <1>1 DEF TxsOf

\* Disconnecting d blocks splits the chain in two.
LEMMA BaseAndPopped ==
  ASSUME TypeOK, NEW n \in Node, NEW d \in 0 .. Len(chain[n])
  PROVE  /\ Base(n, d) \in Seq(Block) /\ Len(Base(n, d)) = Len(chain[n]) - d
         /\ Popped(n, d) \in Seq(Block) /\ Len(Popped(n, d)) = d
         /\ PoolAfter(n, d) \subseteq Tx
<1>1. chain[n] \in Seq(Block) /\ mempool[n] \subseteq Tx
  BY DEF TypeOK
<1>2. Base(n, d) \in Seq(Block) /\ Len(Base(n, d)) = Len(chain[n]) - d
  BY <1>1 DEF Base
<1>3. Popped(n, d) \in Seq(Block) /\ Len(Popped(n, d)) = d
  BY <1>1 DEF Popped
<1>4. PoolAfter(n, d) \subseteq Tx
  <2>1. TxsOf(Popped(n, d)) \subseteq Tx
    BY <1>3, TxsOfType
  <2> QED
    BY <1>1, <2>1 DEF PoolAfter
<1> QED
  BY <1>2, <1>3, <1>4

\* What every step keeps of the variables that ResolveConflicts touches.
ChainTypeOK ==
  /\ mempool \in [Node -> SUBSET Tx]
  /\ chain \in [Node -> Seq(Block)]
  /\ \A n \in Node : Len(chain[n]) <= MaxHeight
  /\ pCurrentBlockIndex \in [Node -> 0 .. MaxHeight]
  /\ mapLockedOutpoints \in [Node -> [Outpoint -> Tx \cup {NoTx}]]
  /\ mapTxLockCandidates \in [Node -> [Tx -> HeightType]]
  /\ mapTxLockVotes \in [Node -> [Vote -> HeightType]]

LEMMA DisconnectAndReactivateType ==
  ASSUME TypeOK, NEW n \in Node, NEW T \in Tx, NEW vts, NEW kn \in [Vote -> HeightType],
         DisconnectAndReactivate(n, T, vts, kn)
  PROVE  ChainTypeOK' /\ \A p \in Node : Candidates(p)' = Candidates(p)
<1>a. PICK d \in DisconnectDepth(n, T) :
        \E k \in Reconnectable(n, Popped(n, d)) : Reactivate(n, T, vts, kn, d, k)
  BY DEF DisconnectAndReactivate
<1>1. PICK k \in Reconnectable(n, Popped(n, d)) : Reactivate(n, T, vts, kn, d, k)
  BY <1>a
<1> DEFINE chNew == Base(n, d - k)
           pool  == PoolReplaced(n, T, d)
<1>2. d \in 0 .. Len(chain[n]) /\ d \in 1 .. Len(chain[n])
  BY DEF DisconnectDepth, TypeOK
<1>3. /\ Base(n, d) \in Seq(Block) /\ Len(Base(n, d)) = Len(chain[n]) - d
      /\ Popped(n, d) \in Seq(Block) /\ Len(Popped(n, d)) = d
      /\ PoolAfter(n, d) \subseteq Tx
  BY <1>2, BaseAndPopped
<1>4. k \in 0 .. d
  BY <1>3 DEF Reconnectable
<1>5. chNew \in Seq(Block) /\ Len(chNew) = Len(chain[n]) - (d - k)
  <2>1. d - k \in 0 .. Len(chain[n])
    BY <1>2, <1>4
  <2> QED
    BY <2>1, BaseAndPopped
<1>6. Len(chain[n]) <= MaxHeight /\ Len(chain[n]) \in Nat
  BY DEF TypeOK
<1>7. Len(chNew) \in 0 .. MaxHeight /\ Len(chNew) <= MaxHeight
  BY <1>2, <1>4, <1>5, <1>6, ConstantsAssumption
<1>8. pool \subseteq Tx
  BY <1>3 DEF PoolReplaced
<1> HIDE DEF chNew, pool
<1>9. /\ chain' = [chain EXCEPT ![n] = chNew]
      /\ mempool' = [mempool EXCEPT ![n] = {X \in pool : AllUnspent(chNew, X)}]
      /\ pCurrentBlockIndex' = [pCurrentBlockIndex EXCEPT ![n] = IF k = 0 THEN @ ELSE Len(chNew)]
      /\ SyncTransaction(n, TxsOf(Popped(n, d)) \cup (pool \ mempool[n]), chNew, vts, kn)
      /\ LockTransactionInputs(n, T)
  BY <1>1 DEF Reactivate, chNew, pool
<1>10. /\ mapTxLockCandidates' \in [Node -> [Tx -> HeightType]]
       /\ mapTxLockVotes' \in [Node -> [Vote -> HeightType]]
       /\ \A p \in Node : Candidates(p)' = Candidates(p)
  BY <1>5, <1>7, <1>9, SyncTransactionType
<1>11. mapLockedOutpoints' \in [Node -> [Outpoint -> Tx \cup {NoTx}]]
  BY <1>9, LockTransactionInputsType
<1>12. /\ chain' \in [Node -> Seq(Block)] /\ \A p \in Node : Len(chain'[p]) <= MaxHeight
       /\ mempool' \in [Node -> SUBSET Tx]
       /\ pCurrentBlockIndex' \in [Node -> 0 .. MaxHeight]
  BY <1>5, <1>7, <1>8, <1>9 DEF TypeOK
<1> QED
  BY <1>10, <1>11, <1>12 DEF ChainTypeOK

LEMMA ReplaceInMempoolType ==
  ASSUME TypeOK, NEW n \in Node, NEW T \in Tx, NEW vts, NEW kn \in [Vote -> HeightType],
         ReplaceInMempool(n, T, vts, kn)
  PROVE  ChainTypeOK' /\ \A p \in Node : Candidates(p)' = Candidates(p)
<1> DEFINE pool == mempool[n] \ Rivals(T, mempool[n])
<1>1. /\ chain[n] \in Seq(Block) /\ Len(chain[n]) <= MaxHeight
      /\ pool \subseteq Tx
  BY DEF TypeOK
<1>2. /\ chain' \in [Node -> Seq(Block)] /\ \A p \in Node : Len(chain'[p]) <= MaxHeight
      /\ pCurrentBlockIndex' \in [Node -> 0 .. MaxHeight]
  BY DEF ReplaceInMempool, TypeOK
<1>3. CASE Acceptable(n, T, pool, chain[n])
  <2>1. /\ mempool' = [mempool EXCEPT ![n] = pool \cup {T}]
        /\ SyncTransaction(n, {T}, chain[n], vts, kn)
        /\ LockTransactionInputs(n, T)
    BY <1>3 DEF ReplaceInMempool
  <2>2. mempool' \in [Node -> SUBSET Tx]
    BY <1>1, <2>1 DEF TypeOK
  <2>3. mapLockedOutpoints' \in [Node -> [Outpoint -> Tx \cup {NoTx}]]
    BY <2>1, LockTransactionInputsType
  <2>4. /\ mapTxLockCandidates' \in [Node -> [Tx -> HeightType]]
        /\ mapTxLockVotes' \in [Node -> [Vote -> HeightType]]
        /\ \A p \in Node : Candidates(p)' = Candidates(p)
    BY <1>1, <2>1, SyncTransactionType
  <2> QED
    BY <1>2, <2>2, <2>3, <2>4 DEF ChainTypeOK
<1>4. CASE ~Acceptable(n, T, pool, chain[n])
  <2>1. /\ mempool' = [mempool EXCEPT ![n] = pool]
        /\ NoSync(n, kn)
        /\ mapLockedOutpoints' = mapLockedOutpoints
    BY <1>4 DEF ReplaceInMempool
  <2>2. mempool' \in [Node -> SUBSET Tx]
    BY <1>1, <2>1 DEF TypeOK
  <2> QED
    BY <1>2, <2>1, <2>2, NoSyncType DEF ChainTypeOK, TypeOK
<1> QED
  BY <1>3, <1>4

\* A call of TryToFinalizeLockCandidate keeps the types and the candidates.
LEMMA TryToFinalizeType ==
  ASSUME TypeOK, NEW n \in Node, NEW T \in Tx, NEW vts, NEW kn \in [Vote -> HeightType],
         TryToFinalizeLockCandidate(n, T, vts, kn)
  PROVE  ChainTypeOK' /\ \A p \in Node : Candidates(p)' = Candidates(p)
<1>1. \/ NoSync(n, kn) /\ UNCHANGED <<chainVars, mapLockedOutpoints>>
      \/ ReplaceInMempool(n, T, vts, kn)
      \/ NoSync(n, kn) /\ LockTransactionInputs(n, T) /\ UNCHANGED chainVars
      \/ DisconnectAndReactivate(n, T, vts, kn)
  BY DEF TryToFinalizeLockCandidate
<1>2. CASE NoSync(n, kn) /\ UNCHANGED <<chainVars, mapLockedOutpoints>>
  BY <1>2, NoSyncType DEF chainVars, ChainTypeOK, TypeOK
<1>3. CASE NoSync(n, kn) /\ LockTransactionInputs(n, T) /\ UNCHANGED chainVars
  BY <1>3, NoSyncType, LockTransactionInputsType DEF chainVars, ChainTypeOK, TypeOK
<1> QED
  BY <1>1, <1>2, <1>3, ReplaceInMempoolType, DisconnectAndReactivateType

-----------------------------------------------------------------------------
(* Type correctness *)

\* The types of the variables that ChainTypeOK leaves out.
RestTypeOK ==
  /\ mapLockRequestAccepted \in [Node -> SUBSET Tx]
  /\ mapLockRequestRejected \in [Node -> SUBSET Tx]
  /\ mapTxLockVotesOrphan \in [Node -> [Vote -> {Absent} \cup 0 .. MaxTime]]
  /\ mapMasternodeVotes \in [Node -> SUBSET InputVote]
  /\ mapVotedOutpoints \in [Node -> [Outpoint -> SUBSET Tx]]
  /\ mapMasternodeOrphanVotes \in
       [Node -> [Masternode -> {Absent} \cup 0 .. MaxTime + ORPHAN_RATE_SECONDS]]
  /\ mnList \in [Node -> SUBSET Masternode]
  /\ handler \in [Node -> IdleHandler \cup BusyHandler]
  /\ sentVotes \subseteq InputVote
  /\ now \in 0 .. MaxTime
  /\ restarts \in 0 .. MaxRestarts

LEMMA TypeSplit == TypeOK <=> ChainTypeOK /\ RestTypeOK
BY DEF TypeOK, ChainTypeOK, RestTypeOK, HeightType, IdleHandler, BusyHandler

\* The steps of RestTypeOK that several actions share.
LEMMA TrackOrphanVoteType ==
  ASSUME TypeOK, NEW n \in Node, NEW m \in Masternode, TrackOrphanVote(n, m)
  PROVE  mapMasternodeOrphanVotes' \in
           [Node -> [Masternode -> {Absent} \cup 0 .. MaxTime + ORPHAN_RATE_SECONDS]]
<1>1. now + ORPHAN_RATE_SECONDS \in 0 .. MaxTime + ORPHAN_RATE_SECONDS
  BY ConstantsAssumption DEF TypeOK
<1> QED
  BY <1>1 DEF TypeOK, TrackOrphanVote

LEMMA CountVoteType ==
  ASSUME TypeOK, NEW n \in Node, NEW v \in Vote, NEW kn \in [Vote -> HeightType],
         CountVote(n, v, kn)
  PROVE  /\ ChainTypeOK'
         /\ \A p \in Node : Candidates(p)' = Candidates(p)
         /\ mapMasternodeVotes' \in [Node -> SUBSET InputVote]
         /\ mapVotedOutpoints' \in [Node -> [Outpoint -> SUBSET Tx]]
<1>1. v.tx \in Tx /\ v.out \in Outpoint
  BY VoteFields
<1>2. mapVotedOutpoints' \in [Node -> [Outpoint -> SUBSET Tx]]
  BY <1>1 DEF CountVote, TypeOK
<1>3. CASE ~AddVote(n, v)
  <2>1. NoSync(n, kn) /\ UNCHANGED <<chainVars, mapLockedOutpoints, mapMasternodeVotes>>
    BY <1>3 DEF CountVote
  <2> QED
    BY <1>2, <2>1, NoSyncType DEF chainVars, ChainTypeOK, TypeOK
<1>4. CASE AddVote(n, v)
  <2>1. /\ mapMasternodeVotes' = [mapMasternodeVotes EXCEPT ![n] = mapMasternodeVotes[n] \cup {v}]
        /\ TryToFinalizeLockCandidate(n, v.tx, mapMasternodeVotes[n] \cup {v}, kn)
    BY <1>4 DEF CountVote
  <2>2. mapMasternodeVotes' \in [Node -> SUBSET InputVote]
    BY <1>4, <2>1 DEF TypeOK, AddVote
  <2> QED
    BY <1>1, <1>2, <2>1, <2>2, TryToFinalizeType
<1> QED
  BY <1>3, <1>4

LEMMA IgnoreVoteType ==
  ASSUME TypeOK, NEW n \in Node, NEW kn \in [Vote -> HeightType], IgnoreVote(n, kn)
  PROVE  /\ ChainTypeOK'
         /\ \A p \in Node : Candidates(p)' = Candidates(p)
         /\ mapMasternodeVotes' \in [Node -> SUBSET InputVote]
         /\ mapVotedOutpoints' \in [Node -> [Outpoint -> SUBSET Tx]]
BY NoSyncType DEF IgnoreVote, chainVars, ChainTypeOK, TypeOK

LEMMA CreateAndVoteType ==
  ASSUME TypeOK, NEW n \in Node, NEW T \in Tx, NEW kn \in [Vote -> HeightType],
         NEW orph \in [Vote -> {Absent} \cup 0 .. MaxTime], NEW net \in Tx \cup {NoTx}, NEW outs,
         CreateAndVote(n, T, kn, orph, net, outs)
  PROVE  TypeOK'
<1>1. ChainTypeOK'
  BY DEF CreateAndVote, TypeOK, ChainTypeOK, HeightType, chainVars
<1>2. RestTypeOK'
  BY DEF CreateAndVote, TypeOK, RestTypeOK, requestVars, envVars, Handler, IdleHandler,
         BusyHandler
<1> QED
  BY <1>1, <1>2, TypeSplit, PTL

LEMMA StartLockRequestType ==
  ASSUME TypeOK, NEW n \in Node, NEW T \in Tx, NEW kn \in [Vote -> HeightType],
         NEW orph \in [Vote -> {Absent} \cup 0 .. MaxTime], NEW net \in Tx \cup {NoTx},
         StartLockRequest(n, T, kn, orph, net)
  PROVE  TypeOK'
BY CreateAndVoteType DEF StartLockRequest

LEMMA RecvTxLockVoteType ==
  ASSUME TypeOK, NEW n \in Node, NEW v \in sentVotes \cup Stray, RecvTxLockVote(n, v)
  PROVE  TypeOK'
<1> DEFINE kn == [mapTxLockVotes[n] EXCEPT ![v] = Unconfirmed]
           orph == [mapTxLockVotesOrphan[n] EXCEPT ![v] = now]
           Rest == UNCHANGED <<requestVars, envVars, handler, sentVotes>>
           Ignored == /\ IgnoreVote(n, kn) /\ Rest
                      /\ UNCHANGED <<mapTxLockVotesOrphan, mapMasternodeOrphanVotes>>
           Counted == /\ CountVote(n, v, kn) /\ Rest
                      /\ UNCHANGED <<mapTxLockVotesOrphan, mapMasternodeOrphanVotes>>
           Stored == /\ \E x \in {orph, mapTxLockVotesOrphan[n]} :
                          mapTxLockVotesOrphan' = [mapTxLockVotesOrphan EXCEPT ![n] = x]
                     /\ \/ UNCHANGED mapMasternodeOrphanVotes
                        \/ TrackOrphanVote(n, v.mn)
                     /\ IgnoreVote(n, kn) /\ Rest
<1>1. v \in Vote /\ v.mn \in Masternode /\ v.tx \in Tx
  BY VoteFields, RelayedVotes
<1>2. kn \in [Vote -> HeightType]
  BY DEF TypeOK, HeightType
<1>3. orph \in [Vote -> {Absent} \cup 0 .. MaxTime]
  BY DEF TypeOK
<1> HIDE DEF kn, orph
<1>4. Ignored \/ Counted \/ StartLockRequest(n, v.tx, kn, orph, NoTx) \/ Stored
  BY DEF RecvTxLockVote, kn, orph
<1>5. CASE Ignored
  <2>1. RestTypeOK' /\ ChainTypeOK'
    BY <1>2, <1>5, IgnoreVoteType DEF TypeOK, RestTypeOK, requestVars, envVars, IdleHandler,
                                      BusyHandler
  <2> QED
    BY <2>1, TypeSplit, PTL
<1>6. CASE Counted
  <2>1. RestTypeOK' /\ ChainTypeOK'
    BY <1>1, <1>2, <1>6, CountVoteType DEF TypeOK, RestTypeOK, requestVars, envVars,
                                           IdleHandler, BusyHandler
  <2> QED
    BY <2>1, TypeSplit, PTL
<1>7. CASE StartLockRequest(n, v.tx, kn, orph, NoTx)
  BY <1>1, <1>2, <1>3, <1>7, StartLockRequestType
<1>8. CASE Stored
  <2>1. mapMasternodeOrphanVotes' \in
          [Node -> [Masternode -> {Absent} \cup 0 .. MaxTime + ORPHAN_RATE_SECONDS]]
    BY <1>1, <1>8, TrackOrphanVoteType DEF TypeOK
  <2>2. mapTxLockVotesOrphan' \in [Node -> [Vote -> {Absent} \cup 0 .. MaxTime]]
    BY <1>3, <1>8 DEF TypeOK
  <2>3. /\ ChainTypeOK'
        /\ mapMasternodeVotes' \in [Node -> SUBSET InputVote]
        /\ mapVotedOutpoints' \in [Node -> [Outpoint -> SUBSET Tx]]
    BY <1>2, <1>8, IgnoreVoteType
  <2>4. RestTypeOK'
    BY <1>8, <2>1, <2>2, <2>3 DEF TypeOK, RestTypeOK, requestVars, envVars, IdleHandler,
                                  BusyHandler
  <2> QED
    BY <2>3, <2>4, TypeSplit, PTL
<1> HIDE DEF Ignored, Counted, Stored
<1> QED
  BY <1>4, <1>5, <1>6, <1>7, <1>8

\* A handler that has begun works for a transaction.
LEMMA HandlerType ==
  ASSUME TypeOK, NEW n \in Node
  PROVE  /\ handler[n].net \in Tx \cup {NoTx}
         /\ handler[n].at # "idle" => handler[n] \in BusyHandler
BY DEF TypeOK, BusyHandler

LEMMA ProcessOrphanTxLockVoteType ==
  ASSUME TypeOK, NEW n \in Node, NEW v \in handler[n].todo, ProcessOrphanTxLockVote(n, v)
  PROVE  TypeOK'
<1> DEFINE kn == mapTxLockVotes[n]
<1>0. handler[n] \in BusyHandler
  BY HandlerType DEF ProcessOrphanTxLockVote
<1>1. v \in Vote /\ v.mn \in Masternode /\ kn \in [Vote -> HeightType]
  BY <1>0, VoteFields DEF TypeOK, HeightType, BusyHandler
<1>2. CountVote(n, v, kn) \/ IgnoreVote(n, kn)
  BY DEF ProcessOrphanTxLockVote
<1>3. /\ ChainTypeOK'
      /\ mapMasternodeVotes' \in [Node -> SUBSET InputVote]
      /\ mapVotedOutpoints' \in [Node -> [Outpoint -> SUBSET Tx]]
  BY <1>1, <1>2, CountVoteType, IgnoreVoteType
<1>4. TrackOrphanVote(n, v.mn) \/ UNCHANGED mapMasternodeOrphanVotes
  BY DEF ProcessOrphanTxLockVote
<1>5. mapMasternodeOrphanVotes' \in
        [Node -> [Masternode -> {Absent} \cup 0 .. MaxTime + ORPHAN_RATE_SECONDS]]
  BY <1>1, <1>4, TrackOrphanVoteType DEF TypeOK
<1>6. /\ handler' = [handler EXCEPT ![n] = Handler("orphans", @.tx, @.todo \ {v}, @.net)]
      /\ handler[n].at = "orphans"
      /\ \/ mapTxLockVotesOrphan' = [mapTxLockVotesOrphan EXCEPT ![n][v] = Absent]
         \/ mapTxLockVotesOrphan' = mapTxLockVotesOrphan
      /\ UNCHANGED <<requestVars, envVars, sentVotes>>
  BY DEF ProcessOrphanTxLockVote
<1>7. RestTypeOK'
  <2>1. mapTxLockVotesOrphan' \in [Node -> [Vote -> {Absent} \cup 0 .. MaxTime]]
    <3>1. mapTxLockVotesOrphan \in [Node -> [Vote -> {Absent} \cup 0 .. MaxTime]]
      BY DEF TypeOK
    <3>2. [mapTxLockVotesOrphan EXCEPT ![n][v] = Absent]
            \in [Node -> [Vote -> {Absent} \cup 0 .. MaxTime]]
      BY <1>1, <3>1
    <3> QED
      BY <1>6, <3>1, <3>2
  <2>2. handler' \in [Node -> IdleHandler \cup BusyHandler]
    BY <1>0, <1>6 DEF TypeOK, Handler, IdleHandler, BusyHandler
  <2> QED
    BY <1>3, <1>5, <1>6, <2>1, <2>2 DEF TypeOK, RestTypeOK, requestVars, envVars
<1> QED
  BY <1>3, <1>7, TypeSplit, PTL

LEMMA FinishLockRequestType ==
  ASSUME TypeOK, NEW n \in Node, FinishLockRequest(n)
  PROVE  TypeOK'
<1>1. mapTxLockVotes[n] \in [Vote -> HeightType]
  BY DEF TypeOK, HeightType
<1>2. handler[n].at # "idle"
  BY DEF FinishLockRequest
<1>3. handler[n].tx \in Tx /\ handler[n].net \in Tx \cup {NoTx}
  BY <1>2, HandlerType DEF BusyHandler
<1>4. ChainTypeOK'
  BY <1>1, <1>3, TryToFinalizeType DEF FinishLockRequest
<1>5. RestTypeOK'
  BY <1>3 DEF FinishLockRequest, TypeOK, RestTypeOK, requestVars, envVars, Handler,
              IdleHandler, BusyHandler
<1> QED
  BY <1>4, <1>5, TypeSplit, PTL

LEMMA AcceptLockRequestType ==
  ASSUME TypeOK, NEW n \in Node, AcceptLockRequest(n)
  PROVE  TypeOK'
<1> DEFINE T == handler[n].net
           S == {X \in {T} : ~AlreadyHave(n, T) /\ Acceptable(n, T, mempool[n], chain[n])}
<1>1. T \in Tx
  BY HandlerType DEF AcceptLockRequest
<1>2. /\ mapTxLockVotes[n] \in [Vote -> HeightType]
      /\ chain[n] \in Seq(Block) /\ Len(chain[n]) <= MaxHeight
  BY DEF TypeOK, HeightType
<1>3. SyncTransaction(n, S, chain[n], mapMasternodeVotes[n], mapTxLockVotes[n])
  BY DEF AcceptLockRequest
<1>4. /\ mapTxLockCandidates' \in [Node -> [Tx -> HeightType]]
      /\ mapTxLockVotes' \in [Node -> [Vote -> HeightType]]
  BY <1>2, <1>3, SyncTransactionType
<1>5. ChainTypeOK'
  <2>1. /\ mempool' = [mempool EXCEPT ![n] = @ \cup S]
        /\ UNCHANGED <<chain, pCurrentBlockIndex, mapLockedOutpoints>>
    BY DEF AcceptLockRequest
  <2>2. S \subseteq Tx
    BY <1>1
  <2>3. /\ mempool \in [Node -> SUBSET Tx]
        /\ chain \in [Node -> Seq(Block)]
        /\ \A p \in Node : Len(chain[p]) <= MaxHeight
        /\ pCurrentBlockIndex \in [Node -> 0 .. MaxHeight]
        /\ mapLockedOutpoints \in [Node -> [Outpoint -> Tx \cup {NoTx}]]
    BY DEF TypeOK
  <2> HIDE DEF S
  <2>4. mempool' \in [Node -> SUBSET Tx]
    BY <2>1, <2>2, <2>3
  <2> QED
    BY <1>4, <2>1, <2>3, <2>4 DEF ChainTypeOK
<1>6. PICK rejected \in SUBSET {T} :
        mapLockRequestRejected' =
          [mapLockRequestRejected EXCEPT ![n] = @ \cup rejected]
  BY DEF AcceptLockRequest, Rejectable
<1>7. RestTypeOK'
  BY <1>1, <1>6 DEF AcceptLockRequest, TypeOK, RestTypeOK, envVars, Handler, Idle,
                    IdleHandler, BusyHandler
<1> QED
  BY <1>5, <1>7, TypeSplit, PTL

LEMMA RecvTxType ==
  ASSUME TypeOK, NEW n \in Node, NEW T \in Tx, RecvTx(n, T)
  PROVE  TypeOK'
<1>1. /\ mapTxLockVotes[n] \in [Vote -> HeightType]
      /\ chain[n] \in Seq(Block) /\ Len(chain[n]) <= MaxHeight
  BY DEF TypeOK, HeightType
<1>2. /\ mapTxLockCandidates' \in [Node -> [Tx -> HeightType]]
      /\ mapTxLockVotes' \in [Node -> [Vote -> HeightType]]
  BY <1>1, SyncTransactionType DEF RecvTx
<1>3. ChainTypeOK'
  BY <1>2 DEF RecvTx, TypeOK, ChainTypeOK
<1>4. RestTypeOK'
  BY DEF RecvTx, TypeOK, RestTypeOK, requestVars, envVars, IdleHandler, BusyHandler
<1> QED
  BY <1>3, <1>4, TypeSplit, PTL

LEMMA ActivateBestChainStepType ==
  ASSUME TypeOK, NEW n \in Node, NEW k \in 0 .. MaxReorg, k < Len(chain[n]),
         NEW bs \in BlocksOfLength(k + 1), ActivateBestChainStep(n, k, bs)
  PROVE  TypeOK'
<1> DEFINE chNew == Base(n, k) \o bs
           pool == PoolAfter(n, k)
           kept == {X \in pool : AllUnspent(chNew, X)}
<1>1. /\ mapTxLockVotes[n] \in [Vote -> HeightType]
      /\ chain[n] \in Seq(Block)
  BY DEF TypeOK, HeightType
<1>2. k \in 0 .. Len(chain[n])
  BY <1>1, ConstantsAssumption
<1>3. bs \in Seq(Block)
  BY ConstantsAssumption DEF BlocksOfLength
<1>4. chNew \in Seq(Block) /\ pool \subseteq Tx
  BY <1>2, <1>3, BaseAndPopped
<1>5. Len(chNew) <= MaxHeight
  BY DEF ActivateBestChainStep
<1> HIDE DEF chNew, pool
<1>6. /\ chain' = [chain EXCEPT ![n] = chNew]
      /\ mempool' = [mempool EXCEPT ![n] = kept]
      /\ SyncTransaction(n, TxsOf(Popped(n, k)) \cup TxsOf(bs) \cup (pool \ kept), chNew,
                         mapMasternodeVotes[n], mapTxLockVotes[n])
      /\ UNCHANGED <<requestVars, envVars, pCurrentBlockIndex, handler, sentVotes,
                     mapTxLockVotesOrphan, mapMasternodeVotes, mapVotedOutpoints,
                     mapLockedOutpoints, mapMasternodeOrphanVotes>>
  BY DEF ActivateBestChainStep, chNew, pool
<1>7. /\ mapTxLockCandidates' \in [Node -> [Tx -> HeightType]]
      /\ mapTxLockVotes' \in [Node -> [Vote -> HeightType]]
  BY <1>1, <1>4, <1>5, <1>6, SyncTransactionType
<1>8. ChainTypeOK'
  BY <1>4, <1>5, <1>6, <1>7 DEF TypeOK, ChainTypeOK
<1>9. RestTypeOK'
  BY <1>6 DEF TypeOK, RestTypeOK, requestVars, envVars, IdleHandler, BusyHandler
<1> QED
  BY <1>8, <1>9, TypeSplit, PTL

LEMMA CheckAndRemoveType ==
  ASSUME TypeOK, NEW n \in Node, CheckAndRemove(n)
  PROVE  TypeOK'
<1>1. ChainTypeOK'
  BY DEF CheckAndRemove, TypeOK, ChainTypeOK, HeightType, chainVars
<1>2. RestTypeOK'
  BY DEF CheckAndRemove, TypeOK, RestTypeOK, envVars, IdleHandler, BusyHandler
<1> QED
  BY <1>1, <1>2, TypeSplit, PTL

LEMMA RestartType ==
  ASSUME TypeOK, NEW n \in Node, Restart(n)
  PROVE  TypeOK'
<1>1. ChainTypeOK'
  BY ConstantsAssumption DEF Restart, TypeOK, ChainTypeOK, HeightType, EmptyMap
<1>2. RestTypeOK'
  BY ConstantsAssumption DEF Restart, TypeOK, RestTypeOK, EmptyMap, Idle, Handler, IdleHandler,
                             BusyHandler
<1> QED
  BY <1>1, <1>2, TypeSplit, PTL

\* The actions that change one or two variables.
LEMMA SmallActionsType ==
  ASSUME TypeOK,
         \/ \E n \in Node : UpdatedBlockTip(n) \/ \E m \in Masternode : AddMasternode(n, m)
         \/ \E m \in Masternode, T \in Tx : RemoteVote(m, T) \/ RemoteVoteAfterRestart(m, T)
         \/ Tick
  PROVE  TypeOK'
<1>1. CASE \E n \in Node : UpdatedBlockTip(n)
  BY <1>1, ConstantsAssumption DEF UpdatedBlockTip, TypeOK, requestVars, envVars
<1>2. CASE \E n \in Node : \E m \in Masternode : AddMasternode(n, m)
  BY <1>2 DEF AddMasternode, TypeOK, requestVars, chainVars
<1>3. CASE \E m \in Masternode, T \in Tx : RemoteVote(m, T)
  BY <1>3 DEF RemoteVote, TypeOK, requestVars, chainVars, envVars
<1>4. CASE \E m \in Masternode, T \in Tx : RemoteVoteAfterRestart(m, T)
  BY <1>4, ConstantsAssumption DEF RemoteVoteAfterRestart, TypeOK, requestVars, chainVars
<1>5. CASE Tick
  BY <1>5, ConstantsAssumption DEF Tick, TypeOK, requestVars, chainVars
<1> QED
  BY <1>1, <1>2, <1>3, <1>4, <1>5

LEMMA TypeStep ==
  ASSUME TypeOK, Next
  PROVE  TypeOK'
<1>1. CASE \E n \in Node, T \in Tx : RecvTxLockRequest(n, T) \/ LocalTxLockRequest(n, T)
  <2>1. PICK n \in Node, T \in Tx : RecvTxLockRequest(n, T) \/ LocalTxLockRequest(n, T)
    BY <1>1
  <2>2. /\ mapTxLockVotes[n] \in [Vote -> HeightType]
        /\ mapTxLockVotesOrphan[n] \in [Vote -> {Absent} \cup 0 .. MaxTime]
        /\ handler[n].net \in Tx \cup {NoTx}
    BY HandlerType DEF TypeOK, HeightType
  <2>3. \E net \in Tx \cup {NoTx} :
          StartLockRequest(n, T, mapTxLockVotes[n], mapTxLockVotesOrphan[n], net)
    BY <2>1, <2>2 DEF RecvTxLockRequest, LocalTxLockRequest
  <2> QED
    BY <2>2, <2>3, StartLockRequestType
<1>2. CASE \E n \in Node, T \in Tx : RecvTx(n, T)
  BY <1>2, RecvTxType
<1>3. CASE \E n \in Node : \E v \in sentVotes \cup Stray : RecvTxLockVote(n, v)
  BY <1>3, RecvTxLockVoteType
<1>4. CASE \E n \in Node : ProcessOrphanTxLockVotes(n)
  BY <1>4, ProcessOrphanTxLockVoteType DEF ProcessOrphanTxLockVotes
<1>5. CASE \E n \in Node : FinishLockRequest(n)
  BY <1>5, FinishLockRequestType
<1>6. CASE \E n \in Node : AcceptLockRequest(n)
  BY <1>6, AcceptLockRequestType
<1>7. CASE \E n \in Node : \E k \in 0 .. MaxReorg : k < Len(chain[n]) /\
             \E bs \in BlocksOfLength(k + 1) : ActivateBestChainStep(n, k, bs)
  BY <1>7, ActivateBestChainStepType
<1>8. CASE \E n \in Node : CheckAndRemove(n)
  BY <1>8, CheckAndRemoveType
<1>9. CASE \E n \in Node : Restart(n)
  BY <1>9, RestartType
<1>10. CASE \/ \E n \in Node : UpdatedBlockTip(n) \/ \E m \in Masternode : AddMasternode(n, m)
            \/ \E m \in Masternode, T \in Tx : RemoteVote(m, T) \/ RemoteVoteAfterRestart(m, T)
            \/ Tick
  BY <1>10, SmallActionsType
<1> QED
  BY <1>1, <1>2, <1>3, <1>4, <1>5, <1>6, <1>7, <1>8, <1>9, <1>10 DEF Next

\* Every variable has its type, for any number of nodes, masternodes and
\* transactions.
THEOREM TypeCorrect == Spec => []TypeOK
<1>1. Init => TypeOK
  <2>1. {} \in Block
    BY DEF Block
  <2>2. <<{}>> \in Seq(Block) /\ Len(<<{}>>) = 1
    BY <2>1
  <2> QED
    BY <2>2, ConstantsAssumption DEF Init, TypeOK, EmptyMap, Idle, Handler
<1>2. TypeOK /\ [Next]_vars => TypeOK'
  <2>1. CASE Next
    BY <2>1, TypeStep
  <2>2. CASE UNCHANGED vars
    BY <2>2 DEF vars, TypeOK
  <2> QED
    BY <2>1, <2>2
<1> QED
  BY <1>1, <1>2, PTL DEF Spec

-----------------------------------------------------------------------------
(* Quorums *)

\* The votes for one input of one transaction are told apart by the masternode,
\* so there are finitely many.
LEMMA VotesAreFinite ==
  ASSUME NEW T, NEW o, NEW S \in SUBSET {v \in Vote : v.tx = T /\ v.out = o}
  PROVE  IsFiniteSet(S)
<1> DEFINE f == [v \in S |-> v.mn]
<1>1. f \in [S -> Masternode]
  BY VoteFields
<1>2. ASSUME NEW v \in S, NEW w \in S, f[v] = f[w]
      PROVE  v = w
  BY <1>2 DEF Vote
<1>3. f \in Injection(S, Masternode)
  BY <1>1, <1>2 DEF Injection, IsInjective
<1> QED
  BY <1>3, FS_Injection, ConstantsAssumption

\* Further votes never undo a quorum.
LEMMA ReadyIsMonotone ==
  ASSUME NEW T \in Tx, NEW more \in SUBSET Vote, NEW vts \in SUBSET more,
         IsAllOutPointsReady(T, vts)
  PROVE  IsAllOutPointsReady(T, more)
<1> SUFFICES ASSUME NEW o \in Inputs[T]
             PROVE  Cardinality({v \in more : v.tx = T /\ v.out = o}) >= SIGNATURES_REQUIRED
  BY DEF IsAllOutPointsReady
<1> DEFINE A == {v \in vts : v.tx = T /\ v.out = o}
           B == {v \in more : v.tx = T /\ v.out = o}
<1>1. IsFiniteSet(B)
  BY VotesAreFinite
<1>2. A \in SUBSET B
  OBVIOUS
<1>3. Cardinality(A) <= Cardinality(B) /\ Cardinality(B) \in Nat /\ Cardinality(A) \in Nat
  BY <1>1, <1>2, FS_Subset, FS_CardinalityType
<1>4. Cardinality(A) >= SIGNATURES_REQUIRED
  BY DEF IsAllOutPointsReady
<1> QED
  BY <1>3, <1>4, QuorumAssumption

-----------------------------------------------------------------------------
(* Candidates and locks *)

\* The loop over the orphan votes works for a candidate: nothing expires while
\* it holds cs_instapay.
RunningCandidate ==
  \A n \in Node : handler[n].at = "orphans" => handler[n].tx \in Candidates(n)

LockInv ==
  /\ VotedOutpointHasCandidate
  /\ RunningCandidate
  /\ LockBackedByQuorum

\* The steps that neither vote for an outpoint nor begin a loop.
LEMMA CandidatesQuiet ==
  ASSUME VotedOutpointHasCandidate, RunningCandidate,
         \A p \in Node : Candidates(p)' = Candidates(p),
         UNCHANGED mapVotedOutpoints,
         \A p \in Node : handler'[p].at = "orphans" =>
                           handler[p].at = "orphans" /\ handler'[p].tx = handler[p].tx
  PROVE  (VotedOutpointHasCandidate /\ RunningCandidate)'
<1>1. \A p \in Node : Candidates(p)' = Candidates(p)
  OBVIOUS
<1> QED
  BY <1>1 DEF VotedOutpointHasCandidate, RunningCandidate

\* Candidates and votes only grow, and at most T's inputs are locked, with a quorum.
LEMMA LocksGrow ==
  ASSUME TypeOK, TypeOK', LockBackedByQuorum, NEW n \in Node, NEW T \in Tx,
         \A p \in Node : Candidates(p) \subseteq Candidates(p)',
         \A p \in Node : mapMasternodeVotes[p] \subseteq mapMasternodeVotes'[p],
         \/ UNCHANGED mapLockedOutpoints
         \/ /\ LockTransactionInputs(n, T)
            /\ T \in Candidates(n)'
            /\ IsAllOutPointsReady(T, mapMasternodeVotes'[n])
  PROVE  LockBackedByQuorum'
<1> SUFFICES ASSUME NEW p \in Node, NEW o \in Outpoint, mapLockedOutpoints'[p][o] # NoTx
             PROVE  /\ o \in Inputs[mapLockedOutpoints'[p][o]]
                    /\ mapLockedOutpoints'[p][o] \in Candidates(p)'
                    /\ IsAllOutPointsReady(mapLockedOutpoints'[p][o], mapMasternodeVotes'[p])
  BY DEF LockBackedByQuorum
<1> DEFINE X == mapLockedOutpoints[p][o]
<1>1. CASE X # NoTx /\ mapLockedOutpoints'[p][o] = X
  <2>1. o \in Inputs[X] /\ X \in Candidates(p) /\ IsAllOutPointsReady(X, mapMasternodeVotes[p])
    BY <1>1 DEF LockBackedByQuorum
  <2>2. X \in Tx
    BY <1>1 DEF TypeOK
  <2>3. mapMasternodeVotes'[p] \in SUBSET Vote
    BY DEF TypeOK, InputVote
  <2>4. IsAllOutPointsReady(X, mapMasternodeVotes'[p])
    BY <2>1, <2>2, <2>3, ReadyIsMonotone
  <2> QED
    BY <1>1, <2>1, <2>4
<1>2. CASE ~(X # NoTx /\ mapLockedOutpoints'[p][o] = X)
  <2>1. /\ LockTransactionInputs(n, T)
        /\ T \in Candidates(n)'
        /\ IsAllOutPointsReady(T, mapMasternodeVotes'[n])
    BY <1>2
  <2>2. p = n /\ o \in Inputs[T] /\ mapLockedOutpoints'[p][o] = T
    BY <1>2, <2>1 DEF LockTransactionInputs, TypeOK
  <2> QED
    BY <2>1, <2>2
<1> QED
  BY <1>1, <1>2

\* TryToFinalizeLockCandidate locks nothing without a quorum.
LEMMA TryToFinalizeLocks ==
  ASSUME NEW n, NEW T, NEW vts, NEW kn, TryToFinalizeLockCandidate(n, T, vts, kn)
  PROVE  \/ UNCHANGED mapLockedOutpoints
         \/ LockTransactionInputs(n, T) /\ IsAllOutPointsReady(T, vts)
BY DEF TryToFinalizeLockCandidate, ReplaceInMempool, DisconnectAndReactivate, Reactivate

LEMMA CountVoteInv ==
  ASSUME TypeOK, TypeOK', LockInv, NEW n \in Node, NEW v \in Vote,
         NEW kn \in [Vote -> HeightType], CountVote(n, v, kn), v.tx \in Candidates(n),
         \A p \in Node : handler'[p].at = "orphans" =>
                           handler[p].at = "orphans" /\ handler'[p].tx = handler[p].tx
  PROVE  LockInv'
<1>1. v.tx \in Tx /\ v.out \in Outpoint
  BY VoteFields
<1>2. \A p \in Node : Candidates(p)' = Candidates(p)
  BY CountVoteType
<1>3. mapVotedOutpoints' = [mapVotedOutpoints EXCEPT ![n][v.out] = @ \cup {v.tx}]
  BY DEF CountVote
<1>4. \/ UNCHANGED <<mapMasternodeVotes, mapLockedOutpoints>>
      \/ /\ mapMasternodeVotes' = [mapMasternodeVotes EXCEPT ![n] = @ \cup {v}]
         /\ TryToFinalizeLockCandidate(n, v.tx, mapMasternodeVotes[n] \cup {v}, kn)
  BY DEF CountVote
<1>5. \/ UNCHANGED mapLockedOutpoints
      \/ LockTransactionInputs(n, v.tx) /\ IsAllOutPointsReady(v.tx, mapMasternodeVotes'[n])
  <2>1. CASE UNCHANGED <<mapMasternodeVotes, mapLockedOutpoints>>
    BY <2>1
  <2>2. CASE /\ mapMasternodeVotes' = [mapMasternodeVotes EXCEPT ![n] = @ \cup {v}]
             /\ TryToFinalizeLockCandidate(n, v.tx, mapMasternodeVotes[n] \cup {v}, kn)
    <3>1. mapMasternodeVotes'[n] = mapMasternodeVotes[n] \cup {v}
      BY <2>2 DEF TypeOK
    <3> QED
      BY <2>2, <3>1, TryToFinalizeLocks
  <2> QED
    BY <1>4, <2>1, <2>2
<1>6. \A p \in Node : mapMasternodeVotes[p] \subseteq mapMasternodeVotes'[p]
  <2>1. \/ mapMasternodeVotes' = mapMasternodeVotes
        \/ mapMasternodeVotes' = [mapMasternodeVotes EXCEPT ![n] = mapMasternodeVotes[n] \cup {v}]
    BY <1>4
  <2>2. mapMasternodeVotes \in [Node -> SUBSET InputVote]
    BY DEF TypeOK
  <2> QED
    BY <2>1, <2>2
<1>7. LockBackedByQuorum'
  BY <1>1, <1>2, <1>5, <1>6, LocksGrow DEF LockInv
<1>8. VotedOutpointHasCandidate'
  <2>1. \A p \in Node, o \in Outpoint : \A X \in mapVotedOutpoints'[p][o] :
          X \in mapVotedOutpoints[p][o] \/ (p = n /\ o = v.out /\ X = v.tx)
    BY <1>1, <1>3 DEF TypeOK
  <2> QED
    BY <1>1, <1>2, <2>1 DEF LockInv, VotedOutpointHasCandidate
<1>9. RunningCandidate'
  BY <1>2 DEF LockInv, RunningCandidate
<1> QED
  BY <1>7, <1>8, <1>9 DEF LockInv

LEMMA IgnoreVoteInv ==
  ASSUME TypeOK, TypeOK', LockInv, NEW n \in Node,
         NEW kn \in [Vote -> HeightType], IgnoreVote(n, kn),
         \A p \in Node : handler'[p].at = "orphans" =>
                           handler[p].at = "orphans" /\ handler'[p].tx = handler[p].tx
  PROVE  LockInv'
<1>1. \A p \in Node : Candidates(p)' = Candidates(p)
  BY IgnoreVoteType
<1>2. UNCHANGED <<mapLockedOutpoints, mapMasternodeVotes, mapVotedOutpoints>>
  BY DEF IgnoreVote
<1>3. LockBackedByQuorum'
  BY <1>1, <1>2 DEF LockInv, LockBackedByQuorum
<1> QED
  BY <1>1, <1>2, <1>3, CandidatesQuiet DEF LockInv

\* CreateTxLockCandidate and Vote: T becomes a candidate before anything is
\* recorded for it.
LEMMA CreateAndVoteInv ==
  ASSUME TypeOK, TypeOK', LockInv, NEW n \in Node, NEW T \in Tx, NEW kn, NEW orph, NEW net,
         NEW outs, CreateAndVote(n, T, kn, orph, net, outs)
  PROVE  LockInv'
<1> DEFINE fresh == {v \in InputVote : v.tx = T /\ v.out \in outs /\ v.mn = MnOf[n]}
                    \ mapMasternodeVotes[n]
<1>1. /\ mapTxLockCandidates' =
           [mapTxLockCandidates EXCEPT ![n][T] = IF @ = Absent THEN Unconfirmed ELSE @]
      /\ mapMasternodeVotes' = [mapMasternodeVotes EXCEPT ![n] = @ \cup fresh]
      /\ mapVotedOutpoints' =
           [mapVotedOutpoints EXCEPT ![n] =
              [o \in Outpoint |->
                 IF \E v \in fresh : v.out = o THEN @[o] \cup {T} ELSE @[o]]]
      /\ handler' = [handler EXCEPT ![n] =
           Handler("orphans", T, {v \in Vote : orph[v] # Absent}, net)]
      /\ UNCHANGED mapLockedOutpoints
  BY DEF CreateAndVote
<1>2. /\ mapTxLockCandidates \in [Node -> [Tx -> HeightType]]
      /\ mapMasternodeVotes \in [Node -> SUBSET InputVote]
      /\ mapVotedOutpoints \in [Node -> [Outpoint -> SUBSET Tx]]
  BY DEF TypeOK, HeightType
<1>3. \A p \in Node : Candidates(p)' = IF p = n THEN Candidates(p) \cup {T} ELSE Candidates(p)
  BY <1>1, <1>2 DEF Candidates, Absent, Unconfirmed
<1>4. \A p \in Node : mapMasternodeVotes[p] \subseteq mapMasternodeVotes'[p]
  BY <1>1, <1>2
<1>5. LockBackedByQuorum'
  BY <1>1, <1>3, <1>4, LocksGrow DEF LockInv
<1>6. \A p \in Node, o \in Outpoint : \A X \in mapVotedOutpoints'[p][o] :
        X \in mapVotedOutpoints[p][o] \/ (p = n /\ X = T /\ \E v \in fresh : v.out = o)
  BY <1>1, <1>2
<1> HIDE DEF fresh
<1>8. VotedOutpointHasCandidate'
  BY <1>3, <1>6 DEF LockInv, VotedOutpointHasCandidate
<1>9. RunningCandidate'
  <2>1. \A p \in Node : p # n => handler'[p] = handler[p]
    BY <1>1 DEF TypeOK
  <2>2. handler'[n].tx = T
    BY <1>1 DEF TypeOK, Handler
  <2> QED
    BY <1>3, <2>1, <2>2 DEF LockInv, RunningCandidate
<1> QED
  BY <1>5, <1>8, <1>9 DEF LockInv

LEMMA StartLockRequestInv ==
  ASSUME TypeOK, TypeOK', LockInv, NEW n \in Node, NEW T \in Tx, NEW kn, NEW orph, NEW net,
         StartLockRequest(n, T, kn, orph, net)
  PROVE  LockInv'
BY CreateAndVoteInv DEF StartLockRequest

LEMMA RecvTxLockVoteInv ==
  ASSUME TypeOK, TypeOK', LockInv, NEW n \in Node, NEW v \in sentVotes \cup Stray,
         RecvTxLockVote(n, v)
  PROVE  LockInv'
<1> DEFINE kn == [mapTxLockVotes[n] EXCEPT ![v] = Unconfirmed]
           orph == [mapTxLockVotesOrphan[n] EXCEPT ![v] = now]
<1>1. v \in Vote /\ v.tx \in Tx /\ kn \in [Vote -> HeightType]
  BY VoteFields, RelayedVotes DEF TypeOK, HeightType
<1> HIDE DEF kn, orph
<1>2. \/ IgnoreVote(n, kn) /\ UNCHANGED handler
      \/ v.tx \in Candidates(n) /\ CountVote(n, v, kn) /\ UNCHANGED handler
      \/ StartLockRequest(n, v.tx, kn, orph, NoTx)
  BY DEF RecvTxLockVote, MayCount, kn, orph
<1>3. CASE IgnoreVote(n, kn) /\ UNCHANGED handler
  BY <1>1, <1>3, IgnoreVoteInv
<1>4. CASE v.tx \in Candidates(n) /\ CountVote(n, v, kn) /\ UNCHANGED handler
  BY <1>1, <1>4, CountVoteInv
<1>5. CASE StartLockRequest(n, v.tx, kn, orph, NoTx)
  BY <1>1, <1>5, StartLockRequestInv
<1> QED
  BY <1>2, <1>3, <1>4, <1>5

LEMMA ProcessOrphanTxLockVoteInv ==
  ASSUME TypeOK, TypeOK', LockInv, NEW n \in Node, NEW v \in handler[n].todo,
         ProcessOrphanTxLockVote(n, v)
  PROVE  LockInv'
<1> DEFINE kn == mapTxLockVotes[n]
<1>1. v \in Vote
  BY HandlerType DEF ProcessOrphanTxLockVote, BusyHandler
<1>2. kn \in [Vote -> HeightType]
  BY DEF TypeOK, HeightType
<1>3. \/ IgnoreVote(n, kn)
      \/ v.tx \in Candidates(n) /\ CountVote(n, v, kn)
  BY DEF ProcessOrphanTxLockVote, MayCount
<1>4. \A p \in Node : handler'[p].at = "orphans" =>
                        handler[p].at = "orphans" /\ handler'[p].tx = handler[p].tx
  BY DEF ProcessOrphanTxLockVote, Handler, TypeOK
<1> HIDE DEF kn
<1> QED
  BY <1>1, <1>2, <1>3, <1>4, IgnoreVoteInv, CountVoteInv

LEMMA FinishLockRequestInv ==
  ASSUME TypeOK, TypeOK', LockInv, NEW n \in Node, FinishLockRequest(n)
  PROVE  LockInv'
<1> DEFINE T == handler[n].tx
<1>1. T \in Tx /\ T \in Candidates(n)
  BY HandlerType DEF FinishLockRequest, LockInv, RunningCandidate, BusyHandler
<1>2. TryToFinalizeLockCandidate(n, T, mapMasternodeVotes[n], mapTxLockVotes[n])
  BY DEF FinishLockRequest
<1>3. \A p \in Node : Candidates(p)' = Candidates(p)
  BY <1>1, <1>2, TryToFinalizeType DEF TypeOK, HeightType
<1>4. UNCHANGED <<mapMasternodeVotes, mapVotedOutpoints>>
  BY DEF FinishLockRequest
<1>5. \/ UNCHANGED mapLockedOutpoints
      \/ LockTransactionInputs(n, T) /\ IsAllOutPointsReady(T, mapMasternodeVotes'[n])
  BY <1>2, <1>4, TryToFinalizeLocks
<1>6. \A p \in Node : handler'[p].at = "orphans" =>
                        handler[p].at = "orphans" /\ handler'[p].tx = handler[p].tx
  BY DEF FinishLockRequest, Handler, Idle, TypeOK
<1> HIDE DEF T
<1>7. LockBackedByQuorum'
  BY <1>1, <1>3, <1>4, <1>5, LocksGrow DEF LockInv
<1> QED
  BY <1>3, <1>4, <1>6, <1>7, CandidatesQuiet DEF LockInv

\* The steps that leave the candidates, their votes and the locks alone.
LEMMA QuietInv ==
  ASSUME LockInv,
         \A p \in Node : Candidates(p)' = Candidates(p),
         UNCHANGED <<mapMasternodeVotes, mapVotedOutpoints, mapLockedOutpoints>>,
         \A p \in Node : handler'[p].at = "orphans" =>
                           handler[p].at = "orphans" /\ handler'[p].tx = handler[p].tx
  PROVE  LockInv'
<1>1. \A p \in Node : Candidates(p)' = Candidates(p)
  OBVIOUS
<1>2. LockBackedByQuorum'
  BY <1>1 DEF LockInv, LockBackedByQuorum
<1> QED
  BY <1>1, <1>2, CandidatesQuiet DEF LockInv

LEMMA RecvTxCandidates ==
  ASSUME TypeOK, NEW n \in Node, NEW T \in Tx, RecvTx(n, T)
  PROVE  \A p \in Node : Candidates(p)' = Candidates(p)
<1>1. /\ mapTxLockVotes[n] \in [Vote -> HeightType]
      /\ chain[n] \in Seq(Block) /\ Len(chain[n]) <= MaxHeight
  BY DEF TypeOK, HeightType
<1> QED
  BY <1>1, SyncTransactionType DEF RecvTx

LEMMA RecvTxInv ==
  ASSUME TypeOK, LockInv, NEW n \in Node, NEW T \in Tx, RecvTx(n, T)
  PROVE  LockInv'
BY RecvTxCandidates, QuietInv DEF RecvTx

LEMMA AcceptLockRequestCandidates ==
  ASSUME TypeOK, NEW n \in Node, AcceptLockRequest(n)
  PROVE  \A p \in Node : Candidates(p)' = Candidates(p)
<1> DEFINE T == handler[n].net
           S == {X \in {T} : ~AlreadyHave(n, T) /\ Acceptable(n, T, mempool[n], chain[n])}
<1>1. /\ mapTxLockVotes[n] \in [Vote -> HeightType]
      /\ chain[n] \in Seq(Block) /\ Len(chain[n]) <= MaxHeight
  BY DEF TypeOK, HeightType
<1>2. SyncTransaction(n, S, chain[n], mapMasternodeVotes[n], mapTxLockVotes[n])
  BY DEF AcceptLockRequest
<1> HIDE DEF S
<1> QED
  BY <1>1, <1>2, SyncTransactionType

LEMMA AcceptLockRequestInv ==
  ASSUME TypeOK, LockInv, NEW n \in Node, AcceptLockRequest(n)
  PROVE  LockInv'
<1>1. /\ handler' = [handler EXCEPT ![n] = Idle]
      /\ UNCHANGED <<mapMasternodeVotes, mapVotedOutpoints, mapLockedOutpoints>>
  BY DEF AcceptLockRequest
<1>2. \A p \in Node : handler'[p].at = "orphans" =>
                        handler[p].at = "orphans" /\ handler'[p].tx = handler[p].tx
  BY <1>1 DEF TypeOK, Idle, Handler
<1> QED
  BY <1>1, <1>2, AcceptLockRequestCandidates, QuietInv

LEMMA ActivateCandidates ==
  ASSUME TypeOK, NEW n \in Node, NEW k \in 0 .. MaxReorg, k < Len(chain[n]),
         NEW bs \in BlocksOfLength(k + 1), ActivateBestChainStep(n, k, bs)
  PROVE  \A p \in Node : Candidates(p)' = Candidates(p)
<1> DEFINE chNew == Base(n, k) \o bs
           kept == {X \in PoolAfter(n, k) : AllUnspent(chNew, X)}
           S == TxsOf(Popped(n, k)) \cup TxsOf(bs) \cup (PoolAfter(n, k) \ kept)
<1>1. mapTxLockVotes[n] \in [Vote -> HeightType] /\ chain[n] \in Seq(Block)
  BY DEF TypeOK, HeightType
<1>2. k \in 0 .. Len(chain[n])
  BY <1>1, ConstantsAssumption
<1>3. bs \in Seq(Block)
  BY ConstantsAssumption DEF BlocksOfLength
<1>4. chNew \in Seq(Block)
  BY <1>2, <1>3, BaseAndPopped
<1>5. /\ Len(chNew) <= MaxHeight
      /\ SyncTransaction(n, S, chNew, mapMasternodeVotes[n], mapTxLockVotes[n])
  BY DEF ActivateBestChainStep
<1> HIDE DEF chNew, S
<1> QED
  BY <1>1, <1>4, <1>5, SyncTransactionType

LEMMA ActivateBestChainStepInv ==
  ASSUME TypeOK, LockInv, NEW n \in Node, NEW k \in 0 .. MaxReorg, k < Len(chain[n]),
         NEW bs \in BlocksOfLength(k + 1), ActivateBestChainStep(n, k, bs)
  PROVE  LockInv'
BY ActivateCandidates, QuietInv DEF ActivateBestChainStep

\* What expires takes its locks, its mentions and its votes with it.
LEMMA CheckAndRemoveInv ==
  ASSUME TypeOK, LockInv, NEW n \in Node, CheckAndRemove(n)
  PROVE  LockInv'
<1> DEFINE gone == ExpiredCandidates(n)
           freed == FreedOutpoints(n, gone)
<1>1. /\ mapLockedOutpoints' = [mapLockedOutpoints EXCEPT ![n] =
            [o \in Outpoint |-> IF o \in freed THEN NoTx ELSE @[o]]]
      /\ mapVotedOutpoints' = [mapVotedOutpoints EXCEPT ![n] =
            [o \in Outpoint |-> IF o \in freed THEN {} ELSE @[o]]]
      /\ mapTxLockCandidates' = [mapTxLockCandidates EXCEPT ![n] =
            [T \in Tx |-> IF T \in gone THEN Absent ELSE @[T]]]
      /\ mapMasternodeVotes' = [mapMasternodeVotes EXCEPT ![n] = {v \in @ : v.tx \notin gone}]
      /\ UNCHANGED handler
      /\ handler[n].at # "orphans"
  BY DEF CheckAndRemove, Unlocked
<1>2. /\ mapLockedOutpoints \in [Node -> [Outpoint -> Tx \cup {NoTx}]]
      /\ mapVotedOutpoints \in [Node -> [Outpoint -> SUBSET Tx]]
      /\ mapTxLockCandidates \in [Node -> [Tx -> HeightType]]
      /\ mapMasternodeVotes \in [Node -> SUBSET InputVote]
  BY DEF TypeOK, HeightType
<1>3. \A T \in gone : Inputs[T] \subseteq freed
  BY DEF FreedOutpoints
<1> HIDE DEF gone, freed
<1>4. \A p \in Node : Candidates(p)' = IF p = n THEN Candidates(p) \ gone ELSE Candidates(p)
  BY <1>1, <1>2 DEF Candidates
<1>5. \A p \in Node : p # n => /\ mapLockedOutpoints'[p] = mapLockedOutpoints[p]
                               /\ mapVotedOutpoints'[p] = mapVotedOutpoints[p]
                               /\ mapMasternodeVotes'[p] = mapMasternodeVotes[p]
  BY <1>1, <1>2
<1>6. /\ mapLockedOutpoints'[n] =
           [o \in Outpoint |-> IF o \in freed THEN NoTx ELSE mapLockedOutpoints[n][o]]
      /\ mapVotedOutpoints'[n] =
           [o \in Outpoint |-> IF o \in freed THEN {} ELSE mapVotedOutpoints[n][o]]
      /\ mapMasternodeVotes'[n] = {v \in mapMasternodeVotes[n] : v.tx \notin gone}
  BY <1>1, <1>2
<1>7. LockBackedByQuorum'
  <2> SUFFICES ASSUME NEW p \in Node, NEW o \in Outpoint, mapLockedOutpoints'[p][o] # NoTx
               PROVE  /\ o \in Inputs[mapLockedOutpoints'[p][o]]
                      /\ mapLockedOutpoints'[p][o] \in Candidates(p)'
                      /\ IsAllOutPointsReady(mapLockedOutpoints'[p][o], mapMasternodeVotes'[p])
    BY DEF LockBackedByQuorum
  <2> DEFINE X == mapLockedOutpoints[p][o]
  <2>1. mapLockedOutpoints'[p][o] = X /\ X # NoTx /\ (p = n => o \notin freed)
    BY <1>5, <1>6
  <2>2. o \in Inputs[X] /\ X \in Candidates(p) /\ IsAllOutPointsReady(X, mapMasternodeVotes[p])
    BY <2>1 DEF LockInv, LockBackedByQuorum
  <2>3. p = n => X \notin gone
    BY <1>3, <2>1, <2>2
  <2>4. ASSUME NEW q
        PROVE  {v \in mapMasternodeVotes'[p] : v.tx = X /\ v.out = q}
               = {v \in mapMasternodeVotes[p] : v.tx = X /\ v.out = q}
    BY <1>5, <1>6, <2>3
  <2>5. IsAllOutPointsReady(X, mapMasternodeVotes'[p])
    BY <2>2, <2>4 DEF IsAllOutPointsReady
  <2> QED
    BY <1>4, <2>1, <2>2, <2>3, <2>5
<1>8. VotedOutpointHasCandidate'
  <2>1. \A p \in Node, o \in Outpoint : \A X \in mapVotedOutpoints'[p][o] :
          X \in mapVotedOutpoints[p][o] /\ (p = n => o \notin freed)
    BY <1>5, <1>6
  <2>2. \A p \in Node, o \in Outpoint : \A X \in mapVotedOutpoints'[p][o] :
          o \in Inputs[X] => X \in Candidates(p) /\ (p = n => X \notin gone)
    BY <1>3, <2>1 DEF LockInv, VotedOutpointHasCandidate
  <2> QED
    BY <1>4, <2>2 DEF VotedOutpointHasCandidate
<1>9. RunningCandidate'
  BY <1>1, <1>4 DEF LockInv, RunningCandidate
<1> QED
  BY <1>7, <1>8, <1>9 DEF LockInv

LEMMA RestartInv ==
  ASSUME TypeOK, TypeOK', LockInv, NEW n \in Node, Restart(n)
  PROVE  LockInv'
<1>1. \A p \in Node : p # n => /\ mapLockedOutpoints'[p] = mapLockedOutpoints[p]
                               /\ mapVotedOutpoints'[p] = mapVotedOutpoints[p]
                               /\ mapMasternodeVotes'[p] = mapMasternodeVotes[p]
                               /\ mapTxLockCandidates'[p] = mapTxLockCandidates[p]
                               /\ handler'[p] = handler[p]
  BY DEF Restart, TypeOK
<1>2. /\ mapLockedOutpoints'[n] = [o \in Outpoint |-> NoTx]
      /\ mapVotedOutpoints'[n] = [o \in Outpoint |-> {}]
      /\ handler'[n] = Idle
  BY DEF Restart, TypeOK
<1>3. \A p \in Node : p # n => Candidates(p)' = Candidates(p)
  BY <1>1 DEF Candidates
<1>4. LockBackedByQuorum'
  BY <1>1, <1>2, <1>3 DEF LockInv, LockBackedByQuorum
<1>5. VotedOutpointHasCandidate'
  BY <1>1, <1>2, <1>3 DEF LockInv, VotedOutpointHasCandidate
<1>6. RunningCandidate'
  BY <1>1, <1>2, <1>3 DEF LockInv, RunningCandidate, Idle, Handler
<1> QED
  BY <1>4, <1>5, <1>6 DEF LockInv

LEMMA LockStep ==
  ASSUME TypeOK, LockInv, Next
  PROVE  LockInv'
<1>0. TypeOK'
  BY TypeStep
<1>1. CASE \E n \in Node, T \in Tx : RecvTxLockRequest(n, T) \/ LocalTxLockRequest(n, T)
  BY <1>0, <1>1, StartLockRequestInv DEF RecvTxLockRequest, LocalTxLockRequest
<1>2. CASE \E n \in Node : \E v \in sentVotes \cup Stray : RecvTxLockVote(n, v)
  BY <1>0, <1>2, RecvTxLockVoteInv
<1>3. CASE \E n \in Node : ProcessOrphanTxLockVotes(n)
  BY <1>0, <1>3, ProcessOrphanTxLockVoteInv DEF ProcessOrphanTxLockVotes
<1>4. CASE \E n \in Node : FinishLockRequest(n)
  BY <1>0, <1>4, FinishLockRequestInv
<1>5. CASE \E n \in Node :
             \/ \E T \in Tx : RecvTx(n, T)
             \/ AcceptLockRequest(n)
             \/ \E k \in 0 .. MaxReorg : k < Len(chain[n]) /\
                  \E bs \in BlocksOfLength(k + 1) : ActivateBestChainStep(n, k, bs)
  BY <1>5, RecvTxInv, AcceptLockRequestInv, ActivateBestChainStepInv
<1>6. CASE \E n \in Node : CheckAndRemove(n)
  BY <1>6, CheckAndRemoveInv
<1>7. CASE \E n \in Node : Restart(n)
  BY <1>0, <1>7, RestartInv
<1>8. CASE \/ \E n \in Node : UpdatedBlockTip(n) \/ \E m \in Masternode : AddMasternode(n, m)
           \/ \E m \in Masternode, T \in Tx : RemoteVote(m, T) \/ RemoteVoteAfterRestart(m, T)
           \/ Tick
  <2>1. UNCHANGED <<mapTxLockCandidates, mapMasternodeVotes, mapVotedOutpoints,
                    mapLockedOutpoints, handler>>
    BY <1>8 DEF UpdatedBlockTip, AddMasternode, RemoteVote, RemoteVoteAfterRestart, Tick
  <2>2. \A p \in Node : Candidates(p)' = Candidates(p)
    BY <2>1 DEF Candidates
  <2> QED
    BY <2>1, <2>2, QuietInv
<1> QED
  BY <1>1, <1>2, <1>3, <1>4, <1>5, <1>6, <1>7, <1>8 DEF Next

LEMMA LockInvariant == Spec => [](TypeOK /\ LockInv)
<1>1. Init => LockInv
  BY DEF Init, LockInv, VotedOutpointHasCandidate, RunningCandidate,
         LockBackedByQuorum, Idle, Handler
<1>2. TypeOK /\ LockInv /\ [Next]_vars => LockInv'
  <2>1. CASE Next
    BY <2>1, LockStep
  <2>2. CASE UNCHANGED vars
    BY <2>2 DEF vars, LockInv, VotedOutpointHasCandidate, RunningCandidate,
                LockBackedByQuorum, Candidates
  <2> QED
    BY <2>1, <2>2
<1> QED
  BY <1>1, <1>2, TypeCorrect, PTL DEF Spec

\* Every hash that mapVotedOutpoints holds for an input of its transaction has a
\* candidate, which Vote (l.203) and ProcessTxLockVote (l.336) take for granted. A hash
\* recorded for an outpoint that its transaction does not spend may outlive its candidate.
THEOREM VotedOutpointSafe == Spec => []VotedOutpointHasCandidate
BY LockInvariant, PTL DEF LockInv

\* No outpoint is ever locked without a candidate and SIGNATURES_REQUIRED
\* counted votes for each of its inputs, through expiry, reorganisation and
\* restart.
THEOREM LocksNeedQuorum == Spec => []LockBackedByQuorum
BY LockInvariant, PTL DEF LockInv

-----------------------------------------------------------------------------
(* Chains *)

\* No two blocks of the chain ch spend the same outpoint.
NoDoubleSpend(ch) ==
  \A i, j \in DOMAIN ch : \A X \in ch[i], Y \in ch[j] :
    i # j \/ X # Y => Inputs[X] \cap Inputs[Y] = {}

\* h is the height of the block of ch that holds T.
TrueHeight(ch, T, h) == h \in DOMAIN ch /\ T \in ch[h]

\* The two parts of a split chain, block by block.
LEMMA BaseBlocks ==
  ASSUME TypeOK, NEW n \in Node, NEW d \in 0 .. Len(chain[n])
  PROVE  /\ DOMAIN Base(n, d) = 1 .. Len(chain[n]) - d
         /\ DOMAIN chain[n] = 1 .. Len(chain[n])
         /\ Len(chain[n]) \in Nat
         /\ \A i \in DOMAIN Base(n, d) : i \in DOMAIN chain[n] /\ Base(n, d)[i] = chain[n][i]
<1>1. chain[n] \in Seq(Block)
  BY DEF TypeOK
<1> QED
  BY <1>1 DEF Base

LEMMA PoppedBlocks ==
  ASSUME TypeOK, NEW n \in Node, NEW d \in 0 .. Len(chain[n])
  PROVE  /\ DOMAIN Popped(n, d) = 1 .. d
         /\ \A i \in 1 .. d : Popped(n, d)[i] = chain[n][Len(chain[n]) - d + i]
<1>1. chain[n] \in Seq(Block)
  BY DEF TypeOK
<1> QED
  BY <1>1 DEF Popped

\* A disconnected block holds transactions of Popped, the others are in Base.
LEMMA BaseOrPopped ==
  ASSUME TypeOK, NEW n \in Node, NEW d \in 0 .. Len(chain[n]), NEW h \in DOMAIN chain[n]
  PROVE  \/ h \in 1 .. Len(chain[n]) - d
         \/ chain[n][h] \subseteq TxsOf(Popped(n, d))
<1>1. h \in 1 .. Len(chain[n]) /\ Len(chain[n]) \in Nat
  BY BaseBlocks
<1>2. CASE h > Len(chain[n]) - d
  <2> DEFINE i == h - (Len(chain[n]) - d)
  <2>1. i \in 1 .. d /\ Len(chain[n]) - d + i = h
    BY <1>1, <1>2
  <2>2. i \in DOMAIN Popped(n, d) /\ Popped(n, d)[i] = chain[n][h]
    BY <2>1, PoppedBlocks
  <2> QED
    BY <2>2 DEF TxsOf
<1> QED
  BY <1>1, <1>2

\* What is disconnected was connected.
LEMMA PoppedWasMined ==
  ASSUME TypeOK, NEW n \in Node, NEW d \in 0 .. Len(chain[n]), NEW X \in TxsOf(Popped(n, d))
  PROVE  Mined(chain[n], X)
<1>1. PICK i \in DOMAIN Popped(n, d) : X \in Popped(n, d)[i]
  BY DEF TxsOf
<1>2. i \in 1 .. d /\ Popped(n, d)[i] = chain[n][Len(chain[n]) - d + i]
  BY <1>1, PoppedBlocks
<1>3. Len(chain[n]) - d + i \in DOMAIN chain[n]
  BY <1>2, BaseBlocks
<1> QED
  BY <1>1, <1>2, <1>3 DEF Mined

\* A mined transaction has spent its inputs.
LEMMA MinedIsSpent ==
  ASSUME NEW ch, NEW X \in Tx, Mined(ch, X)
  PROVE  ~AllUnspent(ch, X)
<1>1. PICK o \in Inputs[X] : TRUE
  BY ConstantsAssumption
<1> QED
  BY <1>1 DEF Mined, AllUnspent, Spent

\* What is unspent on a chain is unspent on every shorter one.
LEMMA UnspentOnBase ==
  ASSUME TypeOK, NEW n \in Node, NEW d \in 0 .. Len(chain[n]), NEW T,
         AllUnspent(chain[n], T)
  PROVE  AllUnspent(Base(n, d), T)
BY BaseBlocks DEF AllUnspent, Spent

LEMMA BaseNoDoubleSpend ==
  ASSUME TypeOK, NEW n \in Node, NEW d \in 0 .. Len(chain[n]), NoDoubleSpend(chain[n])
  PROVE  NoDoubleSpend(Base(n, d))
<1> DEFINE ch == Base(n, d)
<1>1. \A i \in DOMAIN ch : i \in DOMAIN chain[n] /\ ch[i] = chain[n][i]
  BY BaseBlocks
<1> HIDE DEF ch
<1>2. NoDoubleSpend(ch)
  BY <1>1 DEF NoDoubleSpend
<1> QED
  BY <1>2 DEF ch

\* ConnectBlock refuses a block that spends what is spent: the chain that
\* connects bs to base holds no double spend.
LEMMA ConnectedNoDoubleSpend ==
  ASSUME NEW base \in Seq(Block), NEW bs \in Seq(Block), NoDoubleSpend(base),
         \A i \in DOMAIN bs : \A X \in bs[i] : AllUnspent(base \o SubSeq(bs, 1, i - 1), X)
  PROVE  NoDoubleSpend(base \o bs)
<1> DEFINE ch == base \o bs
           b == Len(base)
<1>1. /\ DOMAIN ch = 1 .. b + Len(bs)
      /\ DOMAIN base = 1 .. b /\ DOMAIN bs = 1 .. Len(bs)
      /\ b \in Nat /\ Len(bs) \in Nat
      /\ \A i \in 1 .. b : ch[i] = base[i]
      /\ \A i \in 1 .. Len(bs) : ch[b + i] = bs[i]
  OBVIOUS
<1>2. ASSUME NEW i \in DOMAIN ch, NEW j \in DOMAIN ch, i < j, NEW X \in ch[i], NEW Y \in ch[j]
      PROVE  Inputs[X] \cap Inputs[Y] = {}
  <2>0. i \in Int /\ j \in Int /\ (i <= b \/ i > b) /\ (j <= b \/ j > b)
    BY <1>1
  <2>1. CASE j <= b
    BY <1>1, <1>2, <2>1 DEF NoDoubleSpend
  <2>2. CASE j > b
    <3> DEFINE q == j - b
               pre == base \o SubSeq(bs, 1, q - 1)
    <3>1. q \in DOMAIN bs /\ q \in 1 .. Len(bs) /\ ch[j] = bs[q]
      BY <1>1, <2>2
    <3>2. AllUnspent(pre, Y)
      BY <1>2, <3>1
    <3>3. SubSeq(bs, 1, q - 1) \in Seq(Block) /\ Len(SubSeq(bs, 1, q - 1)) = q - 1
      BY <3>1
    <3>4. DOMAIN pre = 1 .. b + (q - 1)
      BY <1>1, <3>1, <3>3
    <3>5. i \in DOMAIN pre
      BY <1>1, <1>2, <3>4
    <3>6. pre[i] = ch[i]
      <4>1. CASE i <= b
        BY <1>1, <3>3, <4>1
      <4>2. CASE i > b
        <5>1. i - b \in 1 .. q - 1
          BY <1>1, <1>2, <4>2
        <5>2. pre[i] = SubSeq(bs, 1, q - 1)[i - b]
          BY <1>1, <3>3, <5>1
        <5>3. SubSeq(bs, 1, q - 1)[i - b] = bs[i - b]
          BY <3>1, <5>1
        <5>4. ch[i] = bs[i - b]
          BY <1>1, <3>1, <5>1
        <5> QED
          BY <5>2, <5>3, <5>4
      <4> QED
        BY <2>0, <4>1, <4>2
    <3>7. X \in pre[i]
      BY <3>6
    <3> HIDE DEF pre, q, ch
    <3> QED
      BY <3>2, <3>5, <3>7 DEF AllUnspent, Spent
  <2> QED
    BY <2>0, <2>1, <2>2
<1>3. \A i, j \in DOMAIN ch : i # j => i < j \/ j < i
  BY <1>1
<1>4. \A i \in DOMAIN ch : ch[i] \in Block
  OBVIOUS
<1> HIDE DEF ch
<1>5. NoDoubleSpend(ch)
  <2> SUFFICES ASSUME NEW i \in DOMAIN ch, NEW j \in DOMAIN ch, NEW X \in ch[i], NEW Y \in ch[j],
                      i # j \/ X # Y
               PROVE  Inputs[X] \cap Inputs[Y] = {}
    BY DEF NoDoubleSpend
  <2>1. CASE i = j
    BY <1>4, <2>1 DEF Block
  <2>2. CASE i # j
    BY <1>2, <1>3, <2>2
  <2> QED
    BY <2>1, <2>2
<1> QED
  BY <1>5 DEF ch

-----------------------------------------------------------------------------
(* One node *)

\* The chain spends nothing twice; the mempool fits the chain and itself; every
\* confirmed height is true.
NodeSound(n) ==
  /\ NoDoubleSpend(chain[n])
  /\ \A T \in mempool[n] : AllUnspent(chain[n], T) /\ Rivals(T, mempool[n]) = {}
  /\ \A T \in Candidates(n) :
       mapTxLockCandidates[n][T] # Unconfirmed
       => TrueHeight(chain[n], T, mapTxLockCandidates[n][T])

\* The mempool fits the locks.
NodeHonours(n) == \A T \in mempool[n] : ~LockedByOther(n, T)

\* What NodeSound and NodeHonours read at the nodes other than n stays as it is.
OthersUntouched(n) ==
  \A p \in Node \ {n} :
    /\ chain'[p] = chain[p] /\ mempool'[p] = mempool[p]
    /\ mapLockedOutpoints'[p] = mapLockedOutpoints[p]
    /\ mapTxLockCandidates'[p] = mapTxLockCandidates[p]

\* A step of node n leaves it sound, and its mempool honours the locks still, unless
\* the step makes the chain shorter.
StaysSound(n) ==
  /\ NodeSound(n)' /\ OthersUntouched(n)
  /\ NodeHonours(n) /\ Len(chain'[n]) >= Len(chain[n]) => NodeHonours(n)'

LEMMA UntouchedStaysSound ==
  ASSUME NEW p, NodeSound(p), chain'[p] = chain[p], mempool'[p] = mempool[p],
         mapLockedOutpoints'[p] = mapLockedOutpoints[p],
         mapTxLockCandidates'[p] = mapTxLockCandidates[p]
  PROVE  NodeSound(p)' /\ (NodeHonours(p) => NodeHonours(p)')
<1>1. Candidates(p)' = Candidates(p)
  BY DEF Candidates
<1>2. \A T : LockedByOther(p, T)' <=> LockedByOther(p, T)
  BY DEF LockedByOther
<1> QED
  BY <1>1, <1>2 DEF NodeSound, NodeHonours

\* DisconnectTip offers to the mempool only what fits the shorter chain, the
\* mempool and the locks.
LEMMA PoolAfterSound ==
  ASSUME TypeOK, NEW n \in Node, NodeSound(n), NEW d \in 0 .. Len(chain[n])
  PROVE  \A X \in PoolAfter(n, d) :
           /\ AllUnspent(Base(n, d), X)
           /\ Rivals(X, PoolAfter(n, d)) = {}
           /\ NodeHonours(n) => ~LockedByOther(n, X)
<1> DEFINE P == PoolAfter(n, d)
           new == {X \in TxsOf(Popped(n, d)) : Acceptable(n, X, mempool[n], Base(n, d))}
<1>1. P = mempool[n] \cup new
  BY DEF PoolAfter
<1>2. \A X \in new : Acceptable(n, X, mempool[n], Base(n, d)) /\ Mined(chain[n], X)
  BY PoppedWasMined
<1> HIDE DEF new
<1>3. ASSUME NEW X \in P
      PROVE  AllUnspent(Base(n, d), X) /\ (NodeHonours(n) => ~LockedByOther(n, X))
  <2>1. CASE X \in mempool[n]
    BY <2>1, UnspentOnBase DEF NodeSound, NodeHonours
  <2>2. CASE X \in new
    BY <1>2, <2>2 DEF Acceptable
  <2> QED
    BY <1>1, <2>1, <2>2
<1>4. ASSUME NEW X \in P, NEW Y \in P, Y # X
      PROVE  Inputs[Y] \cap Inputs[X] = {}
  <2>1. CASE X \in mempool[n] /\ Y \in mempool[n]
    BY <1>4, <2>1 DEF NodeSound, Rivals
  <2>2. CASE X \in new /\ Y \in mempool[n]
    BY <1>2, <1>4, <2>2 DEF Acceptable, Rivals
  <2>3. CASE X \in mempool[n] /\ Y \in new
    BY <1>2, <1>4, <2>3 DEF Acceptable, Rivals
  <2>4. CASE X \in new /\ Y \in new
    <3>1. PICK i \in DOMAIN chain[n] : X \in chain[n][i]
      BY <1>2, <2>4 DEF Mined
    <3>2. PICK j \in DOMAIN chain[n] : Y \in chain[n][j]
      BY <1>2, <2>4 DEF Mined
    <3> QED
      BY <1>4, <3>1, <3>2 DEF NodeSound, NoDoubleSpend
  <2> QED
    BY <1>1, <2>1, <2>2, <2>3, <2>4
<1>5. \A X \in P : Rivals(X, P) = {}
  BY <1>4 DEF Rivals
<1> QED
  BY <1>3, <1>5

\* SyncTransaction for S on the chain ch: the heights of the candidates are
\* true on ch if those outside S are.
LEMMA SyncTransactionHeights ==
  ASSUME TypeOK, NEW n \in Node, NEW S, NEW ch, NEW vts, NEW kn,
         SyncTransaction(n, S, ch, vts, kn),
         \A T \in Candidates(n) \ S :
           mapTxLockCandidates[n][T] # Unconfirmed
           => TrueHeight(ch, T, mapTxLockCandidates[n][T])
  PROVE  /\ \A T \in Candidates(n)' :
              mapTxLockCandidates'[n][T] # Unconfirmed
              => TrueHeight(ch, T, mapTxLockCandidates'[n][T])
         /\ \A p \in Node \ {n} : mapTxLockCandidates'[p] = mapTxLockCandidates[p]
<1>1. mapTxLockCandidates \in [Node -> [Tx -> HeightType]]
  BY DEF TypeOK, HeightType
<1>2. mapTxLockCandidates' =
        [mapTxLockCandidates EXCEPT ![n] =
           [T \in Tx |-> IF T \in S \cap Candidates(n) THEN HeightIn(ch, T) ELSE @[T]]]
  BY DEF SyncTransaction
<1>3. \A T \in Tx : mapTxLockCandidates'[n][T] =
        IF T \in S \cap Candidates(n) THEN HeightIn(ch, T) ELSE mapTxLockCandidates[n][T]
  BY <1>1, <1>2
<1>4. \A T : HeightIn(ch, T) # Unconfirmed => TrueHeight(ch, T, HeightIn(ch, T))
  BY DEF HeightIn, Mined, TrueHeight
<1>5. ASSUME NEW T \in Candidates(n)', mapTxLockCandidates'[n][T] # Unconfirmed
      PROVE  TrueHeight(ch, T, mapTxLockCandidates'[n][T])
  <2>1. T \in Tx /\ mapTxLockCandidates'[n][T] # Absent
    BY DEF Candidates
  <2>2. CASE T \in S \cap Candidates(n)
    BY <1>3, <1>4, <1>5, <2>1, <2>2
  <2>3. CASE T \notin S \cap Candidates(n)
    <3>1. mapTxLockCandidates'[n][T] = mapTxLockCandidates[n][T]
      BY <1>3, <2>1, <2>3
    <3>2. T \in Candidates(n) \ S
      BY <2>1, <2>3, <3>1 DEF Candidates
    <3> QED
      BY <1>5, <3>1, <3>2
  <2> QED
    BY <2>2, <2>3
<1> QED
  BY <1>1, <1>2, <1>5

\* A lock for T takes nothing from a transaction that is no rival of T.
LEMMA LockKeepsHonour ==
  ASSUME TypeOK, NEW n \in Node, NEW T \in Tx, LockTransactionInputs(n, T),
         NEW X, ~LockedByOther(n, X), X = T \/ Inputs[X] \cap Inputs[T] = {},
         Inputs[X] \subseteq Outpoint
  PROVE  ~LockedByOther(n, X)'
<1>1. \A o \in Outpoint : mapLockedOutpoints'[n][o] =
        IF o \in Inputs[T] /\ mapLockedOutpoints[n][o] = NoTx THEN T ELSE mapLockedOutpoints[n][o]
  BY DEF TypeOK, LockTransactionInputs
<1> QED
  BY <1>1 DEF LockedByOther

LEMMA LockTouchesOneNode ==
  ASSUME TypeOK, NEW n \in Node, NEW T, LockTransactionInputs(n, T)
  PROVE  \A p \in Node \ {n} : mapLockedOutpoints'[p] = mapLockedOutpoints[p]
BY DEF TypeOK, LockTransactionInputs

-----------------------------------------------------------------------------
(* TryToFinalizeLockCandidate *)

\* When ActivateBestChain connects everything again, a rival that a disconnected block
\* brought to the mempool is mined again.
LEMMA RivalIsReconnected ==
  ASSUME TypeOK, NEW n \in Node, NEW T \in Tx, Rivals(T, mempool[n]) = {},
         NEW d \in 0 .. Len(chain[n]), NEW X \in Rivals(T, PoolAfter(n, d))
  PROVE  ~AllUnspent(Base(n, 0), X)
<1>1. X \in PoolAfter(n, d) /\ X \notin mempool[n] /\ X \in Tx
  BY BaseAndPopped DEF Rivals
<1>2. X \in TxsOf(Popped(n, d))
  BY <1>1 DEF PoolAfter
<1>3. ~AllUnspent(chain[n], X)
  BY <1>1, <1>2, PoppedWasMined, MinedIsSpent
<1>4. Base(n, 0) = chain[n]
  BY DEF Base, TypeOK
<1> QED
  BY <1>3, <1>4

\* ResolveConflicts on a transaction whose inputs are spent in the chain.
LEMMA DisconnectAndReactivateSound ==
  ASSUME TypeOK, NEW n \in Node, NodeSound(n), NEW T \in Tx, NEW vts, NEW kn,
         Rivals(T, mempool[n]) = {}, ~LockedByOther(n, T),
         DisconnectAndReactivate(n, T, vts, kn)
  PROVE  StaysSound(n)
<1>a. PICK d \in DisconnectDepth(n, T) :
        \E k \in Reconnectable(n, Popped(n, d)) : Reactivate(n, T, vts, kn, d, k)
  BY DEF DisconnectAndReactivate
<1>b. PICK k \in Reconnectable(n, Popped(n, d)) : Reactivate(n, T, vts, kn, d, k)
  BY <1>a
<1> DEFINE chNew == Base(n, d - k)
           P     == PoolAfter(n, d)
           pool  == PoolReplaced(n, T, d)
           S     == TxsOf(Popped(n, d)) \cup (pool \ mempool[n])
<1>1. d \in 0 .. Len(chain[n]) /\ Len(chain[n]) \in Nat /\ d <= nInstaPayKeepLock
  BY BaseBlocks DEF DisconnectDepth
<1>2. k \in 0 .. d
  BY <1>1, BaseAndPopped DEF Reconnectable
<1>3. d - k \in 0 .. Len(chain[n])
  BY <1>1, <1>2
<1>4. /\ chain' = [chain EXCEPT ![n] = chNew]
      /\ mempool' = [mempool EXCEPT ![n] = {X \in pool : AllUnspent(chNew, X)}]
      /\ SyncTransaction(n, S, chNew, vts, kn)
      /\ LockTransactionInputs(n, T)
  BY <1>b DEF Reactivate
<1>5. chain'[n] = chNew /\ mempool'[n] = {X \in pool : AllUnspent(chNew, X)}
  BY <1>4 DEF TypeOK
<1>6. \A X \in P : /\ Rivals(X, P) = {} /\ X \in Tx
                   /\ NodeHonours(n) => ~LockedByOther(n, X)
  BY <1>1, PoolAfterSound, BaseAndPopped
<1>7. NoDoubleSpend(chNew)
  BY <1>3, BaseNoDoubleSpend DEF NodeSound
<1>8. \A X \in pool : X \in P \/ X = T
  BY DEF PoolReplaced
<1>9. \A X \in pool : Rivals(X, pool) = {}
  <2>1. CASE d < nInstaPayKeepLock /\ Rivals(T, P) # {}
    <3>1. \A X \in pool : X = T \/ (X \in P /\ X \notin Rivals(T, P))
      BY <2>1 DEF PoolReplaced
    <3> HIDE DEF P, pool
    <3>2. ASSUME NEW X \in pool, NEW Y \in pool, X # Y
          PROVE  Inputs[Y] \cap Inputs[X] = {}
      BY <1>6, <3>1, <3>2 DEF Rivals
    <3> QED
      BY <3>2 DEF Rivals
  <2>2. CASE ~(d < nInstaPayKeepLock /\ Rivals(T, P) # {})
    <3>1. pool = P
      BY <2>2 DEF PoolReplaced
    <3> QED
      BY <1>6, <3>1
  <2> QED
    BY <2>1, <2>2
<1>10. ASSUME Len(chain'[n]) >= Len(chain[n])
       PROVE  \A X \in pool : AllUnspent(chNew, X) => X = T \/ Inputs[X] \cap Inputs[T] = {}
  <2>1. CASE d < nInstaPayKeepLock /\ Rivals(T, P) # {}
    <3>1. \A X \in pool : X = T \/ (X \in P /\ X \notin Rivals(T, P))
      BY <2>1 DEF PoolReplaced
    <3> QED
      BY <3>1 DEF Rivals
  <2>2. CASE ~(d < nInstaPayKeepLock /\ Rivals(T, P) # {})
    <3>1. pool = P
      BY <2>2 DEF PoolReplaced
    <3>2. Len(chNew) = Len(chain[n]) - (d - k)
      BY <1>3, BaseAndPopped
    <3>3. d - k = 0
      BY <1>1, <1>2, <1>5, <1>10, <3>2
    <3>4. \A X \in Rivals(T, P) : ~AllUnspent(chNew, X)
      BY <1>1, <3>3, RivalIsReconnected
    <3> QED
      BY <3>1, <3>4 DEF Rivals
  <2> QED
    BY <2>1, <2>2
<1>11. \A C \in Candidates(n) \ S :
         mapTxLockCandidates[n][C] # Unconfirmed
         => TrueHeight(chNew, C, mapTxLockCandidates[n][C])
  <2> SUFFICES ASSUME NEW C \in Candidates(n) \ S, mapTxLockCandidates[n][C] # Unconfirmed
               PROVE  TrueHeight(chNew, C, mapTxLockCandidates[n][C])
    OBVIOUS
  <2> DEFINE h == mapTxLockCandidates[n][C]
  <2>1. h \in DOMAIN chain[n] /\ C \in chain[n][h]
    BY DEF NodeSound, TrueHeight
  <2>2. C \notin TxsOf(Popped(n, d))
    OBVIOUS
  <2> HIDE DEF h
  <2>3. h \in 1 .. Len(chain[n]) - d
    BY <1>1, <2>1, <2>2, BaseOrPopped
  <2>4. h \in 1 .. Len(chain[n]) - (d - k)
    BY <1>1, <1>2, <2>3
  <2> QED
    BY <1>3, <2>1, <2>4, BaseBlocks DEF TrueHeight, h
<1> HIDE DEF S
<1>12. /\ \A C \in Candidates(n)' :
            mapTxLockCandidates'[n][C] # Unconfirmed
            => TrueHeight(chNew, C, mapTxLockCandidates'[n][C])
       /\ \A p \in Node \ {n} : mapTxLockCandidates'[p] = mapTxLockCandidates[p]
  BY <1>4, <1>11, SyncTransactionHeights
<1> HIDE DEF pool, chNew, P
<1>13. ASSUME NodeHonours(n), Len(chain'[n]) >= Len(chain[n])
       PROVE  NodeHonours(n)'
  <2> SUFFICES ASSUME NEW X \in mempool'[n]
               PROVE  ~LockedByOther(n, X)'
    BY DEF NodeHonours
  <2>1. X \in pool /\ AllUnspent(chNew, X)
    BY <1>5
  <2>2. ~LockedByOther(n, X) /\ X \in Tx
    BY <1>6, <1>8, <1>13, <2>1
  <2>3. Inputs[X] \subseteq Outpoint
    BY <2>2, ConstantsAssumption
  <2> QED
    BY <1>4, <1>10, <1>13, <2>1, <2>2, <2>3, LockKeepsHonour
<1>14. \A X \in mempool'[n] : AllUnspent(chain'[n], X) /\ Rivals(X, mempool'[n]) = {}
  BY <1>5, <1>9 DEF Rivals
<1>15. NodeSound(n)'
  BY <1>5, <1>7, <1>12, <1>14 DEF NodeSound
<1>16. OthersUntouched(n)
  BY <1>4, <1>12, LockTouchesOneNode DEF OthersUntouched, TypeOK
<1> QED
  BY <1>13, <1>15, <1>16 DEF StaysSound

\* ResolveConflicts with a rival in the mempool.
LEMMA ReplaceInMempoolSound ==
  ASSUME TypeOK, NEW n \in Node, NodeSound(n), NEW T \in Tx, NEW vts, NEW kn,
         ReplaceInMempool(n, T, vts, kn)
  PROVE  StaysSound(n)
<1> DEFINE pool == mempool[n] \ Rivals(T, mempool[n])
<1>1. chain' = chain
  BY DEF ReplaceInMempool
<1>2. CASE Acceptable(n, T, pool, chain[n])
  <2>1. /\ mempool' = [mempool EXCEPT ![n] = pool \cup {T}]
        /\ SyncTransaction(n, {T}, chain[n], vts, kn)
        /\ LockTransactionInputs(n, T)
    BY <1>2 DEF ReplaceInMempool
  <2>2. mempool'[n] = pool \cup {T}
    BY <2>1 DEF TypeOK
  <2>3. AllUnspent(chain[n], T) /\ ~LockedByOther(n, T)
    BY <1>2 DEF Acceptable
  <2>4. \A X \in pool : X \in mempool[n] /\ X \in Tx /\ (X = T \/ Inputs[X] \cap Inputs[T] = {})
    BY DEF Rivals, TypeOK
  <2>5. \A X \in mempool'[n] : AllUnspent(chain[n], X) /\ Rivals(X, mempool'[n]) = {}
    BY <2>2, <2>3, <2>4 DEF NodeSound, Rivals
  <2> HIDE DEF pool
  <2>6. ASSUME NodeHonours(n)
        PROVE  NodeHonours(n)'
    <3> SUFFICES ASSUME NEW X \in mempool'[n]
                 PROVE  ~LockedByOther(n, X)'
      BY DEF NodeHonours
    <3>1. ~LockedByOther(n, X) /\ X \in Tx /\ (X = T \/ Inputs[X] \cap Inputs[T] = {})
      BY <2>2, <2>3, <2>4, <2>6 DEF NodeHonours
    <3>2. Inputs[X] \subseteq Outpoint
      BY <3>1, ConstantsAssumption
    <3> QED
      BY <2>1, <3>1, <3>2, LockKeepsHonour
  <2>7. /\ \A C \in Candidates(n)' :
             mapTxLockCandidates'[n][C] # Unconfirmed
             => TrueHeight(chain[n], C, mapTxLockCandidates'[n][C])
        /\ \A p \in Node \ {n} : mapTxLockCandidates'[p] = mapTxLockCandidates[p]
    BY <2>1, SyncTransactionHeights DEF NodeSound
  <2>8. NodeSound(n)'
    BY <1>1, <2>5, <2>7 DEF NodeSound
  <2>9. OthersUntouched(n)
    BY <1>1, <2>1, <2>7, LockTouchesOneNode DEF OthersUntouched, TypeOK
  <2> QED
    BY <2>6, <2>8, <2>9 DEF StaysSound
<1>3. CASE ~Acceptable(n, T, pool, chain[n])
  <2>1. /\ mempool' = [mempool EXCEPT ![n] = pool]
        /\ UNCHANGED <<mapTxLockCandidates, mapLockedOutpoints>>
    BY <1>3 DEF ReplaceInMempool, NoSync
  <2>2. mempool'[n] = pool
    BY <2>1 DEF TypeOK
  <2>3. Candidates(n)' = Candidates(n) /\ \A X : LockedByOther(n, X)' <=> LockedByOther(n, X)
    BY <2>1 DEF Candidates, LockedByOther
  <2>4. \A X \in mempool'[n] : X \in mempool[n] /\ Rivals(X, mempool'[n]) = {}
    BY <2>2 DEF NodeSound, Rivals
  <2>5. NodeSound(n)' /\ (NodeHonours(n) => NodeHonours(n)')
    BY <1>1, <2>1, <2>3, <2>4 DEF NodeSound, NodeHonours
  <2>6. OthersUntouched(n)
    BY <1>1, <2>1 DEF OthersUntouched, TypeOK
  <2> QED
    BY <2>5, <2>6 DEF StaysSound
<1> QED
  BY <1>2, <1>3

LEMMA TryToFinalizeSound ==
  ASSUME TypeOK, NEW n \in Node, NodeSound(n), NEW T \in Tx, NEW vts, NEW kn,
         TryToFinalizeLockCandidate(n, T, vts, kn)
  PROVE  StaysSound(n)
<1> DEFINE Quiet  == UNCHANGED <<chain, mempool, mapLockedOutpoints, mapTxLockCandidates>>
           Locked == /\ Rivals(T, mempool[n]) = {}
                     /\ UNCHANGED <<chain, mempool, mapTxLockCandidates>>
                     /\ LockTransactionInputs(n, T)
           Reorg  == /\ Rivals(T, mempool[n]) = {} /\ ~LockedByOther(n, T)
                     /\ DisconnectAndReactivate(n, T, vts, kn)
<1>1. Quiet \/ ReplaceInMempool(n, T, vts, kn) \/ Locked \/ Reorg
  BY DEF TryToFinalizeLockCandidate, NoSync, chainVars
<1>2. CASE Quiet
  BY <1>2, UntouchedStaysSound DEF OthersUntouched, StaysSound
<1>3. CASE Locked
  <2>1. ASSUME NodeHonours(n)
        PROVE  NodeHonours(n)'
    <3> SUFFICES ASSUME NEW X \in mempool[n]
                 PROVE  ~LockedByOther(n, X)'
      BY <1>3 DEF NodeHonours
    <3>1. X \in Tx /\ Inputs[X] \subseteq Outpoint /\ ~LockedByOther(n, X)
      BY <2>1, ConstantsAssumption DEF TypeOK, NodeHonours
    <3>2. X = T \/ Inputs[X] \cap Inputs[T] = {}
      BY <1>3 DEF Rivals
    <3> QED
      BY <1>3, <3>1, <3>2, LockKeepsHonour
  <2>2. Candidates(n)' = Candidates(n)
    BY <1>3 DEF Candidates
  <2>3. NodeSound(n)'
    BY <1>3, <2>2 DEF NodeSound
  <2> QED
    BY <1>3, <2>1, <2>3, LockTouchesOneNode DEF OthersUntouched, StaysSound
<1>4. CASE Reorg
  BY <1>4, DisconnectAndReactivateSound
<1> QED
  BY <1>1, <1>2, <1>3, <1>4, ReplaceInMempoolSound

-----------------------------------------------------------------------------
(* The actions *)

LEMMA CountVoteSound ==
  ASSUME TypeOK, NEW n \in Node, NodeSound(n), NEW v \in Vote, NEW kn, CountVote(n, v, kn)
  PROVE  StaysSound(n)
<1>1. v.tx \in Tx
  BY VoteFields
<1>2. CASE ~AddVote(n, v)
  <2>1. UNCHANGED <<chain, mempool, mapLockedOutpoints, mapTxLockCandidates>>
    BY <1>2 DEF CountVote, NoSync, chainVars
  <2> QED
    BY <2>1, UntouchedStaysSound DEF OthersUntouched, StaysSound
<1>3. CASE AddVote(n, v)
  BY <1>1, <1>3, TryToFinalizeSound DEF CountVote
<1> QED
  BY <1>2, <1>3

LEMMA IgnoreVoteSound ==
  ASSUME NEW n \in Node, NodeSound(n), NEW kn, IgnoreVote(n, kn)
  PROVE  StaysSound(n)
BY UntouchedStaysSound DEF IgnoreVote, NoSync, chainVars, OthersUntouched, StaysSound

\* A new candidate has no confirmed height yet.
LEMMA StartLockRequestSound ==
  ASSUME TypeOK, NEW n \in Node, NodeSound(n), NEW T \in Tx, NEW kn, NEW orph, NEW net,
         StartLockRequest(n, T, kn, orph, net)
  PROVE  StaysSound(n)
<1>1. /\ mapTxLockCandidates' =
           [mapTxLockCandidates EXCEPT ![n][T] = IF @ = Absent THEN Unconfirmed ELSE @]
      /\ UNCHANGED <<chain, mempool, mapLockedOutpoints>>
  BY DEF StartLockRequest, CreateAndVote, chainVars
<1>2. mapTxLockCandidates \in [Node -> [Tx -> HeightType]]
  BY DEF TypeOK, HeightType
<1>3. \A C \in Candidates(n)' :
        \/ mapTxLockCandidates'[n][C] = Unconfirmed
        \/ C \in Candidates(n) /\ mapTxLockCandidates'[n][C] = mapTxLockCandidates[n][C]
  BY <1>1, <1>2 DEF Candidates
<1>4. \A X : LockedByOther(n, X)' <=> LockedByOther(n, X)
  BY <1>1 DEF LockedByOther
<1>5. NodeSound(n)' /\ (NodeHonours(n) => NodeHonours(n)')
  BY <1>1, <1>3, <1>4 DEF NodeSound, NodeHonours
<1> QED
  BY <1>1, <1>2, <1>5 DEF OthersUntouched, StaysSound

LEMMA RecvTxLockVoteSound ==
  ASSUME TypeOK, NEW n \in Node, NodeSound(n), NEW v \in sentVotes \cup Stray,
         RecvTxLockVote(n, v)
  PROVE  StaysSound(n)
<1> DEFINE kn == [mapTxLockVotes[n] EXCEPT ![v] = Unconfirmed]
           orph == [mapTxLockVotesOrphan[n] EXCEPT ![v] = now]
<1>1. v \in Vote /\ v.tx \in Tx
  BY VoteFields, RelayedVotes
<1>2. IgnoreVote(n, kn) \/ CountVote(n, v, kn) \/ StartLockRequest(n, v.tx, kn, orph, NoTx)
  BY DEF RecvTxLockVote
<1> HIDE DEF kn, orph
<1> QED
  BY <1>1, <1>2, IgnoreVoteSound, CountVoteSound, StartLockRequestSound

LEMMA ProcessOrphanTxLockVoteSound ==
  ASSUME TypeOK, NEW n \in Node, NodeSound(n), NEW v \in handler[n].todo,
         ProcessOrphanTxLockVote(n, v)
  PROVE  StaysSound(n)
<1>1. v \in Vote
  BY HandlerType DEF ProcessOrphanTxLockVote, BusyHandler
<1>2. IgnoreVote(n, mapTxLockVotes[n]) \/ CountVote(n, v, mapTxLockVotes[n])
  BY DEF ProcessOrphanTxLockVote
<1> QED
  BY <1>1, <1>2, IgnoreVoteSound, CountVoteSound

LEMMA FinishLockRequestSound ==
  ASSUME TypeOK, NEW n \in Node, NodeSound(n), FinishLockRequest(n)
  PROVE  StaysSound(n)
<1>1. handler[n].tx \in Tx
  BY HandlerType DEF FinishLockRequest, BusyHandler
<1> QED
  BY <1>1, TryToFinalizeSound DEF FinishLockRequest

\* AcceptToMemoryPool, when it accepts the transactions of S.
LEMMA MempoolGrowsSound ==
  ASSUME TypeOK, NEW n \in Node, NodeSound(n), NEW T \in Tx, NEW S \in SUBSET {T},
         S # {} => Acceptable(n, T, mempool[n], chain[n]),
         mempool' = [mempool EXCEPT ![n] = @ \cup S],
         NEW vts, NEW kn, SyncTransaction(n, S, chain[n], vts, kn),
         UNCHANGED <<chain, mapLockedOutpoints>>
  PROVE  StaysSound(n)
<1>1. mempool'[n] = mempool[n] \cup S
  BY DEF TypeOK
<1>2. \A X : LockedByOther(n, X)' <=> LockedByOther(n, X)
  BY DEF LockedByOther
<1>3. /\ \A C \in Candidates(n)' :
           mapTxLockCandidates'[n][C] # Unconfirmed
           => TrueHeight(chain[n], C, mapTxLockCandidates'[n][C])
      /\ \A p \in Node \ {n} : mapTxLockCandidates'[p] = mapTxLockCandidates[p]
  BY SyncTransactionHeights DEF NodeSound
<1>4. \A X \in S : /\ X = T /\ AllUnspent(chain[n], T) /\ ~LockedByOther(n, T)
                   /\ Rivals(T, mempool[n]) = {}
  BY DEF Acceptable
<1>5. ASSUME NEW X \in mempool'[n], NEW Y \in mempool'[n], Y # X
      PROVE  Inputs[Y] \cap Inputs[X] = {}
  <2>1. CASE X \in mempool[n] /\ Y \in mempool[n]
    BY <1>5, <2>1 DEF NodeSound, Rivals
  <2>2. CASE X \in S /\ Y \in mempool[n]
    BY <1>4, <1>5, <2>2 DEF Rivals
  <2>3. CASE X \in mempool[n] /\ Y \in S
    BY <1>4, <1>5, <2>3 DEF Rivals
  <2>4. CASE X \in S /\ Y \in S
    BY <1>4, <1>5, <2>4
  <2> QED
    BY <1>1, <1>5, <2>1, <2>2, <2>3, <2>4
<1>6. \A X \in mempool'[n] : Rivals(X, mempool'[n]) = {}
  BY <1>5 DEF Rivals
<1>7. \A X \in mempool'[n] : AllUnspent(chain[n], X)
  BY <1>1, <1>4 DEF NodeSound
<1>8. NodeSound(n)'
  BY <1>3, <1>6, <1>7 DEF NodeSound
<1>9. NodeHonours(n) => NodeHonours(n)'
  BY <1>1, <1>2, <1>4 DEF NodeHonours
<1>10. OthersUntouched(n)
  BY <1>3 DEF OthersUntouched, TypeOK
<1> QED
  BY <1>8, <1>9, <1>10 DEF StaysSound

LEMMA AcceptLockRequestSound ==
  ASSUME TypeOK, NEW n \in Node, NodeSound(n), AcceptLockRequest(n)
  PROVE  StaysSound(n)
<1> DEFINE T == handler[n].net
           S == {X \in {T} : ~AlreadyHave(n, T) /\ Acceptable(n, T, mempool[n], chain[n])}
<1>1. T \in Tx
  BY HandlerType DEF AcceptLockRequest
<1>2. /\ mempool' = [mempool EXCEPT ![n] = @ \cup S]
      /\ SyncTransaction(n, S, chain[n], mapMasternodeVotes[n], mapTxLockVotes[n])
      /\ UNCHANGED <<chain, mapLockedOutpoints>>
  BY DEF AcceptLockRequest
<1>3. S \in SUBSET {T} /\ (S # {} => Acceptable(n, T, mempool[n], chain[n]))
  OBVIOUS
<1> HIDE DEF T, S
<1> QED
  BY <1>1, <1>2, <1>3, MempoolGrowsSound

LEMMA RecvTxSound ==
  ASSUME TypeOK, NEW n \in Node, NodeSound(n), NEW T \in Tx, RecvTx(n, T)
  PROVE  StaysSound(n)
<1>1. /\ Acceptable(n, T, mempool[n], chain[n])
      /\ mempool' = [mempool EXCEPT ![n] = @ \cup {T}]
      /\ SyncTransaction(n, {T}, chain[n], mapMasternodeVotes[n], mapTxLockVotes[n])
      /\ UNCHANGED <<chain, mapLockedOutpoints>>
  BY DEF RecvTx
<1>2. {T} \in SUBSET {T}
  OBVIOUS
<1> QED
  BY <1>1, <1>2, MempoolGrowsSound

LEMMA ActivateBestChainStepSound ==
  ASSUME TypeOK, NEW n \in Node, NodeSound(n), NEW k \in 0 .. MaxReorg, k < Len(chain[n]),
         NEW bs \in BlocksOfLength(k + 1), ActivateBestChainStep(n, k, bs)
  PROVE  StaysSound(n)
<1> DEFINE chNew == Base(n, k) \o bs
           pool == PoolAfter(n, k)
           kept == {X \in pool : AllUnspent(chNew, X)}
           S == TxsOf(Popped(n, k)) \cup TxsOf(bs) \cup (pool \ kept)
<1>1. k \in 0 .. Len(chain[n])
  BY ConstantsAssumption DEF TypeOK
<1>2. bs \in Seq(Block)
  BY ConstantsAssumption DEF BlocksOfLength
<1>3. Base(n, k) \in Seq(Block) /\ Len(Base(n, k)) = Len(chain[n]) - k
  BY <1>1, BaseAndPopped
<1>4. /\ Connectable(n, Base(n, k), bs)
      /\ chain' = [chain EXCEPT ![n] = chNew]
      /\ mempool' = [mempool EXCEPT ![n] = kept]
      /\ SyncTransaction(n, S, chNew, mapMasternodeVotes[n], mapTxLockVotes[n])
      /\ UNCHANGED mapLockedOutpoints
  BY DEF ActivateBestChainStep
<1>5. chain'[n] = chNew /\ mempool'[n] = kept
  BY <1>4 DEF TypeOK
<1>6. NoDoubleSpend(chNew)
  <2>1. NoDoubleSpend(Base(n, k))
    BY <1>1, BaseNoDoubleSpend DEF NodeSound
  <2> QED
    BY <1>2, <1>3, <1>4, <2>1, ConnectedNoDoubleSpend DEF Connectable
<1>7. \A X \in pool : Rivals(X, pool) = {} /\ (NodeHonours(n) => ~LockedByOther(n, X))
  BY <1>1, PoolAfterSound
<1>8. \A X \in kept : /\ AllUnspent(chNew, X) /\ Rivals(X, kept) = {}
                      /\ NodeHonours(n) => ~LockedByOther(n, X)
  BY <1>7 DEF Rivals
<1>9. \A C \in Candidates(n) \ S :
        mapTxLockCandidates[n][C] # Unconfirmed
        => TrueHeight(chNew, C, mapTxLockCandidates[n][C])
  <2> SUFFICES ASSUME NEW C \in Candidates(n) \ S, mapTxLockCandidates[n][C] # Unconfirmed
               PROVE  TrueHeight(chNew, C, mapTxLockCandidates[n][C])
    OBVIOUS
  <2> DEFINE h == mapTxLockCandidates[n][C]
  <2>1. h \in DOMAIN chain[n] /\ C \in chain[n][h]
    BY DEF NodeSound, TrueHeight
  <2>2. C \notin TxsOf(Popped(n, k))
    OBVIOUS
  <2> HIDE DEF h
  <2>3. h \in 1 .. Len(chain[n]) - k
    BY <1>1, <2>1, <2>2, BaseOrPopped
  <2>4. h \in DOMAIN Base(n, k) /\ C \in Base(n, k)[h]
    BY <1>1, <2>1, <2>3, BaseBlocks
  <2>5. h \in DOMAIN chNew /\ chNew[h] = Base(n, k)[h]
    BY <1>2, <1>3, <2>4
  <2> QED
    BY <2>4, <2>5 DEF TrueHeight, h
<1> HIDE DEF S, kept, chNew
<1>10. /\ \A C \in Candidates(n)' :
            mapTxLockCandidates'[n][C] # Unconfirmed
            => TrueHeight(chNew, C, mapTxLockCandidates'[n][C])
       /\ \A p \in Node \ {n} : mapTxLockCandidates'[p] = mapTxLockCandidates[p]
  BY <1>4, <1>9, SyncTransactionHeights
<1>11. \A X : LockedByOther(n, X)' <=> LockedByOther(n, X)
  BY <1>4 DEF LockedByOther
<1>12. NodeSound(n)'
  BY <1>5, <1>6, <1>8, <1>10 DEF NodeSound
<1>13. NodeHonours(n) => NodeHonours(n)'
  BY <1>5, <1>8, <1>11 DEF NodeHonours
<1>14. OthersUntouched(n)
  BY <1>4, <1>10 DEF OthersUntouched, TypeOK
<1> QED
  BY <1>12, <1>13, <1>14 DEF StaysSound

\* Expiry only frees outpoints and drops candidates.
LEMMA CheckAndRemoveSound ==
  ASSUME TypeOK, NEW n \in Node, NodeSound(n), CheckAndRemove(n)
  PROVE  StaysSound(n)
<1> DEFINE gone == ExpiredCandidates(n)
           freed == FreedOutpoints(n, gone)
<1>1. /\ mapLockedOutpoints' = [mapLockedOutpoints EXCEPT ![n] =
            [o \in Outpoint |-> IF o \in freed THEN NoTx ELSE @[o]]]
      /\ mapTxLockCandidates' = [mapTxLockCandidates EXCEPT ![n] =
            [T \in Tx |-> IF T \in gone THEN Absent ELSE @[T]]]
      /\ UNCHANGED <<chain, mempool>>
  BY DEF CheckAndRemove, chainVars
<1>2. /\ mapLockedOutpoints \in [Node -> [Outpoint -> Tx \cup {NoTx}]]
      /\ mapTxLockCandidates \in [Node -> [Tx -> HeightType]]
  BY DEF TypeOK, HeightType
<1> HIDE DEF gone, freed
<1>3. \A C \in Candidates(n)' :
        C \in Candidates(n) /\ mapTxLockCandidates'[n][C] = mapTxLockCandidates[n][C]
  BY <1>1, <1>2 DEF Candidates
<1>4. \A o \in Outpoint : mapLockedOutpoints'[n][o] \in {NoTx, mapLockedOutpoints[n][o]}
  BY <1>1, <1>2
<1>5. \A X \in Tx : LockedByOther(n, X)' => LockedByOther(n, X)
  BY <1>4, ConstantsAssumption DEF LockedByOther
<1>6. mempool[n] \subseteq Tx
  BY DEF TypeOK
<1>7. NodeSound(n)' /\ (NodeHonours(n) => NodeHonours(n)')
  BY <1>1, <1>3, <1>5, <1>6 DEF NodeSound, NodeHonours
<1> QED
  BY <1>1, <1>2, <1>7 DEF OthersUntouched, StaysSound

LEMMA RestartSound ==
  ASSUME TypeOK, NEW n \in Node, NodeSound(n), Restart(n)
  PROVE  StaysSound(n)
<1>1. OthersUntouched(n)
  BY DEF Restart, OthersUntouched, TypeOK
<1>2. /\ mempool'[n] = {} /\ chain'[n] = chain[n]
      /\ mapTxLockCandidates'[n] = EmptyMap(Tx)
  BY DEF Restart, TypeOK
<1>3. Candidates(n)' = {}
  BY <1>2 DEF Candidates, EmptyMap
<1>4. NodeSound(n)' /\ NodeHonours(n)'
  BY <1>2, <1>3 DEF NodeSound, NodeHonours
<1> QED
  BY <1>1, <1>4 DEF StaysSound

ChainInv == \A n \in Node : NodeSound(n)

\* What ResolveConflicts disconnects, ActivateBestChain connects again: no step makes a
\* chain shorter. A block that spends another locked outpoint breaks it.
ChainsNeverShrink == \A n \in Node : Len(chain'[n]) >= Len(chain[n])

LEMMA ChainStep ==
  ASSUME TypeOK, ChainInv, Next
  PROVE  /\ ChainInv'
         /\ ChainsNeverShrink /\ MempoolHonoursLocks => MempoolHonoursLocks'
<1> DEFINE Goal == /\ ChainInv'
                   /\ ChainsNeverShrink /\ MempoolHonoursLocks => MempoolHonoursLocks'
<1> SUFFICES Goal
  OBVIOUS
<1>1. ASSUME NEW n \in Node, StaysSound(n)
      PROVE  Goal
  <2>1. \A p \in Node \ {n} : NodeSound(p)' /\ (NodeHonours(p) => NodeHonours(p)')
    BY <1>1, UntouchedStaysSound DEF ChainInv, OthersUntouched, StaysSound
  <2>2. ChainInv'
    BY <1>1, <2>1 DEF ChainInv, StaysSound
  <2>3. ASSUME ChainsNeverShrink, \A p \in Node : NodeHonours(p)
        PROVE  \A p \in Node : NodeHonours(p)'
    BY <1>1, <2>1, <2>3 DEF ChainsNeverShrink, StaysSound
  <2> QED
    BY <2>2, <2>3 DEF MempoolHonoursLocks, NodeHonours
<1> HIDE DEF Goal
<1>2. CASE \E n \in Node, T \in Tx : RecvTxLockRequest(n, T) \/ LocalTxLockRequest(n, T)
  BY <1>1, <1>2, StartLockRequestSound DEF ChainInv, RecvTxLockRequest, LocalTxLockRequest
<1>3. CASE \E n \in Node : \E v \in sentVotes \cup Stray : RecvTxLockVote(n, v)
  BY <1>1, <1>3, RecvTxLockVoteSound DEF ChainInv
<1>4. CASE \E n \in Node : ProcessOrphanTxLockVotes(n)
  BY <1>1, <1>4, ProcessOrphanTxLockVoteSound DEF ChainInv, ProcessOrphanTxLockVotes
<1>5. CASE \E n \in Node : FinishLockRequest(n)
  BY <1>1, <1>5, FinishLockRequestSound DEF ChainInv
<1>6. CASE \E n \in Node : AcceptLockRequest(n) \/ \E T \in Tx : RecvTx(n, T)
  BY <1>1, <1>6, AcceptLockRequestSound, RecvTxSound DEF ChainInv
<1>7. CASE \E n \in Node : \E k \in 0 .. MaxReorg : k < Len(chain[n]) /\
             \E bs \in BlocksOfLength(k + 1) : ActivateBestChainStep(n, k, bs)
  BY <1>1, <1>7, ActivateBestChainStepSound DEF ChainInv
<1>8. CASE \E n \in Node : CheckAndRemove(n) \/ Restart(n)
  BY <1>1, <1>8, CheckAndRemoveSound, RestartSound DEF ChainInv
<1>9. CASE \/ \E n \in Node : UpdatedBlockTip(n) \/ \E m \in Masternode : AddMasternode(n, m)
           \/ \E m \in Masternode, T \in Tx : RemoteVote(m, T) \/ RemoteVoteAfterRestart(m, T)
           \/ Tick
  <2>1. UNCHANGED <<chain, mempool, mapLockedOutpoints, mapTxLockCandidates>>
    BY <1>9 DEF UpdatedBlockTip, AddMasternode, RemoteVote, RemoteVoteAfterRestart, Tick,
                chainVars
  <2>2. \A p \in Node : NodeSound(p)' /\ (NodeHonours(p) => NodeHonours(p)')
    BY <2>1, UntouchedStaysSound DEF ChainInv
  <2> QED
    BY <2>2 DEF Goal, ChainInv, MempoolHonoursLocks, NodeHonours
<1> QED
  BY <1>2, <1>3, <1>4, <1>5, <1>6, <1>7, <1>8, <1>9 DEF Next

LEMMA ChainInvariant == Spec => [](TypeOK /\ ChainInv)
<1>1. Init => ChainInv
  <2> SUFFICES ASSUME Init, NEW n \in Node
               PROVE  NodeSound(n)
    BY DEF ChainInv
  <2>1. /\ chain[n] = <<{}>> /\ mempool[n] = {}
        /\ mapTxLockCandidates[n] = EmptyMap(Tx)
    BY DEF Init
  <2>2. Candidates(n) = {}
    BY <2>1 DEF Candidates, EmptyMap
  <2> QED
    BY <2>1, <2>2 DEF NodeSound, NoDoubleSpend
<1>2. TypeOK /\ ChainInv /\ [Next]_vars => ChainInv'
  <2>1. CASE Next
    BY <2>1, ChainStep
  <2>2. CASE UNCHANGED vars
    BY <2>2, UntouchedStaysSound DEF vars, ChainInv
  <2> QED
    BY <2>1, <2>2
<1> QED
  BY <1>1, <1>2, TypeCorrect, PTL DEF Spec

-----------------------------------------------------------------------------

\* Removals of rivals, reorganisations and the reactivation of the chain leave
\* no transaction in the mempool that the chain or another one contradicts.
THEOREM MempoolStaysConsistent == Spec => []MempoolConsistent
<1>1. ChainInv => MempoolConsistent
  BY DEF ChainInv, NodeSound, MempoolConsistent
<1> QED
  BY <1>1, ChainInvariant, PTL

\* The mempool contradicts no completed lock, in every behaviour in which
\* ActivateBestChain connects again what ResolveConflicts disconnected, with spork 3 on or
\* off: not even when a lock completes in the middle of a reorganisation that offers
\* rivals to the mempool. A block that stays disconnected may leave one there.
THEOREM MempoolHonoursLocksWhileChainsGrow ==
  Spec /\ [][ChainsNeverShrink]_vars => []MempoolHonoursLocks
<1>1. Init => MempoolHonoursLocks
  BY DEF Init, MempoolHonoursLocks
<1>2. TypeOK /\ ChainInv /\ MempoolHonoursLocks /\ [Next]_vars /\ [ChainsNeverShrink]_vars
      => MempoolHonoursLocks'
  <2>1. CASE UNCHANGED vars
    BY <2>1 DEF vars, MempoolHonoursLocks, LockedByOther
  <2>2. ASSUME TypeOK, ChainInv, MempoolHonoursLocks, Next, ChainsNeverShrink
        PROVE  MempoolHonoursLocks'
    BY <2>2, ChainStep
  <2> QED
    BY <2>1, <2>2
<1> QED
  BY <1>1, <1>2, ChainInvariant, PTL DEF Spec

\* SyncTransaction misses no block that a reorganisation disconnects: the height
\* CheckAndRemove compares with the tip is the height of the transaction's block.
THEOREM HeightsStayTrue == Spec => []ConfirmedHeightIsTrue
<1>1. ChainInv => ConfirmedHeightIsTrue
  BY DEF ChainInv, NodeSound, TrueHeight, ConfirmedHeightIsTrue
<1> QED
  BY <1>1, ChainInvariant, PTL

=============================================================================
