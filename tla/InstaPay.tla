------------------------------- MODULE InstaPay -------------------------------
(***************************************************************************)
(* InstaPay (src/2018/Jiaozi-new/src/instapay.cpp): masternodes vote for   *)
(* the transaction that may spend an outpoint, and a node that counts      *)
(* SIGNATURES_REQUIRED votes for every input of a transaction treats those *)
(* inputs as locked.                                                       *)
(*                                                                         *)
(* Every variable of CInstaPay is a function of the node that holds it.    *)
(* A std::map is a total function that is Absent outside the map's keys.   *)
(* The network is the set of all votes ever relayed: a node may receive    *)
(* any of them at any time, in any order, or never.                        *)
(*                                                                         *)
(* ProcessTxLockRequest loops over the orphan votes while it holds cs_main *)
(* and cs_instapay; "handler" is its program counter, one step handles one *)
(* vote, and no other code of the node runs until the loop has ended.  The *)
(* message thread gives both locks up before it goes on to the mempool,    *)
(* and RPC or the wallet may call ProcessTxLockRequest in between.         *)
(*                                                                         *)
(* Masternodes sign what CInstaPay::Vote signs, but a node checks less: a  *)
(* vote may name an outpoint that its transaction does not spend (Stray).  *)
(*                                                                         *)
(* An operator whose name extends that of the definition after it (such as *)
(* IsExpiredEvenUnconfirmed) is that definition with a plausible bug.  No  *)
(* specification uses it; the model checker must notice the difference.    *)
(***************************************************************************)
EXTENDS Integers, Sequences, FiniteSets, FiniteSetsExt

CONSTANTS
  Node,                  \* the modelled nodes
  Masternode,            \* the masternodes
  Tx,                    \* transactions announced as lock requests or mined
  Outpoint,              \* mature outpoints, unspent when the behaviour starts
  NoTx,                  \* no transaction (an unlocked outpoint)
  NoMn,                  \* "this node is not a masternode"
  MnOf,                  \* [Node -> Masternode \cup {NoMn}], activeMasternode.vin
  Inputs,                \* [Tx -> set of outpoints], vin
  Stray,                 \* votes on the network for an outpoint their Tx does not spend
  TopRank,               \* [Outpoint -> the masternodes ranked within SIGNATURES_TOTAL]
  KnownAtStart,          \* the masternodes every node's list holds initially
  SIGNATURES_REQUIRED,   \* COutPointLock
  SIGNATURES_TOTAL,      \* COutPointLock
  ORPHAN_VOTE_SECONDS,   \* CInstaPay, life of an orphan vote
  ORPHAN_RATE_SECONDS,   \* the 60*10 of ProcessTxLockVote
  nInstaPayKeepLock,     \* consensus parameter
  BLOCK_FILTERING,       \* spork 3 is active
  MaxHeight, MaxTime, MaxRestarts, MaxReorg   \* bounds

ASSUME QuorumAssumption ==
  /\ SIGNATURES_REQUIRED \in Nat /\ SIGNATURES_TOTAL \in Nat
  /\ 2 * SIGNATURES_REQUIRED > SIGNATURES_TOTAL
  /\ \A o \in Outpoint : Cardinality(TopRank[o]) <= SIGNATURES_TOTAL

ASSUME ConstantsAssumption ==
  /\ IsFiniteSet(Masternode)
  /\ NoTx \notin Tx /\ NoMn \notin Masternode
  /\ MnOf \in [Node -> Masternode \cup {NoMn}]
  /\ Inputs \in [Tx -> (SUBSET Outpoint) \ {{}}]
  /\ TopRank \in [Outpoint -> SUBSET Masternode]
  /\ KnownAtStart \subseteq Masternode
  /\ ORPHAN_VOTE_SECONDS \in Nat /\ ORPHAN_RATE_SECONDS \in Nat
  /\ nInstaPayKeepLock \in Nat \ {0}
  /\ BLOCK_FILTERING \in BOOLEAN
  /\ MaxHeight \in Nat \ {0} /\ MaxTime \in Nat
  /\ MaxRestarts \in Nat /\ MaxReorg \in Nat

VARIABLES
  mapLockRequestAccepted,   \* [Node -> SUBSET Tx]
  mapLockRequestRejected,   \* [Node -> SUBSET Tx]
  mapTxLockVotes,           \* [Node -> [Vote -> nConfirmedHeight or Absent]]
  mapTxLockVotesOrphan,     \* [Node -> [Vote -> nTimeCreated or Absent]]
  mapTxLockCandidates,      \* [Node -> [Tx -> nConfirmedHeight or Absent]]
  mapMasternodeVotes,       \* [Node -> votes counted in the candidates' outpoint locks]
  mapVotedOutpoints,        \* [Node -> [Outpoint -> SUBSET Tx]]
  mapLockedOutpoints,       \* [Node -> [Outpoint -> Tx or NoTx]]
  mapMasternodeOrphanVotes, \* [Node -> [Masternode -> time or Absent]]
  pCurrentBlockIndex,       \* [Node -> height of the last notified tip, 0 for NULL]
  mnList,                   \* [Node -> SUBSET Masternode], mnodeman
  mempool,                  \* [Node -> SUBSET Tx]
  chain,                    \* [Node -> Seq(Block)], the transactions of each block
  handler,                  \* [Node -> where ProcessTxLockRequest and its caller are]
  sentVotes,                \* votes relayed so far, by anyone
  now,                      \* GetTime()
  restarts                  \* restarts so far

requestVars == <<mapLockRequestAccepted, mapLockRequestRejected>>
chainVars == <<mempool, chain, pCurrentBlockIndex>>
envVars == <<mnList, now, restarts>>

vars == <<mapLockRequestAccepted, mapLockRequestRejected, mapTxLockVotes,
          mapTxLockVotesOrphan, mapTxLockCandidates, mapMasternodeVotes,
          mapVotedOutpoints, mapLockedOutpoints, mapMasternodeOrphanVotes,
          pCurrentBlockIndex, mnList, mempool, chain, handler, sentVotes,
          now, restarts>>

-----------------------------------------------------------------------------
(* Values *)

Absent == -2        \* not a key of the map
Unconfirmed == -1   \* nConfirmedHeight of a transaction in no block

\* A vote's hash is a function of these three fields, so the record stands for the
\* hash too. Nothing compares the outpoint with the inputs of the transaction.
Vote == [tx : Tx, out : Outpoint, mn : Masternode]

\* The votes that a candidate has a place for.
InputVote == {v \in Vote : v.out \in Inputs[v.tx]}

ASSUME StrayAssumption == Stray \subseteq Vote \ InputVote

\* What a block spends, it spends once.
Block == {b \in SUBSET Tx : \A X, Y \in b : X # Y => Inputs[X] \cap Inputs[Y] = {}}

\* The loop is for T; net is the request that the message thread has still to offer to
\* the mempool, or NoTx.
Handler(at, T, todo, net) == [at |-> at, tx |-> T, todo |-> todo, net |-> net]

Idle == Handler("idle", NoTx, {}, NoTx)

\* A NotAKey map: nothing is stored under any element of S.
EmptyMap(S) == [x \in S |-> Absent]

-----------------------------------------------------------------------------
(* Reading the state *)

Candidates(n) == {T \in Tx : mapTxLockCandidates[n][T] # Absent}

OrphanVotes(n) == {v \in Vote : mapTxLockVotesOrphan[n][v] # Absent}

\* pcoinsTip has no unspent coin for o on the chain ch.
Spent(ch, o) == \E i \in DOMAIN ch : \E X \in ch[i] : o \in Inputs[X]

AllUnspent(ch, T) == \A o \in Inputs[T] : ~Spent(ch, o)

Mined(ch, T) == \E i \in DOMAIN ch : T \in ch[i]

\* The transactions of a sequence of blocks.
TxsOf(ch) == UNION {ch[i] : i \in DOMAIN ch}

HeightIn(ch, T) == IF Mined(ch, T) THEN CHOOSE i \in DOMAIN ch : T \in ch[i]
                                   ELSE Unconfirmed

Rivals(T, S) == {X \in S \ {T} : Inputs[X] \cap Inputs[T] # {}}

LockedByOther(n, T) == \E o \in Inputs[T] : mapLockedOutpoints[n][o] \notin {NoTx, T}

IsAllOutPointsReadyOneShort(T, vts) ==
  \A o \in Inputs[T] :
    Cardinality({v \in vts : v.tx = T /\ v.out = o}) >= SIGNATURES_REQUIRED - 1

\* COutPointLock::IsReady for every outpoint, counting the votes in vts.
IsAllOutPointsReady(T, vts) ==
  \A o \in Inputs[T] :
    Cardinality({v \in vts : v.tx = T /\ v.out = o}) >= SIGNATURES_REQUIRED

IsLockedInstaPayTransaction(n, T) ==
  /\ T \in Candidates(n)
  /\ \A o \in Inputs[T] : mapLockedOutpoints[n][o] = T

IsEnoughOrphanVotesForTx(T, orphans) ==
  \A o \in Inputs[T] :
    Cardinality({v \in orphans : v.tx = T /\ v.out = o}) >= SIGNATURES_REQUIRED

AlreadyHave(n, T) == T \in mapLockRequestAccepted[n] \cup mapLockRequestRejected[n]

AcceptableDespiteLock(n, T, pool, ch) ==
  /\ T \notin pool
  /\ AllUnspent(ch, T)
  /\ Rivals(T, pool) = {}

AcceptableDespiteRival(n, T, pool, ch) ==
  /\ T \notin pool
  /\ AllUnspent(ch, T)
  /\ ~LockedByOther(n, T)

\* AcceptToMemoryPool for a transaction that cannot replace another one.
Acceptable(n, T, pool, ch) ==
  /\ T \notin pool
  /\ AllUnspent(ch, T)
  /\ ~LockedByOther(n, T)
  /\ Rivals(T, pool) = {}

-----------------------------------------------------------------------------
(* SyncTransaction *)

SyncTransactionConnectOnly(n, S, ch, vts, kn) ==
  /\ mapTxLockCandidates' =
       [mapTxLockCandidates EXCEPT ![n] =
          [T \in Tx |-> IF T \in S \cap Candidates(n) /\ Mined(ch, T)
                        THEN HeightIn(ch, T) ELSE @[T]]]
  /\ mapTxLockVotes' = [mapTxLockVotes EXCEPT ![n] = kn]

\* CInstaPay::SyncTransaction for every transaction of S, whose height is now
\* the one it has on ch: the candidate, its counted votes that are still in kn
\* (mapTxLockVotes) and the orphan votes for it, stored again if kn lost them.
SyncTransaction(n, S, ch, vts, kn) ==
  /\ mapTxLockCandidates' =
       [mapTxLockCandidates EXCEPT ![n] =
          [T \in Tx |-> IF T \in S \cap Candidates(n) THEN HeightIn(ch, T) ELSE @[T]]]
  /\ mapTxLockVotes' =
       [mapTxLockVotes EXCEPT ![n] =
          [v \in Vote |->
             IF v.tx \in S /\ (v \in OrphanVotes(n) \/ (v \in vts /\ kn[v] # Absent))
             THEN HeightIn(ch, v.tx) ELSE kn[v]]]

NoSync(n, kn) ==
  /\ mapTxLockVotes' = [mapTxLockVotes EXCEPT ![n] = kn]
  /\ UNCHANGED mapTxLockCandidates

-----------------------------------------------------------------------------
(* TryToFinalizeLockCandidate *)

LockTransactionInputs(n, T) ==
  mapLockedOutpoints' =
    [mapLockedOutpoints EXCEPT ![n] =
       [o \in Outpoint |-> IF o \in Inputs[T] /\ @[o] = NoTx THEN T ELSE @[o]]]

\* CheckBlock, spork 3: block b holds a transaction that spends an outpoint
\* the node has locked for another one.
BlockConflicts(n, b) == BLOCK_FILTERING /\ \E X \in b : LockedByOther(n, X)

\* DisconnectTip, d times; each disconnected transaction is offered to the
\* mempool again.
Base(n, d) == SubSeq(chain[n], 1, Len(chain[n]) - d)

Popped(n, d) == SubSeq(chain[n], Len(chain[n]) - d + 1, Len(chain[n]))

PoolAfter(n, d) ==
  mempool[n] \cup {X \in TxsOf(Popped(n, d)) : Acceptable(n, X, mempool[n], Base(n, d))}

\* The recursive call of ResolveConflicts after d blocks finds a rival in the
\* mempool, or every input unspent.
Resolvable(n, T, d) == Rivals(T, PoolAfter(n, d)) # {} \/ AllUnspent(Base(n, d), T)

\* How many blocks ResolveConflicts disconnects (one number): each call
\* disconnects one, and the call with nMaxBlocks = 0 returns at once.
DisconnectDepth(n, T) ==
  {d \in 1 .. Len(chain[n]) :
     /\ d <= nInstaPayKeepLock
     /\ d = nInstaPayKeepLock \/ Resolvable(n, T, d)
     /\ \A e \in 1 .. d - 1 : ~Resolvable(n, T, e)}

\* How many of the blocks ActivateBestChain connects again (one number): those
\* before the first one that CheckBlock refuses.
Reconnectable(n, blocks) ==
  {k \in 0 .. Len(blocks) :
     /\ \A i \in 1 .. k : ~BlockConflicts(n, blocks[i])
     /\ k < Len(blocks) => BlockConflicts(n, blocks[k + 1])}

\* The mempool after d blocks and the recursive call, which replaces the rivals
\* it finds by T.
PoolReplaced(n, T, d) ==
  LET rivals == Rivals(T, PoolAfter(n, d))
  IN  IF d < nInstaPayKeepLock /\ rivals # {}
      THEN (PoolAfter(n, d) \ rivals) \cup {X \in {T} : AllUnspent(Base(n, d), X)}
      ELSE PoolAfter(n, d)

\* d blocks are disconnected, rivals replaced, and the first k of the blocks
\* connected again, because mapLockedOutpoints does not hold T yet.
Reactivate(n, T, vts, kn, d, k) ==
  LET chNew == Base(n, d - k)
      pool  == PoolReplaced(n, T, d)
  IN  /\ chain' = [chain EXCEPT ![n] = chNew]
      /\ mempool' = [mempool EXCEPT ![n] = {X \in pool : AllUnspent(chNew, X)}]
      /\ pCurrentBlockIndex' = [pCurrentBlockIndex EXCEPT ![n] = IF k = 0 THEN @ ELSE Len(chNew)]
      /\ SyncTransaction(n, TxsOf(Popped(n, d)) \cup (pool \ mempool[n]), chNew, vts, kn)
      /\ LockTransactionInputs(n, T)

\* DisconnectBlocks(1), the recursive ResolveConflicts, and ActivateBestChain.
DisconnectAndReactivate(n, T, vts, kn) ==
  \E d \in DisconnectDepth(n, T) :
    \E k \in Reconnectable(n, Popped(n, d)) : Reactivate(n, T, vts, kn, d, k)

\* A rival is in the mempool: every rival is removed, then T is offered again.
ReplaceInMempool(n, T, vts, kn) ==
  LET pool == mempool[n] \ Rivals(T, mempool[n])
  IN  /\ IF Acceptable(n, T, pool, chain[n])
         THEN /\ mempool' = [mempool EXCEPT ![n] = pool \cup {T}]
              /\ SyncTransaction(n, {T}, chain[n], vts, kn)
              /\ LockTransactionInputs(n, T)
         ELSE /\ mempool' = [mempool EXCEPT ![n] = pool]
              /\ NoSync(n, kn)
              /\ UNCHANGED mapLockedOutpoints
      /\ UNCHANGED <<chain, pCurrentBlockIndex>>

\* TryToFinalizeLockCandidate with ResolveConflicts and LockTransactionInputs.
\* vts and kn are mapMasternodeVotes[n] and mapTxLockVotes[n] at the call.
TryToFinalizeLockCandidate(n, T, vts, kn) ==
  LET due == IsAllOutPointsReady(T, vts) /\ ~IsLockedInstaPayTransaction(n, T)
      open == due /\ ~LockedByOther(n, T)
      rival == Rivals(T, mempool[n]) # {}
      settled == Mined(chain[n], T) \/ AllUnspent(chain[n], T)
  IN  \/ /\ ~open
         /\ NoSync(n, kn)
         /\ UNCHANGED <<chainVars, mapLockedOutpoints>>
      \/ /\ open /\ rival
         /\ ReplaceInMempool(n, T, vts, kn)
      \/ /\ open /\ ~rival /\ settled
         /\ NoSync(n, kn)
         /\ LockTransactionInputs(n, T)
         /\ UNCHANGED chainVars
      \/ /\ open /\ ~rival /\ ~settled
         /\ DisconnectAndReactivate(n, T, vts, kn)

-----------------------------------------------------------------------------
(* ProcessTxLockRequest: the part before the loop over the orphan votes *)

\* No handler of the node holds cs_main and cs_instapay.
Unlocked(n) == handler[n].at = "idle"

CanStartUnspent(n, T, orphans) ==
  /\ \A o \in Inputs[T] : mapLockedOutpoints[n][o] = NoTx
  /\ AllUnspent(chain[n], T)

CanStart(n, T, orphans) ==
  /\ \A o \in Inputs[T] : mapLockedOutpoints[n][o] = NoTx
  /\ AllUnspent(chain[n], T) \/ IsEnoughOrphanVotesForTx(T, orphans)

VotableForRival(n, T) ==
  {o \in Inputs[T] :
     /\ MnOf[n] \in mnList[n] \cap TopRank[o]
     /\ [tx |-> T, out |-> o, mn |-> MnOf[n]] \notin mapMasternodeVotes[n]}

\* The inputs this node is entitled to vote on and has not voted on yet.
Votable(n, T) ==
  {o \in Inputs[T] :
     /\ MnOf[n] \in mnList[n] \cap TopRank[o]
     /\ \A X \in mapVotedOutpoints[n][o] :
          [tx |-> X, out |-> o, mn |-> MnOf[n]] \notin mapMasternodeVotes[n]}

\* Of a transaction other than T, whose hash is recorded for o, there is no candidate any
\* more: a vote for o, T's or another masternode's, is compared with end().
Forgotten(n, T, o) == \E X \in mapVotedOutpoints[n][o] \ {T} : X \notin Candidates(n)

\* Vote goes through the inputs in the map's order and returns at the first
\* one that is spent, so the inputs before it are any set of unspent ones.
Reached(n, T) ==
  IF AllUnspent(chain[n], T) THEN {Inputs[T]}
  ELSE SUBSET {o \in Inputs[T] : ~Spent(chain[n], o)}

\* CreateTxLockCandidate, Vote for the outpoints outs, and the start of
\* ProcessOrphanTxLockVotes.
CreateAndVote(n, T, kn, orph, net, outs) ==
  LET mine  == {v \in InputVote : v.tx = T /\ v.out \in outs /\ v.mn = MnOf[n]}
      fresh == mine \ mapMasternodeVotes[n]
  IN  /\ mapTxLockCandidates' =
           [mapTxLockCandidates EXCEPT ![n][T] = IF @ = Absent THEN Unconfirmed ELSE @]
      /\ mapTxLockVotes' =
           [mapTxLockVotes EXCEPT ![n] =
              [v \in Vote |-> IF v \in mine /\ kn[v] = Absent THEN Unconfirmed ELSE kn[v]]]
      /\ mapMasternodeVotes' = [mapMasternodeVotes EXCEPT ![n] = @ \cup fresh]
      /\ mapVotedOutpoints' =
           [mapVotedOutpoints EXCEPT ![n] =
              [o \in Outpoint |->
                 IF \E v \in fresh : v.out = o THEN @[o] \cup {T} ELSE @[o]]]
      /\ sentVotes' = sentVotes \cup fresh
      /\ mapTxLockVotesOrphan' = [mapTxLockVotesOrphan EXCEPT ![n] = orph]
      /\ handler' = [handler EXCEPT ![n] =
           Handler("orphans", T, {v \in Vote : orph[v] # Absent}, net)]
      /\ UNCHANGED <<requestVars, chainVars, envVars, mapLockedOutpoints,
                     mapMasternodeOrphanVotes>>

\* ProcessTxLockRequest up to the loop; kn and orph are the vote maps at the
\* call, net the request that the message thread has still to offer to the mempool.
\* What end() answers is anybody's guess (refused), if the process survives.
StartLockRequest(n, T, kn, orph, net) ==
  \E reached \in Reached(n, T), refused \in SUBSET {o \in Inputs[T] : Forgotten(n, T, o)} :
    CreateAndVote(n, T, kn, orph, net, (Votable(n, T) \cap reached) \ refused)

\* A TXLOCKREQUEST message.
RecvTxLockRequest(n, T) ==
  /\ handler[n] = Idle
  /\ CanStart(n, T, OrphanVotes(n))
  /\ StartLockRequest(n, T, mapTxLockVotes[n], mapTxLockVotesOrphan[n], T)

\* The wallet or sendrawtransaction, in a thread of its own: the transaction is in the
\* mempool already.
LocalTxLockRequest(n, T) ==
  /\ Unlocked(n)
  /\ T \in mempool[n]
  /\ CanStart(n, T, OrphanVotes(n))
  /\ StartLockRequest(n, T, mapTxLockVotes[n], mapTxLockVotesOrphan[n], handler[n].net)

-----------------------------------------------------------------------------
(* ProcessTxLockVote *)

VoteIsValid(n, v) == v.mn \in mnList[n] /\ v.mn \in TopRank[v.out]

\* The masternode's vote for the same outpoint is counted for another
\* transaction that mapVotedOutpoints knows of.
ConflictingVote(n, v) ==
  \E X \in mapVotedOutpoints[n][v.out] \ {v.tx} :
    [tx |-> X, out |-> v.out, mn |-> v.mn] \in mapMasternodeVotes[n]

GetAverageMasternodeOrphanVoteTime(n) ==
  LET tracked == {m \in Masternode : mapMasternodeOrphanVotes[n][m] # Absent}
  IN  MapThenSumSet(LAMBDA m : mapMasternodeOrphanVotes[n][m], tracked)
      \div Cardinality(tracked)

Spamming(n, m) ==
  /\ mapMasternodeOrphanVotes[n][m] > now
  /\ mapMasternodeOrphanVotes[n][m] > GetAverageMasternodeOrphanVoteTime(n)

TrackOrphanVoteCumulative(n, m) ==
  mapMasternodeOrphanVotes' =
    IF Spamming(n, m) THEN mapMasternodeOrphanVotes
    ELSE [mapMasternodeOrphanVotes EXCEPT ![n][m] =
            (IF @ = Absent THEN now ELSE @) + ORPHAN_RATE_SECONDS]

\* DoS accounting of a vote without a candidate.
TrackOrphanVote(n, m) ==
  mapMasternodeOrphanVotes' =
    IF Spamming(n, m) THEN mapMasternodeOrphanVotes
    ELSE [mapMasternodeOrphanVotes EXCEPT ![n][m] = now + ORPHAN_RATE_SECONDS]

\* AddVote: the outpoint is an input of the candidate and the vote is new to it.
AddVote(n, v) == v \in InputVote \ mapMasternodeVotes[n]

\* The branch that counts the vote: mapVotedOutpoints changes before AddVote.
CountVote(n, v, kn) ==
  /\ mapVotedOutpoints' = [mapVotedOutpoints EXCEPT ![n][v.out] = @ \cup {v.tx}]
  /\ IF AddVote(n, v)
     THEN LET vts == mapMasternodeVotes[n] \cup {v}
          IN  /\ mapMasternodeVotes' = [mapMasternodeVotes EXCEPT ![n] = vts]
              /\ TryToFinalizeLockCandidate(n, v.tx, vts, kn)
     ELSE /\ NoSync(n, kn)
          /\ UNCHANGED <<chainVars, mapLockedOutpoints, mapMasternodeVotes>>

IgnoreVote(n, kn) ==
  /\ NoSync(n, kn)
  /\ UNCHANGED <<chainVars, mapLockedOutpoints, mapMasternodeVotes, mapVotedOutpoints>>

\* The vote finds no candidate, passes the comparison with the votes for rivals, or not.
IsOrphan(n, v) == VoteIsValid(n, v) /\ v.tx \notin Candidates(n)

MayCount(n, v) ==
  VoteIsValid(n, v) /\ v.tx \in Candidates(n) /\ ~ConflictingVote(n, v)

MayBeRefused(n, v) == ~IsOrphan(n, v) /\ (MayCount(n, v) => Forgotten(n, v.tx, v.out))

\* A TXLOCKVOTE message: stored in mapTxLockVotes before any check.
RecvTxLockVote(n, v) ==
  LET kn == [mapTxLockVotes[n] EXCEPT ![v] = Unconfirmed]
      orph == [mapTxLockVotesOrphan[n] EXCEPT ![v] = now]
      seen == v \in OrphanVotes(n)
      reprocess == /\ ~seen /\ AlreadyHave(n, v.tx)
                   /\ IsEnoughOrphanVotesForTx(v.tx, OrphanVotes(n) \cup {v})
  IN  /\ handler[n] = Idle
      /\ v \in sentVotes \cup Stray
      /\ mapTxLockVotes[n][v] = Absent
      /\ \/ /\ MayBeRefused(n, v)
            /\ IgnoreVote(n, kn)
            /\ UNCHANGED <<mapTxLockVotesOrphan, mapMasternodeOrphanVotes, handler, sentVotes>>
         \/ /\ MayCount(n, v)
            /\ CountVote(n, v, kn)
            /\ UNCHANGED <<mapTxLockVotesOrphan, mapMasternodeOrphanVotes, handler, sentVotes>>
         \/ /\ IsOrphan(n, v)
            /\ IF reprocess /\ CanStart(n, v.tx, OrphanVotes(n) \cup {v})
               THEN StartLockRequest(n, v.tx, kn, orph, NoTx)
               ELSE /\ mapTxLockVotesOrphan' =
                         [mapTxLockVotesOrphan EXCEPT ![n] = IF seen THEN @ ELSE orph]
                    /\ IF reprocess THEN UNCHANGED mapMasternodeOrphanVotes
                                    ELSE TrackOrphanVote(n, v.mn)
                    /\ IgnoreVote(n, kn)
                    /\ UNCHANGED <<handler, sentVotes>>
      /\ UNCHANGED <<requestVars, envVars>>

\* One iteration of ProcessOrphanTxLockVotes: the vote leaves the orphan map
\* when ProcessTxLockVote returns true.
ProcessOrphanTxLockVote(n, v) ==
  LET kn == mapTxLockVotes[n]
      erased == [mapTxLockVotesOrphan EXCEPT ![n][v] = Absent]
  IN  /\ handler[n].at = "orphans"
      /\ v \in handler[n].todo
      /\ handler' = [handler EXCEPT ![n] =
           Handler("orphans", @.tx, @.todo \ {v}, @.net)]
      /\ \/ /\ MayBeRefused(n, v)
            /\ IgnoreVote(n, kn)
            /\ UNCHANGED <<mapTxLockVotesOrphan, mapMasternodeOrphanVotes>>
         \/ /\ MayCount(n, v)
            /\ CountVote(n, v, kn)
            /\ mapTxLockVotesOrphan' = IF AddVote(n, v) THEN erased ELSE mapTxLockVotesOrphan
            /\ UNCHANGED mapMasternodeOrphanVotes
         \/ /\ IsOrphan(n, v)
            /\ IgnoreVote(n, kn)
            /\ mapTxLockVotesOrphan' = IF Spamming(n, v.mn) THEN mapTxLockVotesOrphan ELSE erased
            /\ TrackOrphanVote(n, v.mn)
      /\ UNCHANGED <<requestVars, envVars, sentVotes>>

\* The end of ProcessTxLockRequest.
FinishLockRequest(n) ==
  /\ handler[n].at = "orphans"
  /\ handler[n].todo = {}
  /\ TryToFinalizeLockCandidate(n, handler[n].tx, mapMasternodeVotes[n], mapTxLockVotes[n])
  /\ handler' = [handler EXCEPT ![n] = Handler("idle", NoTx, {}, @.net)]
  /\ UNCHANGED <<requestVars, envVars, sentVotes, mapTxLockVotesOrphan,
                 mapMasternodeVotes, mapVotedOutpoints, mapMasternodeOrphanVotes>>

\* The coins of an input are gone and nothing else is wrong with T: the node may
\* keep T as an orphan transaction instead of rejecting the request.
MissingInputs(n, T) ==
  /\ ~AllUnspent(chain[n], T)
  /\ T \notin mempool[n]
  /\ ~LockedByOther(n, T)
  /\ Rivals(T, mempool[n]) = {}

\* {T} or {}: the request that RejectLockRequest gets.
Rejectable(n, T) ==
  {R \in SUBSET {T} :
     IF AlreadyHave(n, T) \/ Acceptable(n, T, mempool[n], chain[n]) THEN R = {}
     ELSE R = {} => MissingInputs(n, T)}

\* The rest of the TXLOCKREQUEST message, under a new lock of cs_main.
AcceptLockRequest(n) ==
  LET T == handler[n].net
      accepted == ~AlreadyHave(n, T) /\ Acceptable(n, T, mempool[n], chain[n])
  IN  /\ Unlocked(n) /\ T # NoTx
      /\ handler' = [handler EXCEPT ![n] = Idle]
      /\ mapLockRequestAccepted' =
           [mapLockRequestAccepted EXCEPT ![n] = @ \cup {X \in {T} : accepted}]
      /\ \E rejected \in Rejectable(n, T) :
           mapLockRequestRejected' = [mapLockRequestRejected EXCEPT ![n] = @ \cup rejected]
      /\ mempool' = [mempool EXCEPT ![n] = @ \cup {X \in {T} : accepted}]
      /\ SyncTransaction(n, {X \in {T} : accepted}, chain[n],
                         mapMasternodeVotes[n], mapTxLockVotes[n])
      /\ UNCHANGED <<envVars, chain, pCurrentBlockIndex, sentVotes, mapTxLockVotesOrphan,
                     mapMasternodeVotes, mapVotedOutpoints, mapLockedOutpoints,
                     mapMasternodeOrphanVotes>>

-----------------------------------------------------------------------------
(* The rest of the node: mempool, blocks, the maintenance thread *)

\* A TX message, or a transaction that another thread adds.
RecvTx(n, T) ==
  /\ Unlocked(n)
  /\ Acceptable(n, T, mempool[n], chain[n])
  /\ mempool' = [mempool EXCEPT ![n] = @ \cup {T}]
  /\ SyncTransaction(n, {T}, chain[n], mapMasternodeVotes[n], mapTxLockVotes[n])
  /\ UNCHANGED <<requestVars, envVars, chain, pCurrentBlockIndex, handler, sentVotes,
                 mapTxLockVotesOrphan, mapMasternodeVotes, mapVotedOutpoints,
                 mapLockedOutpoints, mapMasternodeOrphanVotes>>

\* The blocks bs may follow ch: no input is spent twice, no lock is contradicted.
Connectable(n, ch, bs) ==
  \A i \in DOMAIN bs :
    /\ \A X \in bs[i] : AllUnspent(ch \o SubSeq(bs, 1, i - 1), X)
    /\ ~BlockConflicts(n, bs[i])

\* ActivateBestChainStep: disconnect k blocks, connect the k + 1 blocks bs.
ActivateBestChainStep(n, k, bs) ==
  LET chNew == Base(n, k) \o bs
      pool  == PoolAfter(n, k)
      kept  == {X \in pool : AllUnspent(chNew, X)}
  IN  /\ Unlocked(n)
      /\ Len(chNew) <= MaxHeight
      /\ Connectable(n, Base(n, k), bs)
      /\ chain' = [chain EXCEPT ![n] = chNew]
      /\ mempool' = [mempool EXCEPT ![n] = kept]
      /\ SyncTransaction(n, TxsOf(Popped(n, k)) \cup TxsOf(bs) \cup (pool \ kept), chNew,
                         mapMasternodeVotes[n], mapTxLockVotes[n])
      /\ UNCHANGED <<requestVars, envVars, pCurrentBlockIndex, handler, sentVotes,
                     mapTxLockVotesOrphan, mapMasternodeVotes, mapVotedOutpoints,
                     mapLockedOutpoints, mapMasternodeOrphanVotes>>

\* The notification that follows a new tip, sent without cs_main.
UpdatedBlockTip(n) ==
  /\ Unlocked(n)
  /\ pCurrentBlockIndex[n] # Len(chain[n])
  /\ pCurrentBlockIndex' = [pCurrentBlockIndex EXCEPT ![n] = Len(chain[n])]
  /\ UNCHANGED <<requestVars, envVars, mempool, chain, handler, sentVotes,
                 mapTxLockVotes, mapTxLockCandidates, mapTxLockVotesOrphan,
                 mapMasternodeVotes, mapVotedOutpoints, mapLockedOutpoints,
                 mapMasternodeOrphanVotes>>

IsExpiredEvenUnconfirmed(confirmedHeight, height) ==
  /\ confirmedHeight # Absent
  /\ height - confirmedHeight > nInstaPayKeepLock

\* CTxLockVote::IsExpired and CTxLockCandidate::IsExpired.
IsExpired(confirmedHeight, height) ==
  /\ confirmedHeight \notin {Absent, Unconfirmed}
  /\ height - confirmedHeight > nInstaPayKeepLock

ExpiredCandidates(n) ==
  {T \in Tx : IsExpired(mapTxLockCandidates[n][T], pCurrentBlockIndex[n])}

ExpiredVotes(n) ==
  {v \in Vote : IsExpired(mapTxLockVotes[n][v], pCurrentBlockIndex[n])}

ExpiredOrphans(n) ==
  {v \in OrphanVotes(n) : now - mapTxLockVotesOrphan[n][v] > ORPHAN_VOTE_SECONDS}

\* The outpoints CheckAndRemove erases from mapLockedOutpoints and
\* mapVotedOutpoints when the candidates of gone expire.
FreedOutpointsIfLocked(n, gone) == {o \in Outpoint : mapLockedOutpoints[n][o] \in gone}

FreedOutpointsIfUncontested(n, gone) ==
  UNION {Inputs[T] : T \in gone} \ UNION {Inputs[T] : T \in Candidates(n) \ gone}

FreedOutpoints(n, gone) == UNION {Inputs[T] : T \in gone}

\* The maintenance thread, every minute.
CheckAndRemove(n) ==
  LET gone == ExpiredCandidates(n)
      freed == FreedOutpoints(n, gone)
  IN  /\ Unlocked(n)
      /\ pCurrentBlockIndex[n] # 0
      /\ mapLockedOutpoints' = [mapLockedOutpoints EXCEPT ![n] =
           [o \in Outpoint |-> IF o \in freed THEN NoTx ELSE @[o]]]
      /\ mapVotedOutpoints' = [mapVotedOutpoints EXCEPT ![n] =
           [o \in Outpoint |-> IF o \in freed THEN {} ELSE @[o]]]
      /\ mapLockRequestAccepted' = [mapLockRequestAccepted EXCEPT ![n] = @ \ gone]
      /\ mapLockRequestRejected' = [mapLockRequestRejected EXCEPT ![n] = @ \ gone]
      /\ mapTxLockCandidates' = [mapTxLockCandidates EXCEPT ![n] =
           [T \in Tx |-> IF T \in gone THEN Absent ELSE @[T]]]
      /\ mapMasternodeVotes' = [mapMasternodeVotes EXCEPT ![n] =
           {v \in @ : v.tx \notin gone}]
      /\ mapTxLockVotes' = [mapTxLockVotes EXCEPT ![n] =
           [v \in Vote |-> IF v \in ExpiredVotes(n) \cup ExpiredOrphans(n)
                           THEN Absent ELSE @[v]]]
      /\ mapTxLockVotesOrphan' = [mapTxLockVotesOrphan EXCEPT ![n] =
           [v \in Vote |-> IF v \in ExpiredOrphans(n) THEN Absent ELSE @[v]]]
      /\ mapMasternodeOrphanVotes' = [mapMasternodeOrphanVotes EXCEPT ![n] =
           [m \in Masternode |-> IF @[m] < now THEN Absent ELSE @[m]]]
      /\ UNCHANGED <<chainVars, envVars, handler, sentVotes>>

\* mnodeman learns of a masternode.
AddMasternode(n, m) ==
  /\ Unlocked(n)
  /\ m \notin mnList[n]
  /\ mnList' = [mnList EXCEPT ![n] = @ \cup {m}]
  /\ UNCHANGED <<requestVars, chainVars, mapTxLockVotes, mapTxLockVotesOrphan,
                 mapTxLockCandidates, mapMasternodeVotes, mapVotedOutpoints,
                 mapLockedOutpoints, mapMasternodeOrphanVotes, handler, sentVotes,
                 now, restarts>>

\* The process stops and starts again: only the chain is on disk.
Restart(n) ==
  /\ restarts < MaxRestarts
  /\ restarts' = restarts + 1
  /\ mapLockRequestAccepted' = [mapLockRequestAccepted EXCEPT ![n] = {}]
  /\ mapLockRequestRejected' = [mapLockRequestRejected EXCEPT ![n] = {}]
  /\ mapTxLockVotes' = [mapTxLockVotes EXCEPT ![n] = EmptyMap(Vote)]
  /\ mapTxLockVotesOrphan' = [mapTxLockVotesOrphan EXCEPT ![n] = EmptyMap(Vote)]
  /\ mapTxLockCandidates' = [mapTxLockCandidates EXCEPT ![n] = EmptyMap(Tx)]
  /\ mapMasternodeVotes' = [mapMasternodeVotes EXCEPT ![n] = {}]
  /\ mapVotedOutpoints' = [mapVotedOutpoints EXCEPT ![n] = [o \in Outpoint |-> {}]]
  /\ mapLockedOutpoints' = [mapLockedOutpoints EXCEPT ![n] = [o \in Outpoint |-> NoTx]]
  /\ mapMasternodeOrphanVotes' = [mapMasternodeOrphanVotes EXCEPT ![n] = EmptyMap(Masternode)]
  /\ pCurrentBlockIndex' = [pCurrentBlockIndex EXCEPT ![n] = 0]
  /\ mempool' = [mempool EXCEPT ![n] = {}]
  /\ handler' = [handler EXCEPT ![n] = Idle]
  /\ UNCHANGED <<mnList, chain, sentVotes, now>>

\* A masternode whose node is not modelled votes for the inputs of T that it
\* has not voted on, as CInstaPay::Vote does.
RemoteVote(m, T) ==
  LET fresh == {v \in InputVote : /\ v.tx = T /\ v.mn = m /\ m \in TopRank[v.out]
                             /\ \A X \in Tx : [tx |-> X, out |-> v.out, mn |-> v.mn] \notin sentVotes}
  IN  /\ \A n \in Node : MnOf[n] # m
      /\ fresh # {}
      /\ sentVotes' = sentVotes \cup fresh
      /\ UNCHANGED <<requestVars, chainVars, envVars, mapTxLockVotes, mapTxLockVotesOrphan,
                     mapTxLockCandidates, mapMasternodeVotes, mapVotedOutpoints,
                     mapLockedOutpoints, mapMasternodeOrphanVotes, handler>>

\* A masternode whose node is not modelled restarts, which empties its maps,
\* and then votes for the inputs of T.
RemoteVoteAfterRestart(m, T) ==
  LET fresh == {v \in InputVote : v.tx = T /\ v.mn = m /\ m \in TopRank[v.out]}
  IN  /\ restarts < MaxRestarts
      /\ restarts' = restarts + 1
      /\ \A n \in Node : MnOf[n] # m
      /\ sentVotes' = sentVotes \cup fresh
      /\ UNCHANGED <<requestVars, chainVars, mapTxLockVotes, mapTxLockVotesOrphan,
                     mapTxLockCandidates, mapMasternodeVotes, mapVotedOutpoints,
                     mapLockedOutpoints, mapMasternodeOrphanVotes, handler, mnList, now>>

Tick ==
  /\ now < MaxTime
  /\ now' = now + 1
  /\ UNCHANGED <<requestVars, chainVars, mapTxLockVotes, mapTxLockVotesOrphan,
                 mapTxLockCandidates, mapMasternodeVotes, mapVotedOutpoints,
                 mapLockedOutpoints, mapMasternodeOrphanVotes, handler, sentVotes,
                 mnList, restarts>>

-----------------------------------------------------------------------------

Init ==
  /\ mapLockRequestAccepted = [n \in Node |-> {}]
  /\ mapLockRequestRejected = [n \in Node |-> {}]
  /\ mapTxLockVotes = [n \in Node |-> EmptyMap(Vote)]
  /\ mapTxLockVotesOrphan = [n \in Node |-> EmptyMap(Vote)]
  /\ mapTxLockCandidates = [n \in Node |-> EmptyMap(Tx)]
  /\ mapMasternodeVotes = [n \in Node |-> {}]
  /\ mapVotedOutpoints = [n \in Node |-> [o \in Outpoint |-> {}]]
  /\ mapLockedOutpoints = [n \in Node |-> [o \in Outpoint |-> NoTx]]
  /\ mapMasternodeOrphanVotes = [n \in Node |-> EmptyMap(Masternode)]
  /\ pCurrentBlockIndex = [n \in Node |-> 1]
  /\ mnList = [n \in Node |-> KnownAtStart]
  /\ mempool = [n \in Node |-> {}]
  /\ chain = [n \in Node |-> <<{}>>]
  /\ handler = [n \in Node |-> Idle]
  /\ sentVotes = {}
  /\ now = 0
  /\ restarts = 0

ProcessOrphanTxLockVotes(n) == \E v \in handler[n].todo : ProcessOrphanTxLockVote(n, v)

BlocksOfLength(k) == [1 .. k -> Block]

Next ==
  \/ \E n \in Node :
       \/ \E T \in Tx : RecvTxLockRequest(n, T) \/ LocalTxLockRequest(n, T) \/ RecvTx(n, T)
       \/ \E v \in sentVotes \cup Stray : RecvTxLockVote(n, v)
       \/ ProcessOrphanTxLockVotes(n)
       \/ FinishLockRequest(n)
       \/ AcceptLockRequest(n)
       \/ \E k \in 0 .. MaxReorg : k < Len(chain[n]) /\
            \E bs \in BlocksOfLength(k + 1) : ActivateBestChainStep(n, k, bs)
       \/ UpdatedBlockTip(n)
       \/ CheckAndRemove(n)
       \/ \E m \in Masternode : AddMasternode(n, m)
       \/ Restart(n)
  \/ \E m \in Masternode, T \in Tx : RemoteVote(m, T) \/ RemoteVoteAfterRestart(m, T)
  \/ Tick

Spec == Init /\ [][Next]_vars

-----------------------------------------------------------------------------
(* Properties *)

Height == 1 .. MaxHeight

\* Every variable keeps its type; the maps of CInstaPay hold what instapay.h
\* declares them to hold.
TypeOK ==
  /\ mapLockRequestAccepted \in [Node -> SUBSET Tx]
  /\ mapLockRequestRejected \in [Node -> SUBSET Tx]
  /\ mapTxLockVotes \in [Node -> [Vote -> {Absent, Unconfirmed} \cup Height]]
  /\ mapTxLockVotesOrphan \in [Node -> [Vote -> {Absent} \cup 0 .. MaxTime]]
  /\ mapTxLockCandidates \in [Node -> [Tx -> {Absent, Unconfirmed} \cup Height]]
  /\ mapMasternodeVotes \in [Node -> SUBSET InputVote]
  /\ mapVotedOutpoints \in [Node -> [Outpoint -> SUBSET Tx]]
  /\ mapLockedOutpoints \in [Node -> [Outpoint -> Tx \cup {NoTx}]]
  /\ mapMasternodeOrphanVotes \in
       [Node -> [Masternode -> {Absent} \cup 0 .. MaxTime + ORPHAN_RATE_SECONDS]]
  /\ pCurrentBlockIndex \in [Node -> 0 .. MaxHeight]
  /\ mnList \in [Node -> SUBSET Masternode]
  /\ mempool \in [Node -> SUBSET Tx]
  /\ chain \in [Node -> Seq(Block)] /\ \A n \in Node : Len(chain[n]) <= MaxHeight
  /\ handler \in [Node -> [at : {"idle"}, tx : {NoTx}, todo : {{}}, net : Tx \cup {NoTx}]
                           \cup [at : {"orphans"}, tx : Tx, todo : SUBSET Vote, net : Tx \cup {NoTx}]]
  /\ sentVotes \subseteq InputVote
  /\ now \in 0 .. MaxTime
  /\ restarts \in 0 .. MaxRestarts

\* Vote (l.203) and ProcessTxLockVote (l.336) look up the candidate of every hash in
\* mapVotedOutpoints and dereference it without a test for end(). A hash recorded for an
\* input of its transaction has a candidate, whatever CheckAndRemove erased; so what is
\* forgotten of an outpoint are transactions that do not even spend it.
VotedOutpointHasCandidate ==
  \A n \in Node, o \in Outpoint :
    \A T \in mapVotedOutpoints[n][o] : o \in Inputs[T] => T \in Candidates(n)

\* While an outpoint is locked, the transaction that locks it is a candidate
\* with enough votes for each of its inputs: no expiry leaves a lock without
\* the votes that justify it.
LockBackedByQuorum ==
  \A n \in Node, o \in Outpoint :
    LET T == mapLockedOutpoints[n][o] IN
    T # NoTx => /\ o \in Inputs[T]
                /\ T \in Candidates(n)
                /\ IsAllOutPointsReady(T, mapMasternodeVotes[n])

\* The mempool never holds a transaction that contradicts a completed lock.
MempoolHonoursLocks ==
  \A n \in Node : \A T \in mempool[n] : ~LockedByOther(n, T)

\* The mempool stays consistent with the chain and with itself through every
\* removal of rivals, reorganisation and reactivation.
MempoolConsistent ==
  \A n \in Node : \A T \in mempool[n] :
    AllUnspent(chain[n], T) /\ Rivals(T, mempool[n]) = {}

\* The confirmed height of a candidate is the height of the block that holds
\* its transaction: SyncTransaction saw every connection and disconnection.
\* Expiry is computed from it.
ConfirmedHeightIsTrue ==
  \A n \in Node : \A T \in Candidates(n) :
    LET h == mapTxLockCandidates[n][T] IN
    h # Unconfirmed => h \in DOMAIN chain[n] /\ T \in chain[n][h]

\* All inputs of a locked transaction are locked by it, unless a transaction
\* that spends one of them is in the chain (then its expiry may free the input).
LockIsAtomicUnlessRivalMined ==
  \A n \in Node, o \in Outpoint :
    LET T == mapLockedOutpoints[n][o] IN
    T # NoTx => \/ IsLockedInstaPayTransaction(n, T)
                \/ \E i \in DOMAIN chain[n] : Rivals(T, chain[n][i]) # {}

\* As long as no node lost its memory, a masternode never votes for two
\* transactions that spend the same outpoint.
OneVotePerOutpoint ==
  restarts = 0 =>
    \A v, w \in sentVotes : v.out = w.out /\ v.mn = w.mn => v = w

\* As long as no node lost its memory, no two nodes lock an outpoint for
\* different transactions.
NoConflictingLocks ==
  restarts = 0 =>
    \A n, p \in Node, o \in Outpoint :
      NoTx \notin {mapLockedOutpoints[n][o], mapLockedOutpoints[p][o]}
      => mapLockedOutpoints[n][o] = mapLockedOutpoints[p][o]

\* A quorum of masternodes has voted for T to spend o.
HasQuorum(o, T) ==
  Cardinality({v \in sentVotes : v.tx = T /\ v.out = o}) >= SIGNATURES_REQUIRED

-----------------------------------------------------------------------------
(* Refinement *)

\* The network has chosen T for o when a quorum has voted for it.
Chosen == [o \in Outpoint |->
  IF \E T \in Tx : HasQuorum(o, T) THEN CHOOSE T \in Tx : HasQuorum(o, T) ELSE NoTx]

L == INSTANCE TxLock WITH chosen <- Chosen, lock <- mapLockedOutpoints

\* While no node loses its memory, the nodes and masternodes together behave as
\* TxLock promises.
ImplementsTxLock == L!Spec

-----------------------------------------------------------------------------
(* What the comments of instapay.cpp say and the code does not do *)

\* ResolveConflicts, l.578: "block which includes conflicting tx should be
\* rejected by ConnectBlock": the chain never contradicts a completed lock.
ChainHonoursLocks ==
  \A n \in Node, o \in Outpoint :
    LET T == mapLockedOutpoints[n][o] IN
    T # NoTx => \A X \in TxsOf(chain[n]) \ {T} : o \notin Inputs[X]

\* Header comment, l.37: once every input has its votes "all outpoints from that
\* tx are treated as locked".
LockIsAtomic ==
  \A n \in Node, o \in Outpoint :
    LET T == mapLockedOutpoints[n][o] IN
    T # NoTx => IsLockedInstaPayTransaction(n, T)

\* ProcessTxLockVote, l.278: a vote that comes before its request is processed
\* "after the lock request itself has arrived": between two handlers, a valid
\* vote the node has seen for a candidate is counted, or is refused because the
\* masternode voted for a rival, or still waits among the orphans.
SeenVotesProcessed ==
  \A n \in Node : \A v \in InputVote :
    /\ handler[n] = Idle
    /\ mapTxLockVotes[n][v] # Absent
    /\ v.tx \in Candidates(n)
    /\ VoteIsValid(n, v)
    => \/ v \in mapMasternodeVotes[n] \cup OrphanVotes(n)
       \/ ConflictingVote(n, v)

=============================================================================
