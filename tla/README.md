# A TLA+ model of OIOCoin's masternode layer

The repository collects many small scripts and one large program: `src/2018/Jiaozi-new`,
OIOCoin, a cryptocurrency node in C++ derived from Dash 0.12 and Bitcoin Core 0.12.
This directory specifies the part of it that is the program's own: the services of the
masternodes. Paths below are relative to `src/2018/Jiaozi-new/src/`.

## 1. Inventory

| component | state | operations | what makes it correct |
|---|---|---|---|
| InstaPay (`instapay.cpp`) | requests accepted/rejected, votes seen, orphan votes, lock candidates with the votes counted, voted and locked outpoints, orphan-vote times | lock request, vote, finalisation with conflict resolution, block and mempool notifications, expiry | no two transactions lock an outpoint anywhere; a lock has its quorum of votes; mempool and chain honour locks; a quorum leads to a lock |
| chain and mempool (`validation.cpp`, `txmempool.cpp`, `net_processing.cpp`) | active chain, mempool | accept, connect, disconnect, reorganise, filter blocks | inherited from Bitcoin Core; InstaPay reaches into it |
| PrivatePay server (`privatepay-server.cpp`) | session id, denomination, state, collaterals, entries, time of the last step | PPACCEPT, PPVIN, PPSIGNFINALTX, ticks: complete queue, timeout, charge | a session ends for everybody; nobody signs what he did not agree to; the one who stops is charged |
| PrivatePay client (`privatepay-client.cpp`) | its own copy of that session state, locked coins | join or start a queue, submit, sign, status updates, timeout | coins are unlocked at the end; signs only a transaction with all its outputs |
| masternode synchronisation (`masternode-sync.cpp`, `netfulfilledman.cpp`) | requested asset, attempts, time of the last progress, fulfilled requests | tick, new tip, switch, fail, reset | ends; never leaves the order of assets; never throws |
| masternode state and list (`masternode.cpp`, `masternodeman.cpp`, `activemasternode.cpp`) | state, ping, ban score, seen broadcasts, recovery requests and replies | check, broadcast, ping, verification, recovery, expiry | an entry follows its collateral and pings; bans end; recovery needs a quorum |
| masternode payments (`masternode-payments.cpp`) | votes per block and masternode, payees per block, last vote of a masternode | vote, process vote, required payee, sync | a masternode votes once per block; the payee with enough votes is enforced |
| governance (`governance*.cpp`) | objects, votes, orphan votes and objects, rate checks, watchdogs | add object, vote, expire, delete, sync | no vote is lost between object and orphan cache; deleted objects stay deleted |
| sporks (`spork.cpp`) | active sporks | process, update, query | the latest signed value wins |
| caches (`cachemap.h`, `cachemultimap.h`) | bounded list and index | insert, erase, prune | list and index agree, the bound holds |

**Interaction.** A message thread (`net_processing.cpp`) calls the handlers of all
components; the maintenance thread `ThreadCheckPrivatePay` (`privatepay.cpp` 430-477) ticks
synchronisation every second and calls every component's `CheckAndRemove` once a minute;
validation calls back `SyncTransaction` (with `cs_main`) and `UpdatedBlockTip` (without it,
`ppnotificationinterface.cpp` 23-41); RPC, wallet and GUI threads call in as well. InstaPay reads
the masternode list (ranks, membership) and calls validation (`DisconnectBlocks`,
`ActivateBestChain`, `AcceptToMemoryPool`), which asks InstaPay for locks. PrivatePay uses
masternode list, mempool and network. All wait for synchronisation.

**Hard behaviours.** Votes, requests and blocks in any order, lost and repeated; rivals for
one outpoint; a handler that gives up `cs_main` halfway; a chain that is rewound inside a
handler; expiry computed from a lagging tip; restarts that forget votes; mixing sessions with
clients that vanish; timeouts racing late answers; three threads that change the synchronisation without a
lock; records of one fact in several maps (broadcasts, payment votes, governance votes) that have to agree through
clean-ups and restarts. `PROJECT.json` ("hazards") gives each with its line and the properties that cover it, or
why none does.

## 2. Plan

Done: **InstaPay** (`TxLock` abstract, `InstaPay`), **PrivatePay** (`Mixing` abstract, `PrivatePay`), **MasternodeSync**, **Masternode**,
**MasternodePayments** (with `MasternodePaymentsMiner`, which extends it by the block that is mined and judged) and **Governance**, each with its `MC` module and its `_proofs` module; InstaPay has a second one
for agreement (`InstaPayAgreement_proofs`) and PrivatePay one for sessions (`PrivatePaySessions_proofs`).
Every safety invariant and action property that a passing run checks, and the refinements of `TxLock` and `Mixing`, are theorems;
those that need a premise (section 5) state it.

Left: the sporks as a module (the latest signed value wins, whatever the order of arrival) and the modules that read them;
and triggers and superblocks of governance with the payments they change.

Every module takes its sizes as CONSTANTS with named assumptions, has one action per handler,
and avoids RECURSIVE operators so that theorems can be stated about it. The modules are separate because the code's
components share little: each reads `masternodeSync` and the masternode list, which are variables or constants of
the module that reads them (`synced`, `listed`, `KnownAtStart`), or open at every step that reads them (`Rank` of the payments).

## 3. Modules

**`TxLock`** is what InstaPay promises (header comment of `instapay.cpp`, l. 33-38): the network
chooses at most one transaction per outpoint, forever; a node locks all inputs of a transaction at
once and only when it is the chosen one for each.

**`InstaPay`** is the detailed specification. Each variable of `CInstaPay` is a function of the
node that holds it and keeps its name.

| model | code |
|---|---|
| `mapTxLockVotes[n][v]`, `mapTxLockVotesOrphan[n][v]`, `mapTxLockCandidates[n][T]` | the maps of the same names; the value is the member that matters (`nConfirmedHeight`, `nTimeCreated`), `Absent` outside the map |
| `mapMasternodeVotes[n]` | the votes in all `COutPointLock`s of the candidates |
| `mapVotedOutpoints`, `mapLockedOutpoints`, `mapMasternodeOrphanVotes`, `mapLockRequestAccepted`, `mapLockRequestRejected`, `pCurrentBlockIndex` | the members of the same names |
| `chain[n]`, `mempool[n]` | active chain (a block is any set of the modelled transactions of which no two are rivals) and mempool |
| `handler[n]` | where the node is in the loop of `ProcessTxLockRequest`, and which request the message thread has still to offer to the mempool; between its two sections RPC, the wallet, votes and blocks run |
| `Stray`, `Forgotten` | votes for an outpoint that their transaction does not spend; a comparison with `end()` that such a vote can lead to, whose outcome is open |
| `sentVotes` | every vote ever relayed |
| `RecvTxLockRequest`, `LocalTxLockRequest` | `ProcessTxLockRequest` up to the loop over the orphan votes: validity, `CreateTxLockCandidate`, `Vote` |
| `ProcessOrphanTxLockVotes` | one iteration of that loop; the locks stay held, so nothing else of the node runs (`Unlocked`) |
| `FinishLockRequest` | `TryToFinalizeLockCandidate` at its end |
| `AcceptLockRequest` | the second `cs_main` section of the handler: mempool, `AcceptLockRequest` or `RejectLockRequest`; anything may come before it |
| `RecvTxLockVote` | `ProcessMessage` (TXLOCKVOTE) with `ProcessTxLockVote`, reprocessing of a request included |
| `TryToFinalizeLockCandidate` | with `ResolveConflicts` (rivals in the mempool, rivals in the chain with disconnection and reactivation) and `LockTransactionInputs` |
| `ActivateBestChainStep`, `RecvTx`, `UpdatedBlockTip` | blocks, plain transactions and the notification, with the calls of `SyncTransaction` they make |
| `CheckAndRemove` | the maintenance task |
| `Restart` | everything but the chain is lost |
| `RemoteVote`, `RemoteVoteAfterRestart` | masternodes whose nodes are not modelled: they vote as `CInstaPay::Vote` allows, and forget when they restart |

Its last section has the refinement mapping `L` (`chosen` is the transaction with a quorum of relayed votes, `lock` is
`mapLockedOutpoints`) and `ImplementsTxLock`. **`MCInstaPay`** gives the instances and the fair specification;
**`MCInstaPayBlocks`** an instance whose blocks hold two transactions.

**`Mixing`** is what PrivatePay promises (comment of `SignFinalTransaction`, `privatepay-client.cpp` l. 475): a coin is
spent by a mixing transaction only when its owner has agreed to that very transaction, in which it found the entry it was
offering; the transaction needs the agreement of everybody in it and mixes a crowd of different users. Everything else (offers,
agreements under way, whole sessions) may be given up or lost at any time.

**`PrivatePay`** is a masternode that mixes, and its users. The server is `CPrivatePayServer`,
each member of `Client` is the `CPrivatePayClient` of one user.

| model | code |
|---|---|
| `nState`, `nSessionID`, `nSessionDenom`, `vecSessionCollaterals`, `vecEntries` | the members of the same names, of the server |
| `scriptSigs` | the `scriptSig`s in the entries; `tx` says which transaction was signed |
| `cState`, `cSessionID`, `cDenom`, `cCollateral`, `cEntries` | the client's `nState`, `nSessionID`, `nSessionDenom`, `txMyCollateral`, `vecEntries` (whose coins are locked in its wallet) |
| `waiting`, `charging` | where the server's message thread and timer thread are when they wait for `cs_main` |
| `toServer[c]`, `toClient[c]`, `connected` | the one connection of a client: FIFO until it breaks |
| `committed`, `mined`, `charged` | the mixing transactions the network has taken, those in a block, and how many collaterals a client has lost |
| `RecvPPACCEPT`, `AddUserToExistingSession` | `ProcessMessage` (PPACCEPT), split before `IsCollateralValid` |
| `RecvPPVIN`, `AddEntry` | `ProcessMessage` (PPVIN), split before the first `cs_main`, with `CheckPool` and `RelayStatus` |
| `RecvPPSIGNFINALTX` | `AddScriptSig` and `CheckPool` with `CommitFinalTransaction` |
| `CheckTimeout`, `ChargeFees`, `CheckForCompleteQueue` | the timer thread (`ThreadCheckPrivatePayServer`) |
| `DoAutomaticDenominating` | `JoinExistingQueue` and `StartNewQueue` with this masternode: PPACCEPT is sent |
| `ClientRecv...` | the client's handlers of PPQUEUE (ready), PPSTATUSUPDATE, PPFINALTX and PPCOMPLETE |
| `ClientCheckTimeout` | its timer |
| `Drop`, `Mine` | a connection breaks; a block |

The section *Refinement* has the mapping `Promised` to `Mixing` and `ImplementsMixing`.

The two threads of the server have no common lock over a whole handler (`cs_privatepay` is taken in some places only), so a
step ends exactly where a thread can be held up for long: at `cs_main`, which validation holds. Between
`RecvPPVIN` and `AddEntry`, say, a timeout may empty the pool and another session may begin.
`AcceptToMemoryPool` is called as a dry run: it sees spent coins that are in a block (`Spent`) and
never checks scripts, so `IsFinalValid` ignores signatures and `NetworkAccepts` is what really
counts. The masternode therefore reports success for a transaction the network refuses, for instance when a coin was spent
in an earlier session that is not mined yet; `committed` does not grow then.

Three points are coarser than the code: `CommitFinalTransaction` is one step although `ChargeRandomFees` waits for `cs_main`
at its end; a signature overwrites the `scriptSig` of the server's own copy of the transaction before its entry can refuse it
(l. 662-668), which only matters for a dishonest client; and a user does not switch mixing off, which
`ClientCheckTimeout` tests first (`privatepay-client.cpp` 321).

**`MCPrivatePay`** gives the instances and the fair specification.

**`MasternodeSync`** is `CMasternodeSync` with the requests that `netfulfilledman` records.

| model | code |
|---|---|
| `asset`, `attempt` | `nRequestedMasternodeAssets`, `nRequestedMasternodeAttempt` |
| `bumped`, `failed`, `noObjects`, `slept` | the ages of `nTimeLastBumped`, `nTimeLastFailure`, `nTimeNoObjectsLeft`, and whether `nTimeLastProcess` is over an hour old |
| `fulfilled`, `vNodes` | the recorded requests of each peer; the connected peers in order |
| `pc` | how far the maintenance thread, the block notification and `mnsync` are between a test or a reset and the call that follows |
| `ProcessTick` (`TickAfterSleep`, `TickFailed`, `TickSynced`, `TickLoop`) | the function of that name; `TickLoop` is the loop over the peers up to the one that ends it, and what it decides there (`TimeOut`, `FoundEnoughData`, `ChoosePeer`, `LoopThrough`) |
| `TickSwitches`, `TickFails`, `RequestFromPeer` | the call that the tick has decided on, each a step of its own: the asset may have changed since |
| `SwitchToNextAsset`, `Reset`, `Fail`, `BumpAssetLastTime` | the functions of those names |
| `UpdatedBlockTip`, `UpdatedBlockTipTested`, `UpdatedBlockTipSwitches` | `UpdatedBlockTip`, split at its two tests |
| `MnsyncNext`, `MnsyncReset`, `SwitchAfterReset` | the RPC command and what follows `Reset` |
| `DataReceived`, `Connect`, `Disconnect`, `Expire`, `Sleep`, `Restart` | messages with data, the network, the clock and the process |

`asked` and `commanded` are history. Which peer has nothing left to ask, whether there is enough data and whether few
votes came lately are choices of the step, since they depend on the data.

**`Masternode`** is what one node knows of one masternode.

| model | code |
|---|---|
| `mn` | its `CMasternode` in `vMasternodes`: `sigTime` (as the number of its broadcast), state, last ping, PoSe score, ban height, time of the last check |
| `seen`, `sentSeen` | `mapSeenMasternodeBroadcast` with the last ping of each, `mapSeenMasternodePing` |
| `request`, `replies` | `mMnbRecoveryRequests`, `mMnbRecoveryGoodReplies` |
| `sync`, `collateral` | what the code asks `masternodeSync` and the coins view |
| `ReceiveBroadcast`, `ReceiveRecoveryReply` | `CheckMnbAndUpdateMasternodeList` for a broadcast that is new, or seen and asked for |
| `ReceivePing` | MNPING with `CheckAndUpdate` |
| `Check`, `CheckMasternode`, `CheckAgainSoon` | `CMasternode::Check` with the state machine, `CMasternodeMan::Check` |
| `CheckAndRemove` | removal, requests of the recovery, the verdict over the replies, reprocessing, clean-up |
| `FailVerification`, `PassVerification` | what the verification protocol does to the score |
| `Restart`, `SyncProgress`, `Disconnect`, `Block` | `mncache.dat`, synchronisation, the chain |
| `SendBroadcast`, `SendPing`, `Tick` | the owner and time |

Time counts steps of `MASTERNODE_MIN_MNB_SECONDS`; a broadcast carries the owner's latest ping.

**`MasternodePayments`** is the vote on one block.

| model | code |
|---|---|
| `payees` | `vecPayees` of the block: payee and number of vote hashes, in order |
| `seen`, `verified` | the keys of `mapMasternodePaymentVotes`, those with a signature |
| `lastVote` | the masternodes whose `mapMasternodesLastVote` is this height |
| `testing`, `adding` | where the message thread and the thread that activated the chain are in `AddPaymentVote` |
| `Rank`, `tip`, `synced` | what the vote's check asks the masternode list (open at each vote), the chain and `masternodeSync` |
| `ProcessVote` | MASTERNODEPAYMENTVOTE with `IsValid`, `CanVote` and `CheckSignature`; a vote that fails the last (`passes`) may be forged, and has the hash of the good one |
| `HasVerifiedPaymentVote`, `AddPaymentVote` | `AddPaymentVote`: the test under a lock of its own, and the section under `LOCK2` |
| `ProcessVoteForOtherHeight` | a vote for another height: `CanVote` forgets this one |
| `Sign`, `ProcessBlock` | other masternodes' votes, and this node's own |
| `CheckAndRemove`, `UpdatedBlockTip`, `SyncList`, `Restart` | clean-up, a new tip, the masternode list, `mnpayments.dat` |

**`MasternodePaymentsMiner`** extends it by `template`, the block that the node is mining (`CreateNewBlock` with
`GetBestPayee` and `FillBlockPayee`), and by what the node accepts (`IsTransactionValid`): somebody with the required votes, paid the
share of what the coinbase creates. The share is a symbol, of `blockReward` or of that with the outputs of `fillwallet`;
`ForkBlock` says whether the block is that of `nForkHeight + 1`, where the two differ. SPORK_8 is taken to be on.

**`Governance`** is one object and the votes to delete it.

| model | code |
|---|---|
| `object`, `deleted`, `dirtyCache` | where the object is (`mapObjects`, `mapPostponedObjects`, `mapErasedGovernanceObjects`), `fCachedDelete`, `fDirtyCache` |
| `current`, `file`, `waiting` | its `mapCurrentMNVotes`, `fileVotes`, `mapOrphanVotes` |
| `orphans`, `index`, `invalid` | the manager's `mapOrphanVotes`, `mapVoteToObject`, `mapInvalidVotes` |
| `listed`, `indexed`, `votedOn`, `dirty`, `added` | `vMasternodes`, `indexMasternodes`, `mapGovernanceObjectsVotedOn`, `vecDirtyGovernanceObjectHashes`, `fMasternodesAdded` |
| `ReceiveVote` (`Accept`, `Refuse`, `InsertOrphan`) | MNGOVERNANCEOBJECTVOTE with both `ProcessVote`s |
| `ReceiveObject`, `CheckPostponedObjects`, `AddGovernanceObject` | MNGOVERNANCEOBJECT, the object that waits for confirmations, and its orphan votes |
| `UpdateCaches`, `EraseObject` | `UpdateCachesAndClean` for an object that is kept or erased |
| `AbsDeleteReq`, `UpdateSentinelVariables` | the quorum of yes votes, of `nGovernanceMinQuorum` and the number of enabled masternodes at the moment |
| `CheckMasternodeOrphanVotes`, `CleanOrphanObjects` | the notification that masternodes were added, and expiry of orphans |
| `AddMasternode`, `RemoveMasternode`, `Restart` | `CMasternodeMan`, `governance.dat` with `InitOnLoad` |

Votes with a forged signature are not modelled here: `mapInvalidVotes` keeps one of them by the hash of the good vote
(`governance-vote.h` 142-151), which is then refused. Nor are two short races: the hashes that `UpdateCachesAndClean` has taken out of
`vecDirtyGovernanceObjectHashes` are in a local variable until it has its locks (`governance.cpp` 436-438), and an `added` set
while `NotifyMasternodeUpdates` is calling is cleared with the old one (`masternodeman.cpp` 1681-1701).

`MCMasternodeSync`, `MCMasternode`, `MCMasternodePayments` and `MCGovernance` state the fairness and the liveness of these.

Definitions whose name extends another's (`IsExpiredEvenUnconfirmed`, `EntriesFullNever`) are that
definition with a plausible bug; nothing uses them except the sensitivity checks in `PROJECT.json` ("mutants").

**Abstractions of InstaPay.** A vote is its three hashed fields; signatures are always good and relay is the
set of `sentVotes` and of `Stray`, from which each node may receive any vote at any time or never: loss, delay and reordering are
all included, and so is duplication because handlers ignore known hashes. Requests and blocks may be
seen by a node at any time. Outpoints are mature; fees and values are dropped. Ranks are the same at
all nodes and fixed (`TopRank`). A transaction never replaces another in the mempool (opt-out of
replacement). Only successful connections are shown: a block that `CheckBlock` refuses
changes nothing here. Sporks 2 and 3 do not change during a behaviour.
`Vote` visits inputs in the order of a map and stops at the first spent one: `Reached` is any such prefix.
A request that fails for lack of inputs may be kept as an orphan transaction or be rejected (`Rejectable`),
depending on other outputs of the spent transaction that the model does not have.

**Abstractions of PrivatePay.** There is no clock: a timeout may fire in any state whose test the code
makes, which includes every real timing. Entries have one coin and its outputs; a coin is unlocked, locked or spent. Session
identifiers are fresh (the code draws them from 999999). A client uses only this masternode and does not
reconnect; its wallet may lag (`Unspent`, an old collateral). STATUS_ACCEPTED outside a queue only moves a
progress display and is left out. Blocks reach all nodes at once. Rate limits of PPQUEUE, the choice of masternode, a masternode that is missing
from its own list, and the wallet's choice of coins, are not modelled.

## 4. Runs

`node`, `inputs`, `network` and `live` use `MCInstaPay`, `mixing`, `mixlive` and `outsiders` `MCPrivatePay`, the others
the `MC` module of the module their configuration is named after. `CHECK_DEADLOCK FALSE` where a behaviour
may exhaust a bound or come to an end: InstaPay (heights, time, restarts), PrivatePay (joins, broken connections),
payments (the block expires) and votes (all votes are signed and known). `sync`, `list` and `listlive` never stop.

| run | instance | what it shows |
|---|---|---|
| `node` | 1 node, 2 remote masternodes, quorum 2 of 2, 2 rivals for 1 outpoint, height 4, keep 1, reorganisation 1, one restart (so each rival may gather a quorum) | `TypeOK`; `LockBackedByQuorum`: expiry never leaves a lock without its votes; `MempoolHonoursLocks`, `MempoolConsistent`: replacing rivals and rewinding the chain keep the mempool right; `ConfirmedHeightIsTrue` |
| `inputs` | 1 node that is masternode m1, m2 remote and learnt of later, 2 rivals of which one has a second input, a vote for the outpoint that the other does not spend, quorum 2 of 2, height 5, keep 2, reorganisation 1 | `OneVotePerOutpoint`; `VotedOutpointHasCandidate`: the unguarded dereference in `Vote` and `ProcessTxLockVote` is safe for a transaction's own inputs; `LockIsAtomicUnlessRivalMined`: a lock loses an input only through expiry of a mined rival |
| `network` | 2 nodes that are masternodes, m3 remote, empty chain | `NoConflictingLocks`; `ImplementsTxLock`: the network refines `TxLock` |
| `live` | 1 node, 3 remote masternodes, 1 transaction, blocks, time 1 (orphan votes may expire) | `QuorumLocks`: a quorum leads to a lock, in every order of request, votes and block |
| `mixing` | pool of 2, 2 clients who join twice, 2 coins of 2 denominations, 2 broken connections | `TypeOK`; `PoolConsistent`: state, session and entries agree between any two steps of the threads; `SignersAreInThePool`; `SignaturesFit`: every collected signature is for the transaction that will be committed; `ClientsConsistent`; `ImplementsMixing`: masternode and clients refine `Mixing`, so that nobody's coin is spent without a signature for the whole transaction, and `MaxPoolTransactions` different clients mix |
| `mixlive` | the same with 1 coin and 1 join | `ServerRecovers`, `ClientsRecover`: both sides get out of a session, whatever the other does; `ReadySessionCommits`: an undisturbed full queue ends in a mixing transaction |
| `outsiders` | pool of 2, 3 clients, no broken connection | violates `OnlyParticipantsMix` (`privatepay-server.cpp` 34-36) |
| `sync` | 1 peer that comes and goes, timeouts of one tick, 2 disturbances (sleep, restart, RPC) | `TypeOK`; `OnePassedOverAtMost`: whatever the threads do between their tests and calls, one asset at most is passed over unasked; `TickNeverThrows`: the race of the three threads never throws where nothing catches; `SyncEnds` |
| `list` | 2 broadcasts, 2 peers that must both answer, 1 fault (restart, lost collateral, verification) | `TypeOK`; `ListedIsSeen`: list and seen broadcasts agree; `NewStartNeedsQuorum`: no shortcut around the recovery's quorum; `BanIsServed` |
| `listlive` | the same, recovery without peers | `AnnouncedIsListed`: an announced masternode is listed in the end |
| `payments` | 3 voters, one of them this node, 2 payees, quorum 2, 1 fault (a second vote, a forged one, a restart), not the fork height | `TypeOK`; `CountsAreHonest`: counts are those of the checked votes, this node's own once more at most; `NoSplit`: two winners need voters, forgotten double votes and own votes added twice, enough for two quorums; `MinedBlockIsValid`: a block that is being mined stays acceptable, amount included; `VotesAreCounted`: a vote that could be checked on arrival is counted |
| `votes` | 2 masternodes, 2 votes within 2 seconds, quorum 2, 2 faults | `TypeOK`; `IndexIsTrue`, `CurrentIsNewest`, `GoneIsFlagged`: the four records of a vote agree; `DeletionNeedsQuorum`; `VotesAreCounted` |

**The finding.** A user who finds the session full is sent STATUS_ACCEPTED with the session's identifier, and PPVIN does
not ask whether its sender has joined, so his entry may take the place of a participant's (`outsiders`).

**Further disagreements** between the code and what it says are stated as properties that no run of the table checks. Four have a
configuration of their own, with which TLC refutes them:

| configuration (module) | property | what happens |
|---|---|---|
| `InstaPay_rewound.cfg` (`MCInstaPayBlocks`) | `MempoolHonoursLocks`; `instapay.cpp` 575 | A lock completes against a mined rival, whose block holds another transaction too. `ResolveConflicts` disconnects the block and the mempool takes the rival, since the lock is not recorded yet; spork 3 refuses the block because of the other transaction, so it is not connected again, and the rival stays in the mempool against the lock |
| `MasternodeSync_skips.cfg` (`MCMasternodeSync`) | `ListIsNotPassedOver`; `masternode-sync.cpp` 242 | `UpdatedBlockTip` finds the synchronisation not begun, the tick begins it, and the call of `UpdatedBlockTip` goes on from LIST to MNW: nobody was asked for the list |
| `MasternodePayments_early.cfg` (`MCMasternodePayments`) | `GoodVotesAreVerified`; `masternode-payments.cpp` 408-409 | A vote that is too far ahead, or whose voter is not listed yet, returns before `AddPaymentVote` "takes care of it"; its hash stays, so it is dropped whenever it comes again |
| `MasternodePayments_forkblock.cfg` (`MasternodePaymentsMiner`) | `MinedBlockIsValid`; `masternode-payments.cpp` 337, 604, 620 | At `nForkHeight + 1` the node pays the share of `blockReward` and requires that of what `fillwallet` added to as well: it refuses its own block (`TestBlockValidity`, `miner.cpp` 313-315) |

Adding one of the others to the configuration named makes TLC refute it. `ChainHonoursLocks` (`InstaPay_node.cfg`; comment at `instapay.cpp` 578): `ResolveConflicts`
reactivates the best chain before the lock is recorded, so the block with the rival is accepted again and the lock is
completed against the chain. `SeenVotesProcessed` (`InstaPay_node.cfg`; `instapay.cpp` 278): processing a request erases
from the orphan map votes that belong to other, still unknown requests; as `mapTxLockVotes` keeps their hashes, they
are never counted later. `LockIsAtomic` (`InstaPay_inputs.cfg`; `instapay.cpp` 37): expiry of a mined rival erases a
shared outpoint from another transaction's lock. `FailedCommitNotified` (`PrivatePay_outsiders.cfg`;
`privatepay-server.cpp` 353-355): when the final transaction is refused, `SetNull` empties the entries before
`RelayStatus` goes through them, so nobody is told.

**Seen while modelling**, with no statement in the repository to contradict; the properties are stated around them.

- InstaPay: a vote that arrives after its transaction was mined has no confirmed height and never expires. A vote may name an
  outpoint that its transaction does not spend: `ProcessTxLockVote` records the hash for it (l. 350-354) before `AddVote` refuses the
  vote, and `CheckAndRemove` frees only a candidate's own outpoints, so the hash outlives its candidate and l. 203-204 and 336-337
  dereference `end()`. The outcome of that comparison is open in the model (`Forgotten`).
- Synchronisation: after an hour of sleep `ProcessTick` resets on every tick, since `nTimeLastProcess` is only set
  behind the early return; `SyncEnds` therefore has the premise `[]~slept`. `SwitchToNextAsset` can throw in the thread of
  `UpdatedBlockTip` too, when the tick fails between its tests and the call; `TickNeverThrows` is about the maintenance thread only.
- Masternode: a broadcast that arrives while the collateral is missing or the entry is banned is marked as seen and
  lost (`masternodeman.cpp` 1448); one within `MASTERNODE_MIN_MNB_SECONDS` of the listed one is lost too and erases the
  listed one from the seen ones; `OUTPOINT_SPENT` is left only by removal. `lost` records these.
- Payments: `CanVote` keeps one height per masternode, so votes for h, h+1, h pass (`forgotten`); it records the vote
  before its signature is checked, and a vote that cannot be checked yet is seen for good (`spoiled`). A forged vote has the hash
  of the good one, marks it as seen and takes its place at `CanVote` (`Rival`). `AddPaymentVote` may add this node's own vote twice. A
  node that is no masternode skips the ranks for past blocks, so that more than `SIGNATURES_TOTAL` voters may be counted.
- Governance: `CheckOrphanVotes` counts a vote in a copy of the object and drops it; `operator<` of two votes is never
  true, so one vote waits per key; a vote of a masternode that is indexed but no longer listed is invalid for good; a
  vote that was cleared with its masternode stays indexed and is not fetched again; `nTime` of a vote is never set, so
  the limit on the rate of votes never applies; a masternode that comes back before the cleaning does not know what it
  voted on (`confused`).

**Bounds.** Conflicts need two transactions and a shared outpoint; a torn lock needs a second
outpoint; quorum intersection of nodes needs three masternodes and quorum two (the code has 6 of 10; `QuorumAssumption`
is 2 * required > total). Expiry needs a height of 2 + keep above the initial block,
and height 4 or 5 leaves room for a vote or request after it. A reorganisation of depth one is as
deep as the smallest keep: deeper ones than `nInstaPayKeepLock` break the code's own
assumption that a lock is final by then. The spam rule already bites at time 0; a time of 1 (`live`) is enough for orphan votes to expire.

A pool of two is the smallest that mixes (the code has 3): two clients fill it, one of
them may be late, gone or doubled. Two joins each give a second session that meets messages, entries and signatures of the first; two denominations allow entries of another
one than the session's; a second coin lets a client return before its first one is mined. Both connections may
break, at different times. An outsider needs a third client.

Synchronisation: one peer is unasked, asked, timed out, disconnected and reconnected with its old records; with two the
safety properties hold as well (3 million states, `LiveSpec` replaced by `Spec`), and the theorems cover any number.
Two disturbances give a sleep after a reset, or a reset after a restart. Masternode: the limits keep the order of the
code's (`MasternodeAssumption`) at the smallest values, so that each age of a ping gives another state; two broadcasts give an update and a
recovery of either; the score bans at its first step and a ban lasts a block. `listlive` asks nobody in the recovery
(`QUORUM_TOTAL` 0), because no peer has to answer. Payments: quorum 2 of 3 is the smallest with an intersection; one fault is a
double vote that `CanVote` forgets and that makes two winners, a forged vote, or a restart (the invariants alone were also checked with
two faults, and with a node that is no masternode; the theorems cover any number of either). Governance: two votes are of one masternode at equal or different times, or of two; two faults
are a removal and a restart, or two removals, between which the masternode may come back; a quorum of 2 needs both.

**Fairness of InstaPay.** `QuorumLocks` assumes strong fairness of each message's reception, because the message
thread serves peers in turn and a handler that is running only delays a waiting message, and weak
fairness of the steps of its loop, and strong fairness of its second section, before which RPC or the wallet may take the lock. Nothing is assumed of masternodes, miners, maintenance and users.
Two limits are part of the property's instance: no rival exists (one could win, or tear the lock), and
there is one request (another one would trigger what refutes `SeenVotesProcessed`).

**Fairness of PrivatePay.** The server's message thread serves each client with strong fairness: it takes
peers in turn, and a message that is being handled for another client disables a client's own for a while. Clients' message
threads and the announcement of a complete queue have weak fairness. The timers are premises of the properties
that need them (`ServerTimer`, `ClientTimer`): they tick every second, and a `TRY_LOCK` that fails does so
for a moment. Nothing is assumed of users, connections and miners.
`ReadySessionCommits` excludes by `undisturbed` what may legally end a session: a timeout, a broken connection, a
busy lock, a further user at a full queue, an outdated wallet.

**Fairness of the others.** `SyncEnds`: weak fairness of the clock, the maintenance thread, blocks and the second half of `mnsync`; strong
fairness of a tick that finds a timeout, since data that comes always at the last moment would put it off; the
premise `Favourable` says that a peer that can be asked stays and that the data has pauses. `AnnouncedIsListed`: peers announce a broadcast again
when asked for it, pings are relayed, the maintenance thread runs every second; strong fairness of the check, because
it only tries to take `cs_main`. In Payments and Governance peers push votes again at every synchronisation
(`RequestLowDataPaymentBlocks`) and every tick (`RequestGovernanceObjectVotes`), so a vote that is wanted is
received in the end; the list is synchronised again after a restart, and the threads that add payment votes go on. Nothing is assumed of voters, owners, miners and failures.

## 5. Proofs

**InstaPay.** `InstaPay_proofs` proves for all values of the constants that satisfy `ConstantsAssumption`
(finite set of masternodes, non-empty inputs, bounds; no bound on their sizes):

- `TypeCorrect`: `Spec => []TypeOK`. One lemma per action; the part about chains
  (`BaseAndPopped`) bounds what rewinding and reactivation can build.
- `VotedOutpointSafe`: `Spec => []VotedOutpointHasCandidate`.
- `LocksNeedQuorum`: `Spec => []LockBackedByQuorum`.
- `MempoolStaysConsistent` and `HeightsStayTrue` (`MempoolConsistent`, `ConfirmedHeightIsTrue`).
- `MempoolHonoursLocksWhileChainsGrow`: `Spec /\ [][ChainsNeverShrink]_vars => []MempoolHonoursLocks`. The premise says
  that no step leaves a chain shorter than it was: what `ResolveConflicts` disconnects is connected again. Without it the property is false
  (`InstaPay_rewound.cfg`); with it blocks may have any number of transactions, and spork 3 may be on.

The inductive invariant of the first three is `LockInv`, three parts next to `TypeOK`:
`VotedOutpointHasCandidate` (of a transaction's own inputs, which expiry of its candidate erases together); `RunningCandidate`
(the request being processed has its candidate, because no expiry runs while the locks are held);
and `LockBackedByQuorum`. A lock is set only when all inputs are ready
(`LocksGrow`), counted votes only grow while their candidate lives (`ReadyIsMonotone`, over finite sets:
`VotesAreFinite`), and expiry frees every input of the candidate it removes.

The others need `ChainInv`: at each node (`NodeSound`) no outpoint is spent twice in the chain, nor in chain and
mempool together, and a candidate's confirmed height is the height of its block; the third theorem adds that the mempool fits the locks (`NodeHonours`).
The parts are not inductive without each other: `ResolveConflicts` clears the mempool for a lock, but what returns to it
when blocks are disconnected must not meet a rival that is locked or mined, and heights follow the same steps.

**Agreement.** `InstaPayAgreement_proofs` proves `MasternodesVoteOnce` (`OneVotePerOutpoint`), `NodesAgreeOnLocks`
(`NoConflictingLocks`), `LocksAreAtomic` (`LockIsAtomicUnlessRivalMined`) and `InstaPayImplementsTxLock`
(`ImplementsTxLock`, while no node restarts), for any network. They have hypotheses, which are the conditions under which
the design works:

- `DistinctMasternodes`, about the constants: no two nodes run with one masternode's key. Two would vote separately.
- `[][DeepBlocksStay]_vars`: a block under more than `nInstaPayKeepLock` others is never disconnected. A node forgets a
  vote when its transaction, or a rival, is buried that deep (`CheckAndRemove`), and from then on only the spent outpoint in the
  chain keeps it from voting for a rival. A reorganisation deeper than that breaks it, and so can spork 3 (block filtering):
  a block that contradicts a lock is not connected again, and each of several calls of `ResolveConflicts` may take
  `nInstaPayKeepLock` blocks off a chain that is already shorter. (That takes four contested outpoints, too many for the runs.)
- `DeepBlocksDoStay` reduces the hypothesis to two simpler ones: reorganisations are no deeper than
  `nInstaPayKeepLock`, and `[][ChainsNeverShrink]_vars` as above, with spork 3 on or off; `AgreementWhileChainsGrow` states the four results
  under these.

`AgreementInv` adds to the above `TipInv` (the notified tip is no higher than the chain once anything can expire) and `VoteInv`:
every counted, voted or orphan vote was sent (`VotesWereSent`), and of every vote a node's masternode has sent, the node still has
the vote or its chain spends the outpoint for good (`OwnVotesRemembered`). Agreement follows because two quorums of
more than half share a masternode. Atomicity is the same kind of fact about expiry: a lock has all its inputs, or a
rival of its transaction is buried for good (`LockAtomicDeep`). For the refinement, every step leaves quorums standing, so that `chosen` only
grows, and sets all locks of a transaction at once or erases them (`LocksCompleteOrStay`): each step is a step of `TxLock` or a
stutter.

**PrivatePay.** `PrivatePay_proofs` proves for all values of the constants that satisfy `PoolAssumption`
(any sets of clients, coins and denominations, pools of two or more):

- `TypeCorrect`: `Spec => []TypeOK`. Its inductive invariant `TypeInv` adds `QueuedHasDenom` (a client in the
  queue has chosen a denomination, so that its entry has one) and `WaitingIsServed` (the message a handler has begun with
  stays in its queue, even when the connection breaks).
- `PoolStaysConsistent`: `Spec => []PoolConsistent`, with `WaitingFits`: what the message thread
  found before it waited for `cs_main` still holds when it goes on, or the timer thread has emptied the pool. It is the
  fact that makes the lack of a common lock harmless here: a user who waits to join still finds room, since only
  the message thread adds users; an entry that waits still finds a full session or an empty, idle pool.
- `ClientsStayConsistent`: `Spec => []ClientsConsistent`, which is inductive under `TypeOK`.

`PrivatePaySessions_proofs` proves `SignersStayInThePool` (`SignersAreInThePool`), `SignaturesStayFit` (`SignaturesFit`) and
`MixesStayDifferent` (`MixesDifferentClients`) from the invariants above and `SessionInv`. Its parts: a client's requests are in the
order of its joins, and what it still may send belongs to a later join than what the server has seen (`EntriesInv`); identifiers are
none but those given out, and after the PPFINALTX of a session nobody is told to have joined it (`IdsInv`); a PPFINALTX under
way is that of the pool, or older than its reader's entry in the pool (`FinalsInv`); a signature under way is for the pool's
transaction, or its sender is not in the pool; signatures are for different inputs, and who has signed signs no other
input (`SignaturesInv`). The argument is about order: connections are FIFO and identifiers are not used twice, so an old
PPFINALTX or signature reaches its reader before anything of a newer session, and a signature that arrives late finds no
input it fits. TLC checked `SessionInv` on the instances of `mixing` (1.35 million states) and `outsiders` with a
broken connection before it was proved. `PrivatePayImplementsMixing` (`ImplementsMixing`) refines `Mixing`: what a client offers is `cEntries`,
its agreements are the signatures collected or under way (`Agreed`), a crowd is a set of `MaxPoolTransactions` clients. `SendDenominate` is an
offer (a client in the queue has none yet, by `ClientsConsistent`), `ClientSetNull` a withdrawal, `SignFinalTransaction` an agreement,
the last signature a mix (`WhatIsCommitted`; `CommittedOwners` and `CommittedMix` for the crowd), and every other step only loses
agreements (`AgreedShrinks`) or stutters. The mutant of that property shows why the client compares outputs: with inputs alone, TLC finds a
client that signs, in its second session, a transaction with the entry of its first. The assumption that identifiers are fresh is the model's (see its abstractions).

**MasternodeSync.** For all peers and limits under `SyncAssumption`: `TypeCorrect`, `OneIsPassedOverAtMost` (`Spec => []OnePassedOverAtMost`)
and `TheTickIsSafe` (`Spec => []TickNeverThrows`). The second needs `Balanced`: what was passed over, or will be because the tick has decided
to switch or counts an attempt for another asset (`Slips`), is one asset at most; it is none while a call that takes the asset to be INITIAL is still to
come (`Strays`), since such a call is the only way to overtake the tick, and there is one of it until the next reset. The third needs `TickInv`: while the
tick is in the middle the asset is not FAILED, because only the tick itself fails, and last.
For the types, `LoopEnds` shows that the loop over the peers ends where the model says, so that only an asset that can be asked for is
recorded as fulfilled, and `KeptArePeers` goes through the fold over the list of peers.

**Masternode.** For all limits under `MasternodeAssumption`: `TypeCorrect`, `ListedStaysSeen` (`ListedIsSeen`) and the
action properties `BansAreServed` (`BanIsServed`) and `RecoveryNeedsQuorum` (`NewStartNeedsQuorum`). The invariant `Inv` adds to the
types `RepliesAreAsked` (replies are kept only while their request is, and who has replied is not asked again), so that the count
of replies is a number of peers, and states `ListedIsSeen` of the record that `CheckMnbAndUpdateMasternodeList` changes.
`ProcessBroadcastCases` lists what that function can do, and `CheckAndRemoveStays` carries any property that each reply preserves
through the loop over them. That loop is a fold, and the step from one reply to all is an induction on the number
of replies: `NumberInduction` has a set where the library's theorem has a predicate, and `ReprocessAllStays` uses it to show that
the recursive function in the fold exists and stays in a given set. A ban ends only by `Check` at its height, or with the entry
(`CheckBringsNobodyBack`, `BroadcastEndsNoBan`).

**MasternodePayments.** For all voters, payees and any number of required signatures: `TypeCorrect`, `CountsStayHonest` (`CountsAreHonest`) and
`TwoWinnersNeedForgottenVotes` (`NoSplit`); and `TheNodeMinesValidBlocks` (`MinedBlockIsValid`) where `ForkBlock` is false. The invariant `Inv` has the
types, `Held` (what the message thread is about to add was signed, and was counted meanwhile only if it is this node's own), `CountInv` (the counts, with the own votes
that may count twice: not while a thread is about to add them), `Remembered` (the voter of every vote that is counted or about to be is in
`lastVote`, was forgotten, or is this node) and `TakenOnce`. `AddKeepsCounts` shows that a payee's count grows with the set of its votes, and
`NoSplit` follows by intersecting the voters of two winners, with nothing assumed of how many masternodes may vote. `BestPayeeExists` finds the first
payee with the most votes through a least number (`LeastNumber`); winners remain while a block is being mined (`WinnersRemain`), since nothing is cleaned up
before its height is long past.

**Governance.** For all masternodes, bounds and quorums: `TypeCorrect`, `IndexStaysTrue` (`IndexIsTrue`), `CurrentStaysNewest` (`CurrentIsNewest`),
`GoneStaysFlagged` (`GoneIsFlagged`) and the action property `DeletionHasQuorum` (`DeletionNeedsQuorum`: the counted yes votes are in the
vote file, one per masternode, and the quorum of the moment is `nGovernanceMinQuorum` at least). The invariant `Inv` adds `NothingWithoutObject` (an object that is not held has no votes, so that
receiving it starts afresh) and `CountedIsKnown` (a counted masternode was listed, and while it is it knows the object or came
back too early), from which its removal sets the flag and a vote without a file entry belongs to one that left.

**Model-checked only.** The liveness properties (`QuorumLocks`, `ServerRecovers`, `ClientsRecover`, `ReadySessionCommits`, `SyncEnds`,
`AnnouncedIsListed` and both `VotesAreCounted`): they rest on fairness and therefore on ENABLED, which the
prover does not handle. The finding and the further disagreements are counterexamples of TLC.

## 6. Not modelled

Bitcoin Core's own machinery, wallet, GUI, RPC, vendored libraries and the other directories of the
repository; sporks, whose values are constants here. `PROJECT.json` lists each with its reason. Of the modelled components:

- InstaPay: RBF, the values and fees of transactions, a change of sporks 2 and 3 while the node runs.
- PrivatePay: a user who switches mixing off (`fEnablePrivatePay`), several masternodes at once, dishonest signatures.
- MasternodeSync: the quick mode of REGTEST (`masternode-sync.cpp` 194-211), the limit of `mnodeman` on list requests.
- Masternode: the RPC path `UpdateMasternodeList` (`masternodeman.cpp` 1384-1404), UPDATE_REQUIRED and protocol versions, pings of unknown blocks, broadcasts signed before their collateral was
  confirmed, more than two broadcasts, ranks, the messages of the verification protocol, the masternode this node may be.
- MasternodePayments: superblocks and budgets, protocol versions, the choice of the payee to vote for, serving requests.
- Governance: votes with a forged signature, triggers, watchdogs, votes for other signals, validation of the data, orphan objects (whose masternode is
  unknown), full caches, key changes, the masternode index rebuilt above 30000 entries.
- Caches: pruning at the capacity, which no instance reaches; `CacheMultiMap::Insert` is `InsertOrphan`.
