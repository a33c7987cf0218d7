---------------------------- MODULE MasternodeSync ----------------------------
(***************************************************************************)
(* Synchronisation of the masternode data of one node                      *)
(* (src/2018/Jiaozi-new/src/masternode-sync.cpp): after the blockchain,    *)
(* the masternode list, the payment votes and the governance objects are   *)
(* requested from the peers, one asset after the other.                    *)
(*                                                                         *)
(* Three threads use the object without a lock: the maintenance thread     *)
(* (ProcessTick), the thread that connects a block (UpdatedBlockTip) and   *)
(* RPC (mnsync).  A step below ends where a thread has tested or reset the *)
(* state and acts upon it in another call: Fail, SwitchToNextAsset, or the *)
(* request of ProcessTick with its attempt.  The assignments of one such   *)
(* call are one step, and so is the walk of ProcessTick over the peers up  *)
(* to the one at which it ends.                                            *)
(*                                                                         *)
(* Not here: the quick mode of REGTEST, and the memory of mnodeman, which  *)
(* does not ask the same peer for the list twice in three hours.           *)
(*                                                                         *)
(* Time is counted in ticks of MASTERNODE_SYNC_TICK_SECONDS: the clock     *)
(* variables are the ages of the code's time stamps, up to the first value *)
(* that exceeds the limit they are compared with.                          *)
(*                                                                         *)
(* An operator whose name extends that of the definition after it is that  *)
(* definition with a plausible bug; no specification uses it.              *)
(***************************************************************************)
EXTENDS Integers, Sequences, FiniteSets, SequencesExt

CONSTANTS
  Peer,              \* the nodes this node may be connected to
  Unreliable,        \* peers that are masternode connections: never asked
  Old,               \* peers whose version is too low to be asked for data
  TIMEOUT,           \* MASTERNODE_SYNC_TIMEOUT_SECONDS, in ticks
  COOLDOWN,          \* the minute after a failure, in ticks
  MaxDisturbances    \* bound: sleeps, restarts and RPC commands

ASSUME SyncAssumption ==
  /\ Unreliable \subseteq Peer /\ Old \subseteq Peer
  /\ TIMEOUT \in Nat \ {0} /\ COOLDOWN \in Nat
  /\ MaxDisturbances \in Nat

VARIABLES
  asset,        \* nRequestedMasternodeAssets
  attempt,      \* nRequestedMasternodeAttempt: 0, 1, or 2 for more than one
  bumped,       \* age of nTimeLastBumped
  failed,       \* age of nTimeLastFailure
  slept,        \* nTimeLastProcess is more than an hour old
  noObjects,    \* age of nTimeNoObjectsLeft, Unset when it is 0
  fulfilled,    \* [Peer -> requests recorded by netfulfilledman and not expired]
  vNodes,       \* the connected peers, in the order in which they are asked
  due,          \* the next tick of the maintenance thread is due
  pc,           \* how far each thread is
  disturbances, \* sleeps, restarts and RPC commands so far
  asked,        \* history: the assets before GOVERNANCE requested since the last Reset
  commanded,    \* history: mnsync was used since the last reset by a tick
  crashed       \* SwitchToNextAsset threw in the maintenance thread

stateVars == <<asset, attempt, bumped, failed, asked>>

vars == <<asset, attempt, bumped, failed, slept, noObjects, fulfilled, vNodes,
          due, pc, disturbances, asked, commanded, crashed>>

Data == {"LIST", "MNW", "GOVERNANCE"}
Asset == Data \cup {"INITIAL", "FINISHED", "FAILED"}
Request == Data \cup {"FULL"}      \* "masternode-list-sync", ..., "full-sync"
Thread == {"tick", "tip", "rpc"}

\* Where a thread is: after a Reset or a test, before the call that follows.  The tick
\* is at Data when it has chosen the peer to ask for that.
Pc == Data \cup {"idle", "reset", "notFailed", "initial", "switch", "fail"}

Unset == -1

-----------------------------------------------------------------------------
(* Queries *)

IsFailed == asset = "FAILED"
IsSynced == asset = "FINISHED"
IsBlockchainSynced == asset \notin {"FAILED", "INITIAL"}

TimedOut == bumped > TIMEOUT
CooledDown == failed > COOLDOWN

HasFulfilledRequest(p, r) == r \in fulfilled[p]

\* The peers that ProcessTick considers at all, and those of them it drops.
Reliable(p) == p \notin Unreliable
Recent(p) == Reliable(p) /\ HasFulfilledRequest(p, "FULL")
Considered(p) == Reliable(p) /\ ~HasFulfilledRequest(p, "FULL")

Asks(p) == Considered(p) /\ p \notin Old /\ ~HasFulfilledRequest(p, asset)

\* GOVERNANCE: p was asked for its objects, and its answer to
\* RequestGovernanceObjectVotes can be that there is nothing left to ask.
CanBeExhausted(p) ==
  asset = "GOVERNANCE" /\ Considered(p) /\ p \notin Old /\ HasFulfilledRequest(p, asset)

ExhaustedForLong == noObjects > TIMEOUT

\* The nodes of the list that are in S, in its order.
Keep(nodes, S) ==
  FoldLeft(LAMBDA kept, p : IF p \in S THEN Append(kept, p) ELSE kept, <<>>, nodes)

-----------------------------------------------------------------------------
(* Reset, Fail, SwitchToNextAsset *)

Older(age, limit) == IF age > limit THEN age ELSE age + 1

\* Time stamps set to 0 are long ago.
Reset ==
  /\ asset' = "INITIAL" /\ attempt' = 0
  /\ bumped' = TIMEOUT + 1 /\ failed' = COOLDOWN + 1
  /\ asked' = {}

BumpAssetLastTime(a) == bumped' = IF a \in {"FINISHED", "FAILED"} THEN bumped ELSE 0

Successor(a) ==
  IF a = "INITIAL" THEN "LIST"
  ELSE IF a = "LIST" THEN "MNW"
  ELSE IF a = "MNW" THEN "GOVERNANCE" ELSE "FINISHED"

\* ClearFulfilledRequests: only the peers connected now.
ClearFulfilledRequests == [p \in Peer |-> IF p \in ToSet(vNodes) THEN {} ELSE fulfilled[p]]

FulfilledBySwitchUncleared ==
  [p \in Peer |-> IF asset = "GOVERNANCE" /\ p \in ToSet(vNodes)
                  THEN fulfilled[p] \cup {"FULL"} ELSE fulfilled[p]]

\* The effect on the fulfilled requests.
FulfilledBySwitch ==
  IF asset = "INITIAL" THEN ClearFulfilledRequests
  ELSE [p \in Peer |-> IF asset = "GOVERNANCE" /\ p \in ToSet(vNodes)
                       THEN fulfilled[p] \cup {"FULL"} ELSE fulfilled[p]]

SwitchToNextAsset(thread) ==
  /\ failed' = failed
  /\ asked' = asked
  /\ IF IsFailed
     THEN /\ crashed' = (crashed \/ thread = "tick")
          /\ UNCHANGED <<asset, attempt, bumped, fulfilled>>
     ELSE /\ asset' = Successor(asset)
          /\ attempt' = 0
          /\ BumpAssetLastTime(asset')
          /\ fulfilled' = FulfilledBySwitch
          /\ UNCHANGED crashed

Fail ==
  /\ asset' = "FAILED" /\ failed' = 0
  /\ UNCHANGED <<attempt, bumped, asked>>

-----------------------------------------------------------------------------
(* ProcessTick *)

\* Time passes until the next tick.
Elapse ==
  /\ ~due
  /\ due' = TRUE
  /\ bumped' = Older(bumped, TIMEOUT)
  /\ failed' = Older(failed, COOLDOWN)
  /\ noObjects' = IF noObjects = Unset THEN Unset ELSE Older(noObjects, TIMEOUT)
  /\ UNCHANGED <<asset, attempt, slept, fulfilled, vNodes, pc, disturbances,
                 asked, commanded, crashed>>

BeginTick ==
  /\ due /\ pc["tick"] = "idle"
  /\ due' = FALSE
  /\ UNCHANGED <<slept, disturbances>>

\* The reset of ProcessTick; its SwitchToNextAsset is the next step.
ResetByTick ==
  /\ Reset
  /\ commanded' = (pc["rpc"] # "idle")
  /\ pc' = [pc EXCEPT !["tick"] = "reset"]
  /\ UNCHANGED <<noObjects, fulfilled, vNodes, crashed>>

TickAfterSleep == BeginTick /\ slept /\ ResetByTick

TickFailedImpatient ==
  /\ BeginTick /\ ~slept /\ IsFailed
  /\ SwitchToNextAsset("tick")
  /\ UNCHANGED <<noObjects, vNodes, pc, commanded>>

TickFailed ==
  /\ BeginTick /\ ~slept /\ IsFailed
  /\ \/ CooledDown /\ ResetByTick
     \/ ~CooledDown /\ UNCHANGED <<stateVars, noObjects, fulfilled, vNodes, pc, commanded, crashed>>

\* RequestGovernanceObjectVotes changes nothing that is modelled here.
TickSynced ==
  /\ BeginTick /\ ~slept /\ IsSynced
  /\ UNCHANGED <<stateVars, noObjects, fulfilled, vNodes, pc, commanded, crashed>>

\* The peers before the k-th have been passed over: those synced from recently
\* are dropped, those too old are noted as asked all the same.
PassedOver(k) == {vNodes[i] : i \in 1 .. k - 1}

Remaining(k) == Keep(vNodes, {p \in Peer : ~(p \in PassedOver(k) /\ Recent(p))})

NotedAlways(k) ==
  [p \in Peer |-> IF p \in PassedOver(k) /\ Considered(p)
                  THEN fulfilled[p] \cup {asset} ELSE fulfilled[p]]

Noted(k) ==
  [p \in Peer |-> IF p \in PassedOver(k) /\ Considered(p) /\ asset \in Data
                  THEN fulfilled[p] \cup {asset} ELSE fulfilled[p]]

\* The loop ends at a peer if the asset has timed out or there is enough data,
\* if the peer is asked, or if it is the first with nothing left to ask (e)
\* and few votes have come lately.
EndsAt(p, e, enough, few) ==
  /\ asset \in Data /\ Considered(p)
  /\ \/ TimedOut \/ Asks(p)
     \/ asset = "MNW" /\ attempt > 1 /\ enough
     \/ p \in e /\ ExhaustedForLong /\ few

LoopEnd(e, enough, few) ==
  CHOOSE k \in 1 .. Len(vNodes) + 1 :
    /\ \A i \in 1 .. k - 1 : ~EndsAt(vNodes[i], e, enough, few)
    /\ k \in DOMAIN vNodes => EndsAt(vNodes[k], e, enough, few)

\* nTimeNoObjectsLeft, when the peers up to the k-th have answered.
NoObjectsAfter(k, e) ==
  IF noObjects = Unset /\ ~TimedOut /\ e # {} /\ e \subseteq PassedOver(k) THEN 0 ELSE noObjects

TickGoesTo(place) == pc' = [pc EXCEPT !["tick"] = place]

\* Nobody was left to ask in this tick.
LoopThrough(k, e) ==
  /\ k = Len(vNodes) + 1
  /\ fulfilled' = Noted(k)
  /\ noObjects' = NoObjectsAfter(k, e)
  /\ UNCHANGED pc

TimeOutAndGoOn(k) ==
  /\ k \in DOMAIN vNodes /\ TimedOut
  /\ TickGoesTo("switch")
  /\ fulfilled' = Noted(k)
  /\ UNCHANGED noObjects

\* If no peer was asked, there is no way to go on, except without governance.
TimeOut(k) ==
  /\ k \in DOMAIN vNodes /\ TimedOut
  /\ TickGoesTo(IF attempt = 0 /\ asset # "GOVERNANCE" THEN "fail" ELSE "switch")
  /\ fulfilled' = Noted(k)
  /\ UNCHANGED noObjects

\* Enough payment votes, or all governance objects asked for long ago.
FoundEnoughData(k, e, enough, few) ==
  /\ k \in DOMAIN vNodes /\ ~TimedOut
  /\ \/ /\ asset = "MNW" /\ attempt > 1 /\ enough
        /\ noObjects' = noObjects
     \/ /\ vNodes[k] \in e /\ ExhaustedForLong /\ few
        /\ noObjects' = Unset
  /\ TickGoesTo("switch")
  /\ fulfilled' = Noted(k)

\* The peer is noted as asked before it is.
ChoosePeer(k, e, enough) ==
  /\ k \in DOMAIN vNodes /\ ~TimedOut /\ Asks(vNodes[k])
  /\ ~(asset = "MNW" /\ attempt > 1 /\ enough)
  /\ TickGoesTo(asset)
  /\ fulfilled' = [Noted(k) EXCEPT ![vNodes[k]] = @ \cup {asset}]
  /\ noObjects' = NoObjectsAfter(k, e)

\* exhausted: the first peer in the loop with nothing left to ask, if any.
TickLoop ==
  /\ BeginTick /\ ~slept /\ ~IsFailed /\ ~IsSynced
  /\ \E e \in {{}} \cup {{p} : p \in {q \in ToSet(vNodes) : CanBeExhausted(q)}}, enough, few \in BOOLEAN :
       LET k == LoopEnd(e, enough, few)
       IN /\ \/ LoopThrough(k, e)
             \/ TimeOut(k)
             \/ FoundEnoughData(k, e, enough, few)
             \/ ChoosePeer(k, e, enough)
          /\ vNodes' = Remaining(k)
  /\ UNCHANGED <<stateVars, commanded, crashed>>

ProcessTick == TickAfterSleep \/ TickFailed \/ TickSynced \/ TickLoop

GoOn(thread) ==
  /\ pc' = [pc EXCEPT ![thread] = "idle"]
  /\ UNCHANGED <<slept, noObjects, vNodes, due, disturbances, commanded>>

\* The asset is taken to be the one that the loop has seen.
TickSwitches == pc["tick"] = "switch" /\ SwitchToNextAsset("tick") /\ GoOn("tick")

TickFails ==
  /\ pc["tick"] = "fail"
  /\ Fail
  /\ GoOn("tick")
  /\ UNCHANGED <<fulfilled, crashed>>

\* DsegUpdate, MASTERNODEPAYMENTSYNC or SendGovernanceSyncRequest: the attempt counts
\* for the asset of now.
RequestFromPeer ==
  /\ pc["tick"] \in Data
  /\ attempt' = IF attempt = 2 THEN 2 ELSE attempt + 1
  /\ asked' = asked \cup ({pc["tick"]} \cap {"LIST", "MNW"})
  /\ GoOn("tick")
  /\ UNCHANGED <<asset, bumped, failed, fulfilled, crashed>>

\* After a reset: the asset is taken to be INITIAL.
SwitchAfterReset(thread) ==
  /\ pc[thread] = "reset"
  /\ SwitchToNextAsset(thread)
  /\ GoOn(thread)

-----------------------------------------------------------------------------
(* UpdatedBlockTip, mnsync and the messages of the peers *)

UpdatedBlockTip ==
  /\ pc["tip"] = "idle" /\ ~IsFailed
  /\ pc' = [pc EXCEPT !["tip"] = "notFailed"]
  /\ UNCHANGED <<stateVars, slept, noObjects, fulfilled, vNodes, due,
                 disturbances, commanded, crashed>>

UpdatedBlockTipTested ==
  /\ pc["tip"] = "notFailed"
  /\ IF IsBlockchainSynced
     THEN BumpAssetLastTime(asset) /\ pc' = [pc EXCEPT !["tip"] = "idle"]
     ELSE UNCHANGED bumped /\ pc' = [pc EXCEPT !["tip"] = "initial"]
  /\ UNCHANGED <<asset, attempt, failed, slept, noObjects, fulfilled, vNodes, due,
                 disturbances, asked, commanded, crashed>>

UpdatedBlockTipSwitches == pc["tip"] = "initial" /\ SwitchToNextAsset("tip") /\ GoOn("tip")

Disturb ==
  /\ disturbances < MaxDisturbances
  /\ disturbances' = disturbances + 1

MnsyncNext ==
  /\ Disturb /\ pc["rpc"] = "idle"
  /\ SwitchToNextAsset("rpc")
  /\ commanded' = TRUE
  /\ UNCHANGED <<slept, noObjects, vNodes, due, pc>>

MnsyncReset ==
  /\ Disturb /\ pc["rpc"] = "idle"
  /\ Reset
  /\ commanded' = TRUE
  /\ pc' = [pc EXCEPT !["rpc"] = "reset"]
  /\ UNCHANGED <<slept, noObjects, fulfilled, vNodes, due, crashed>>

\* New masternodes, pings, payment votes and governance objects.
DataReceived ==
  /\ vNodes # <<>>
  /\ BumpAssetLastTime(asset)
  /\ UNCHANGED <<asset, attempt, failed, slept, noObjects, fulfilled, vNodes, due,
                 pc, disturbances, asked, commanded, crashed>>

-----------------------------------------------------------------------------
(* The network, the clock and the process *)

NetworkOnly ==
  UNCHANGED <<stateVars, slept, noObjects, due, pc, disturbances, commanded, crashed>>

Connect(p) ==
  /\ p \notin ToSet(vNodes)
  /\ vNodes' = Append(vNodes, p)
  /\ UNCHANGED fulfilled /\ NetworkOnly

Disconnect(p) ==
  /\ p \in ToSet(vNodes)
  /\ vNodes' = Keep(vNodes, Peer \ {p})
  /\ UNCHANGED fulfilled /\ NetworkOnly

\* FulfilledRequestExpireTime: an hour after the request.
Expire(p, r) ==
  /\ HasFulfilledRequest(p, r)
  /\ fulfilled' = [fulfilled EXCEPT ![p] = @ \ {r}]
  /\ UNCHANGED vNodes /\ NetworkOnly

\* The computer sleeps: long enough for the timeouts, or for an hour and more.
Sleep(hour) ==
  /\ Disturb
  /\ due' = TRUE
  /\ bumped' = TIMEOUT + 1 /\ failed' = COOLDOWN + 1
  /\ noObjects' = IF noObjects = Unset THEN Unset ELSE TIMEOUT + 1
  /\ slept' = (slept \/ hour)
  /\ fulfilled' = IF hour THEN [p \in Peer |-> {}] ELSE fulfilled
  /\ UNCHANGED <<asset, attempt, vNodes, pc, asked, commanded, crashed>>

\* AppInit2 calls UpdatedBlockTip once, before there are peers: in the initial
\* block download or not.
FirstAsset == {"INITIAL", "LIST"}

\* netfulfilled.dat survives a restart.
Restart ==
  /\ Disturb
  /\ asset' \in FirstAsset
  /\ attempt' = 0 /\ bumped' = 0 /\ failed' = COOLDOWN + 1
  /\ slept' = FALSE /\ noObjects' = Unset
  /\ vNodes' = <<>> /\ due' = FALSE /\ pc' = [t \in Thread |-> "idle"]
  /\ asked' = {} /\ commanded' = FALSE
  /\ UNCHANGED <<fulfilled, crashed>>

Init ==
  /\ asset \in FirstAsset
  /\ attempt = 0 /\ bumped = 0 /\ failed = COOLDOWN + 1
  /\ slept = FALSE /\ noObjects = Unset
  /\ vNodes = <<>> /\ due = FALSE /\ pc = [t \in Thread |-> "idle"]
  /\ asked = {} /\ commanded = FALSE
  /\ fulfilled = [p \in Peer |-> {}]
  /\ disturbances = 0 /\ crashed = FALSE

MaintenanceThread ==
  ProcessTick \/ TickSwitches \/ TickFails \/ RequestFromPeer \/ SwitchAfterReset("tick")

TipThread == UpdatedBlockTip \/ UpdatedBlockTipTested \/ UpdatedBlockTipSwitches

RpcThread == MnsyncNext \/ MnsyncReset \/ SwitchAfterReset("rpc")

Environment ==
  \/ Elapse \/ DataReceived
  \/ \E p \in Peer : Connect(p) \/ Disconnect(p) \/ \E r \in Request : Expire(p, r)
  \/ \E hour \in BOOLEAN : Sleep(hour)
  \/ Restart

Next == MaintenanceThread \/ TipThread \/ RpcThread \/ Environment

Spec == Init /\ [][Next]_vars

-----------------------------------------------------------------------------
(* Properties *)

\* The variables have their types.
TypeOK ==
  /\ asset \in Asset /\ attempt \in 0 .. 2
  /\ bumped \in 0 .. TIMEOUT + 1 /\ failed \in 0 .. COOLDOWN + 1
  /\ slept \in BOOLEAN /\ due \in BOOLEAN
  /\ noObjects \in -1 .. TIMEOUT + 1
  /\ fulfilled \in [Peer -> SUBSET Request]
  /\ vNodes \in Seq(Peer)
  /\ pc \in [Thread -> Pc]
  /\ disturbances \in 0 .. MaxDisturbances
  /\ asked \in SUBSET {"LIST", "MNW"}
  /\ commanded \in BOOLEAN /\ crashed \in BOOLEAN

\* The assets before the present one.
Before(a) ==
  IF a = "MNW" THEN {"LIST"} ELSE IF a \in {"GOVERNANCE", "FINISHED"} THEN {"LIST", "MNW"} ELSE {}

\* Whatever the races between the tick and the block notification do, they let at most
\* one asset before governance pass without a request since the reset, unless mnsync is
\* used: each thread acts on a test of INITIAL once, and ProcessTick fails when an asset
\* times out with nobody asked.
OnePassedOverAtMost ==
  commanded \/ \A a, b \in Before(asset) \ asked : a = b

\* "there is no way we can continue without masternode list, fail here and try later"
\* (ProcessTick): without mnsync the list is not left before a peer was asked for it.
ListIsNotPassedOver == commanded \/ "LIST" \notin Before(asset) \ asked

\* The maintenance thread never runs into the exception of SwitchToNextAsset, which
\* nothing catches there, although the other threads change the asset under it.
TickNeverThrows == ~crashed
=============================================================================
