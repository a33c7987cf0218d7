------------------------------ MODULE Masternode ------------------------------
(***************************************************************************)
(* What one node knows of one masternode                                   *)
(* (src/2018/Jiaozi-new/src/masternodeman.cpp, masternode.cpp): its entry  *)
(* in the list, the broadcasts and pings that were seen, the ban for a bad *)
(* proof of service, and the recovery of a masternode that was given up.   *)
(*                                                                         *)
(* The owner announces the masternode with broadcasts 1, 2, ... and signs  *)
(* pings; the network brings the broadcasts and the latest ping to this    *)
(* node, late, again or never.  Every handler runs under cs_main; Check    *)
(* also runs in the maintenance thread, which only tries to get it.        *)
(*                                                                         *)
(* Time is counted in steps of MIN_MNB; ages stop at the first value that  *)
(* exceeds every limit they are compared with.  Not here: protocol         *)
(* versions, signatures that do not match, pings of an unknown block, the  *)
(* masternode this node may itself be, and broadcasts given by RPC         *)
(* (UpdateMasternodeList, masternodeman.cpp, l. 1384-1404).                *)
(*                                                                         *)
(* An operator whose name extends that of the definition after it is that  *)
(* definition with a plausible bug; no specification uses it.              *)
(***************************************************************************)
EXTENDS Integers, FiniteSets, FiniteSetsExt

CONSTANTS
  Peer,              \* the nodes that can be asked for a broadcast again
  MaxBroadcasts,     \* bound: broadcasts of the owner
  MaxFaults,         \* bound: lost collaterals, verifications and restarts
  MIN_MNB,           \* MASTERNODE_MIN_MNB_SECONDS
  MIN_MNP,           \* MASTERNODE_MIN_MNP_SECONDS
  STALE,             \* the age of a ping whose block is more than 24 blocks back
  EXPIRATION,        \* MASTERNODE_EXPIRATION_SECONDS
  NEW_START,         \* MASTERNODE_NEW_START_REQUIRED_SECONDS
  RETRY,             \* MNB_RECOVERY_RETRY_SECONDS
  MAX_SCORE,         \* MASTERNODE_POSE_BAN_MAX_SCORE
  BAN,               \* the blocks a ban lasts: the size of the list
  QUORUM_TOTAL,      \* MNB_RECOVERY_QUORUM_TOTAL
  QUORUM_REQUIRED    \* MNB_RECOVERY_QUORUM_REQUIRED

ASSUME MasternodeAssumption ==
  /\ IsFiniteSet(Peer)
  /\ MaxBroadcasts \in Nat \ {0} /\ MaxFaults \in Nat
  /\ MIN_MNB \in Nat \ {0} /\ MIN_MNP \in Nat /\ MIN_MNP >= MIN_MNB
  /\ STALE \in Nat /\ STALE > MIN_MNP
  /\ EXPIRATION \in Nat /\ EXPIRATION >= STALE
  /\ NEW_START \in Nat /\ NEW_START > EXPIRATION /\ NEW_START >= STALE + MIN_MNP - 1
  /\ RETRY \in Nat \ {0} /\ MAX_SCORE \in Nat \ {0} /\ BAN \in Nat \ {0}
  /\ QUORUM_TOTAL \in Nat /\ QUORUM_REQUIRED \in Nat \ {0}

VARIABLES
  collateral,  \* the masternode's coin in this node's chain: "missing", "young" or "ok"
  published,   \* the broadcasts of the owner so far
  bAge,        \* [broadcast -> its age]
  sent,        \* the owner's latest ping
  sentSeen,    \* sent is in mapSeenMasternodePing
  mn,          \* the masternode's entry in vMasternodes, or NoEntry
  seen,        \* mapSeenMasternodeBroadcast: [broadcast -> age of its lastPing, or Unseen]
  request,     \* mMnbRecoveryRequests: [broadcast -> NoRequest, or age and peers left]
  replies,     \* mMnbRecoveryGoodReplies: [broadcast -> NoReplies, or count, first, from]
  sync,        \* the asset being synchronised: "LIST", "LATER" or "FINISHED"
  faults,      \* lost collaterals, verifications and restarts so far
  lost         \* history: broadcasts marked as seen and dropped, for whatever reason

ownerVars == <<published, bAge, sent>>
vars == <<collateral, published, bAge, sent, sentSeen, mn, seen, request,
          replies, sync, faults, lost>>

Broadcast == 1 .. MaxBroadcasts
Active == {"PRE_ENABLED", "ENABLED"}
State == Active \cup
         {"EXPIRED", "WATCHDOG_EXPIRED", "NEW_START_REQUIRED", "POSE_BAN", "OUTPOINT_SPENT"}

NoEntry == [sig |-> 0]
NoRequest == [age |-> -1, left |-> {}]
NoReplies == [count |-> 0, first |-> [age |-> NEW_START, mature |-> 0], from |-> {}]
Unseen == -1

Listed == mn # NoEntry

-----------------------------------------------------------------------------
(* CMasternode::Check *)

PingedWithin(ping, limit) == ping.age < limit

\* IsSynced and a watchdog is active, and the masternode's vote for it may be late.
LateVote == IF sync = "FINISHED" THEN BOOLEAN ELSE {FALSE}

\* The state that follows from the age of the last ping.
StateByPing(e, late) ==
  LET waitForPing == sync = "LIST" /\ ~PingedWithin(e.ping, MIN_MNP)
  IN  IF waitForPing /\ e.state \in {"EXPIRED", "WATCHDOG_EXPIRED", "NEW_START_REQUIRED"}
      THEN e.state
      ELSE IF ~waitForPing /\ ~PingedWithin(e.ping, NEW_START) THEN "NEW_START_REQUIRED"
      ELSE IF ~waitForPing /\ late THEN "WATCHDOG_EXPIRED"
      ELSE IF ~waitForPing /\ ~PingedWithin(e.ping, EXPIRATION) THEN "EXPIRED"
      ELSE IF e.ping.mature < e.sig THEN "PRE_ENABLED" ELSE "ENABLED"

DecreasePoSeBanScore(score) == IF score > -MAX_SCORE THEN score - 1 ELSE score
IncreasePoSeBanScore(score) == IF score < MAX_SCORE THEN score + 1 ELSE score

CheckAgain(e, late) ==
  IF e.state = "OUTPOINT_SPENT" THEN e
  ELSE IF collateral = "missing" THEN [e EXCEPT !.state = "OUTPOINT_SPENT"]
  ELSE IF e.state = "POSE_BAN"
  THEN IF e.banLeft > 0 THEN e
       ELSE LET unbanned == [e EXCEPT !.score = DecreasePoSeBanScore(@)]
            IN  [unbanned EXCEPT !.state = StateByPing(unbanned, late)]
  ELSE IF e.score >= MAX_SCORE THEN [e EXCEPT !.state = "POSE_BAN", !.banLeft = BAN]
  ELSE [e EXCEPT !.state = StateByPing(e, late)]

\* Check(true), and Check() when MASTERNODE_CHECK_SECONDS have passed.
ForcedCheck(e, late) == [CheckAgain(e, late) EXCEPT !.checked = TRUE]

Check(e, late) == IF e.checked THEN e ELSE ForcedCheck(e, late)

-----------------------------------------------------------------------------
(* CMasternodePing::CheckAndUpdate *)

\* The ping is taken as the entry's last one.
Accepts(e, ping) ==
  /\ ping.age < STALE
  /\ e.ping.age - ping.age >= MIN_MNP

\* The copy of the entry's broadcast, when there is one, gets the ping too.
WithPing(sn, sig, ping) == IF sn[sig] = Unseen THEN sn ELSE [sn EXCEPT ![sig] = ping.age]

-----------------------------------------------------------------------------
(* CheckMnbAndUpdateMasternodeList for a broadcast that was not seen, or    *)
(* that is reprocessed by the recovery.  l is the part of the state that it *)
(* changes: the entry, mapSeenMasternodeBroadcast and the two histories.    *)

\* UpdateFromNewBroadcast and the Check after it.
UpdateFromNewBroadcast(l, b, ping, late) ==
  LET accepted == Accepts(l.mn, ping)
      e == [l.mn EXCEPT !.sig = b, !.score = 0, !.banLeft = 0,
                        !.ping = IF accepted THEN ping ELSE @]
  IN  [l EXCEPT !.mn = ForcedCheck(e, late),
                !.seen = IF accepted THEN WithPing(@, b, ping) ELSE @]

\* mapSeenMasternodeBroadcast[hash of the entry] inserts an empty broadcast when
\* there is none, and an empty one is not erased.
ListedCopy(l) == IF l.seen[l.mn.sig] = Unseen
                 THEN [l EXCEPT !.seen[l.mn.sig] = NEW_START] ELSE l

\* After an update the old broadcast is erased, unless it was reprocessed.
EraseListedAlways(l, sig, b) ==
  IF l.seen[sig] = Unseen THEN l ELSE [l EXCEPT !.seen[sig] = Unseen]

EraseListed(l, sig, b) ==
  IF sig = b \/ l.seen[sig] = Unseen THEN l ELSE [l EXCEPT !.seen[sig] = Unseen]

\* Banned by PoSe.
RefusesUpdateNever(e) == FALSE

RefusesUpdate(e) == e.state = "POSE_BAN"

\* CMasternodeBroadcast::Update, when the masternode is listed.
UpdateListed(l, b, ping, recovery, late) ==
  LET old == l.mn.sig
      hadCopy == l.seen[old] # Unseen
      checked == [ListedCopy(l) EXCEPT !.mn = Check(@, late)]
      updated == IF bAge[old] >= MIN_MNB
                 THEN UpdateFromNewBroadcast(checked, b, ping, late)
                 ELSE [checked EXCEPT !.lost = @ \cup {b}]
  IN  IF old > b \/ (old = b /\ ~recovery) THEN ListedCopy(l)
      ELSE IF RefusesUpdate(checked.mn) THEN [checked EXCEPT !.lost = @ \cup {b}]
      ELSE IF hadCopy THEN EraseListed(updated, old, b) ELSE updated

\* CMasternodeBroadcast::CheckOutpoint and Add, when it is not listed.
AddNewForgetful(l, b, ping) ==
  IF collateral = "missing" THEN [l EXCEPT !.lost = @ \cup {b}]
  ELSE IF collateral = "young" THEN l
  ELSE [l EXCEPT !.mn = [sig |-> b, state |-> "ENABLED", ping |-> ping,
                         score |-> 0, banLeft |-> 0, checked |-> FALSE]]

AddNew(l, b, ping) ==
  IF collateral = "missing" THEN [l EXCEPT !.lost = @ \cup {b}]
  ELSE IF collateral = "young" THEN [l EXCEPT !.seen[b] = Unseen]
  ELSE [l EXCEPT !.mn = [sig |-> b, state |-> "ENABLED", ping |-> ping,
                         score |-> 0, banLeft |-> 0, checked |-> FALSE]]

ProcessBroadcast(l, b, ping, recovery, late) ==
  LET marked == [l EXCEPT !.seen[b] = IF @ = Unseen THEN ping.age ELSE @]
  IN  IF l.mn = NoEntry THEN AddNew(marked, b, ping)
      ELSE UpdateListed(marked, b, ping, recovery, late)

-----------------------------------------------------------------------------
(* Messages *)

Known == [mn |-> mn, seen |-> seen, lost |-> lost]

Becomes(l) == mn' = l.mn /\ seen' = l.seen /\ lost' = l.lost

\* AlreadyHave answers no, so that the broadcast is fetched.
Wanted(b) == b <= published /\ (seen[b] = Unseen \/ request[b] # NoRequest)

\* MNANNOUNCE of a broadcast that was not seen.  Its ping is also marked as seen when
\* it is taken; receiving it again would be refused as too early.
ReceiveBroadcast(b) ==
  /\ Wanted(b) /\ seen[b] = Unseen
  /\ \E late \in LateVote : Becomes(ProcessBroadcast(Known, b, sent, FALSE, late))
  /\ UNCHANGED <<ownerVars, collateral, sentSeen, request, replies, sync, faults>>

\* A peer that was asked by the recovery may reply once, until the deadline.
MayReply(p, b) == request[b] # NoRequest /\ request[b].age = 0 /\ p \in request[b].left

AskedNoMoreStill(p, b) == request

AskedNoMore(p, b) == [request EXCEPT ![b].left = @ \ {p}]

\* The projected state of the masternode, if the reply were believed, is valid for
\* a start (IsValidStateForAutoStart; a late watchdog vote makes no difference).
SaysAlive(b) ==
  LET e == [sig |-> b, state |-> "ENABLED", ping |-> sent, score |-> 0, banLeft |-> 0,
            checked |-> FALSE]
  IN  Check(e, FALSE).state \in Active \cup {"EXPIRED"}

\* MNANNOUNCE of a broadcast that was seen, from a peer that was asked for it.
ReceiveRecoveryReply(p, b) ==
  /\ Wanted(b) /\ seen[b] # Unseen /\ MayReply(p, b)
  /\ request' = AskedNoMore(p, b)
  /\ replies' = IF sent.age < seen[b] /\ SaysAlive(b)
                THEN [replies EXCEPT ![b] =
                        [count |-> @.count + 1, from |-> @.from \cup {p},
                         first |-> IF @.count = 0 THEN sent ELSE @.first]]
                ELSE replies
  /\ UNCHANGED <<ownerVars, collateral, sentSeen, mn, seen, sync, faults, lost>>

\* Too late, a new broadcast is required.
RefusesPing(e) == e.state = "NEW_START_REQUIRED"

\* MNPING: the ping is marked as seen before anything is checked.
ReceivePing ==
  /\ published > 0 /\ ~sentSeen
  /\ sentSeen' = TRUE
  /\ IF Listed /\ ~RefusesPing(mn) /\ Accepts(mn, sent)
     THEN /\ \E late \in LateVote : mn' = ForcedCheck([mn EXCEPT !.ping = sent], late)
          /\ seen' = WithPing(seen, mn.sig, sent)
     ELSE UNCHANGED <<mn, seen>>
  /\ UNCHANGED <<ownerVars, collateral, request, replies, sync, faults, lost>>

\* PPEG: answering a request for the list puts the entry's broadcast back.
AnswerListRequest ==
  /\ sync = "FINISHED" /\ Listed /\ seen[mn.sig] = Unseen
  /\ seen' = [seen EXCEPT ![mn.sig] = mn.ping.age]
  /\ UNCHANGED <<ownerVars, collateral, sentSeen, mn, request, replies, sync, faults, lost>>

-----------------------------------------------------------------------------
(* The maintenance thread *)

\* CMasternodeMan::Check, which goes without the check when cs_main is held.
CheckMasternode ==
  /\ Listed /\ ~mn.checked
  /\ \/ \E late \in LateVote : mn' = Check(mn, late)
     \/ mn' = [mn EXCEPT !.checked = TRUE]
  /\ UNCHANGED <<ownerVars, collateral, sentSeen, seen, request, replies, sync, faults, lost>>

\* MASTERNODE_CHECK_SECONDS after the last Check.
CheckAgainSoon ==
  /\ Listed /\ mn.checked
  /\ mn' = [mn EXCEPT !.checked = FALSE]
  /\ UNCHANGED <<ownerVars, collateral, sentSeen, seen, request, replies, sync, faults, lost>>

RemoveSpent(l) == IF l.mn # NoEntry /\ l.mn.state = "OUTPOINT_SPENT"
                  THEN [l EXCEPT !.mn = NoEntry, !.seen[l.mn.sig] = Unseen] ELSE l

\* The peers that may be asked are ranked at random; some were asked recently.
AsksForRecovery(e) ==
  sync = "FINISHED" /\ e # NoEntry /\ e.state = "NEW_START_REQUIRED" /\ request[e.sig] = NoRequest

Asked(e, peers) ==
  IF AsksForRecovery(e) THEN [request EXCEPT ![e.sig] = [age |-> 0, left |-> peers]] ELSE request

\* The replies whose deadline has passed, and what follows from them.
Answered(req) == {b \in Broadcast : replies[b] # NoReplies /\ req[b].age # 0}

ReprocessAny(l, b, late) == ProcessBroadcast(l, b, replies[b].first, TRUE, late)

Reprocess(l, b, late) ==
  IF replies[b].count >= QUORUM_REQUIRED
  THEN ProcessBroadcast(l, b, replies[b].first, TRUE, late) ELSE l

\* One after the other, in some order: the code's map is ordered by the hashes.
ReprocessAll(l, bs, late) == FoldSet(LAMBDA b, k : Reprocess(k, b, late), l, bs)

CheckAndRemove ==
  /\ sync # "LIST"
  /\ \E late \in LateVote, peers \in {S \in SUBSET Peer : Cardinality(S) <= QUORUM_TOTAL} :
       LET checked == [Known EXCEPT !.mn = IF Listed THEN Check(@, late) ELSE @]
           kept == RemoveSpent(checked)
           req == Asked(kept.mn, peers)
       IN  /\ ~AsksForRecovery(kept.mn) => peers = {}
           /\ Becomes(ReprocessAll(kept, Answered(req), late))
           /\ replies' = [b \in Broadcast |-> IF b \in Answered(req) THEN NoReplies ELSE replies[b]]
           /\ request' = [b \in Broadcast |-> IF req[b].age > RETRY THEN NoRequest ELSE req[b]]
  /\ UNCHANGED <<ownerVars, collateral, sentSeen, sync, faults>>

-----------------------------------------------------------------------------
(* Proof of service, restarts, the chain, the owner and time *)

\* These events are rare: they are counted, so that TLC can bound them.
Fault == faults < MaxFaults /\ faults' = faults + 1

\* CheckSameAddr, ProcessVerifyReply and ProcessVerifyBroadcast.
FailVerification ==
  /\ Fault /\ Listed
  /\ mn' = [mn EXCEPT !.score = IncreasePoSeBanScore(@)]
  /\ UNCHANGED <<ownerVars, collateral, sentSeen, seen, request, replies, sync, lost>>

\* ProcessVerifyReply, for a masternode that is not IsPoSeVerified.
PassVerification ==
  /\ Fault /\ Listed /\ mn.score > -MAX_SCORE
  /\ mn' = [mn EXCEPT !.score = DecreasePoSeBanScore(@)]
  /\ UNCHANGED <<ownerVars, collateral, sentSeen, seen, request, replies, sync, lost>>

\* mncache.dat is read back, or it is missing.
Restart ==
  /\ Fault
  /\ sync' = "LIST"
  /\ \/ UNCHANGED <<sentSeen, mn, seen, request, replies, lost>>
     \/ /\ sentSeen' = FALSE /\ mn' = NoEntry /\ lost' = {}
        /\ seen' = [b \in Broadcast |-> Unseen]
        /\ request' = [b \in Broadcast |-> NoRequest]
        /\ replies' = [b \in Broadcast |-> NoReplies]
  /\ UNCHANGED <<ownerVars, collateral>>

SyncProgress ==
  /\ sync # "FINISHED"
  /\ sync' = IF sync = "LIST" THEN "LATER" ELSE "FINISHED"
  /\ UNCHANGED <<ownerVars, collateral, sentSeen, mn, seen, request, replies, faults, lost>>

\* A reorganisation that takes the collateral out of the chain.
Disconnect ==
  /\ Fault /\ collateral # "missing" /\ collateral' = "missing"
  /\ UNCHANGED <<ownerVars, sentSeen, mn, seen, request, replies, sync, lost>>

\* A block may bring the collateral back, or its last confirmation.
Block ==
  /\ collateral' \in {collateral, IF collateral = "missing" THEN "young" ELSE "ok"}
  /\ mn' = IF Listed /\ mn.banLeft > 0 THEN [mn EXCEPT !.banLeft = @ - 1] ELSE mn
  /\ collateral' # collateral \/ mn' # mn
  /\ UNCHANGED <<ownerVars, sentSeen, seen, request, replies, sync, faults, lost>>

\* The newest broadcast that a ping signed now is MIN_MNP younger than.
Mature == Max({0} \cup {b \in 1 .. published : bAge[b] >= MIN_MNP})

SendPing ==
  /\ published > 0 /\ sent.age >= MIN_MNP
  /\ sent' = [age |-> 0, mature |-> Mature] /\ sentSeen' = FALSE
  /\ UNCHANGED <<published, bAge, collateral, mn, seen, request, replies, sync, faults, lost>>

SendBroadcast ==
  /\ published < MaxBroadcasts
  /\ published' = published + 1 /\ bAge' = [bAge EXCEPT ![published + 1] = 0]
  /\ sent' = [age |-> 0, mature |-> Mature] /\ sentSeen' = FALSE
  /\ UNCHANGED <<collateral, mn, seen, request, replies, sync, faults, lost>>

Older(age, limit) == IF age < limit THEN age + 1 ELSE age

Tick ==
  /\ published > 0
  /\ bAge' = [b \in Broadcast |-> IF b <= published THEN Older(bAge[b], MIN_MNP) ELSE 0]
  /\ sent' = [sent EXCEPT !.age = Older(@, NEW_START)]
  /\ mn' = IF Listed THEN [mn EXCEPT !.ping.age = Older(@, NEW_START), !.checked = FALSE] ELSE mn
  /\ seen' = [b \in Broadcast |-> IF seen[b] = Unseen THEN Unseen ELSE Older(seen[b], NEW_START)]
  /\ request' = [b \in Broadcast |-> IF request[b] = NoRequest THEN NoRequest
                                     ELSE [request[b] EXCEPT !.age = Older(@, RETRY + 1)]]
  /\ replies' = [b \in Broadcast |-> IF replies[b] = NoReplies THEN NoReplies
                                     ELSE [replies[b] EXCEPT !.first.age = Older(@, NEW_START)]]
  /\ UNCHANGED <<published, collateral, sentSeen, sync, faults, lost>>

-----------------------------------------------------------------------------
Init ==
  /\ collateral = "young" /\ published = 0
  /\ bAge = [b \in Broadcast |-> 0]
  /\ sent = [age |-> 0, mature |-> 0] /\ sentSeen = FALSE
  /\ mn = NoEntry /\ seen = [b \in Broadcast |-> Unseen]
  /\ request = [b \in Broadcast |-> NoRequest]
  /\ replies = [b \in Broadcast |-> NoReplies]
  /\ sync = "LIST" /\ faults = 0 /\ lost = {}

Message == (\E b \in Broadcast : ReceiveBroadcast(b)) \/ ReceivePing \/ AnswerListRequest

Next ==
  \/ Message
  \/ \E p \in Peer, b \in Broadcast : ReceiveRecoveryReply(p, b)
  \/ CheckMasternode \/ CheckAgainSoon \/ CheckAndRemove
  \/ FailVerification \/ PassVerification \/ Restart \/ SyncProgress
  \/ Disconnect \/ Block
  \/ SendPing \/ SendBroadcast \/ Tick

Spec == Init /\ [][Next]_vars

-----------------------------------------------------------------------------
(* Properties *)

PingType == [age : 0 .. NEW_START, mature : 0 .. MaxBroadcasts]

EntryType == [sig : Broadcast, state : State, ping : PingType,
              score : -MAX_SCORE .. MAX_SCORE, banLeft : 0 .. BAN, checked : BOOLEAN]

\* What the node keeps of the masternode has these types, and the replies that the
\* recovery counts come from that many different peers.
TypeOK ==
  /\ collateral \in {"missing", "young", "ok"}
  /\ published \in 0 .. MaxBroadcasts /\ bAge \in [Broadcast -> 0 .. MIN_MNP]
  /\ sent \in PingType /\ sentSeen \in BOOLEAN
  /\ mn \in EntryType \cup {NoEntry}
  /\ seen \in [Broadcast -> {Unseen} \cup 0 .. NEW_START]
  /\ request \in [Broadcast -> [age : -1 .. RETRY + 1, left : SUBSET Peer]]
  /\ replies \in [Broadcast -> [count : Nat, first : PingType, from : SUBSET Peer]]
  /\ \A b \in Broadcast : replies[b].count = Cardinality(replies[b].from)
  /\ sync \in {"LIST", "LATER", "FINISHED"} /\ faults \in 0 .. MaxFaults
  /\ lost \subseteq Broadcast

\* The broadcast of a listed masternode is known as seen, so that peers can fetch it
\* and the recovery can count the replies that carry it: whatever is updated, removed,
\* reprocessed or erased in between.  The exception is that a newer broadcast was seen and
\* dropped: because it came within MIN_MNB of the listed one, which is erased all the same,
\* or because the entry was banned or the collateral missing.
ListedIsSeen == Listed => seen[mn.sig] # Unseen \/ \E b \in lost : b > mn.sig

\* A masternode that was given up (NEW_START_REQUIRED, no ping) comes back only with a newer
\* broadcast, or when MNB_RECOVERY_QUORUM_REQUIRED different peers, each asked for it,
\* have answered that it is alive.  It may also be banned or found to be spent.
NewStartNeedsQuorum ==
  [][ (/\ Listed /\ mn.state = "NEW_START_REQUIRED" /\ mn.ping.age >= NEW_START
       /\ mn' # NoEntry /\ mn'.state \in Active \cup {"EXPIRED", "WATCHDOG_EXPIRED"})
      => \/ mn'.sig > mn.sig
         \/ Cardinality(replies[mn.sig].from) >= QUORUM_REQUIRED ]_vars

\* A ban is served: as long as blocks of it are left, no message, check or restart
\* with the list kept ends it, unless the collateral is gone.
BanIsServed ==
  [][ (Listed /\ mn.state = "POSE_BAN" /\ mn.banLeft > 0 /\ mn' # NoEntry)
      => mn'.state \in {"POSE_BAN", "OUTPOINT_SPENT"} ]_vars
===============================================================================
