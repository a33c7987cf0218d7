------------------------------- MODULE Governance -------------------------------
(***************************************************************************)
(* A governance object and the votes of the masternodes on it, at one node *)
(* (src/2018/Jiaozi-new/src/governance.cpp, governance-object.cpp).        *)
(*                                                                         *)
(* The object is a proposal and the votes are those that ask to delete it. *)
(* Votes and object come from peers in any order, again or never.  A vote  *)
(* without its object waits in the manager, a vote without its masternode  *)
(* in the object; the rest is kept in four places that have to agree: the  *)
(* object's vote file, its current votes, the manager's index of votes and *)
(* the masternode's list of the objects it voted on.                       *)
(*                                                                         *)
(* Messages are handled one at a time under cs_main and cs; the            *)
(* maintenance thread and the notifications of the masternode list come    *)
(* between them.  The node's masternode list is synchronised.              *)
(*                                                                         *)
(* Not here: triggers and watchdogs, votes for other signals, votes too    *)
(* far in the future, keys that change, caches that are full (10^6         *)
(* entries) and the rebuilt masternode index (above 30000 masternodes).    *)
(* The limit on the rate of votes is not here either: nTime of a vote is   *)
(* never set, so it never applies.  Nor are votes with a signature that    *)
(* their masternode did not make: such a vote has the hash of the good one *)
(* (governance-vote.h, l. 142-151) and makes it invalid when it is first.  *)
(*                                                                         *)
(* Two short races are left out: UpdateCachesAndClean takes the dirty      *)
(* hashes (l. 436) before its locks, so `dirty` stands for the ones it has *)
(* taken too, and NotifyMasternodeUpdates clears its flags after the calls *)
(* (masternodeman.cpp, l. 1699-1701), so one set meanwhile is lost.        *)
(*                                                                         *)
(* An operator whose name extends that of the definition after it is that  *)
(* definition with a plausible bug; no specification uses it.              *)
(***************************************************************************)
EXTENDS Integers, FiniteSets

CONSTANTS
  Masternode,
  MaxTime,      \* bound: the timestamps of votes
  MaxVotes,     \* bound: votes that are signed
  MaxFaults,    \* bound: masternodes removed from the list, and restarts
  nGovernanceMinQuorum

ASSUME GovernanceAssumption ==
  /\ IsFiniteSet(Masternode)
  /\ MaxTime \in Nat \ {0} /\ MaxVotes \in Nat /\ MaxFaults \in Nat
  /\ nGovernanceMinQuorum \in Nat \ {0}

VARIABLES
  signed,      \* the votes that exist
  object,      \* the object: "unknown", in mapPostponedObjects, mapObjects or mapErased...
  deleted,     \* its fCachedDelete
  dirtyCache,  \* its fDirtyCache
  current,     \* its mapCurrentMNVotes: [masternode -> time and outcome of its vote]
  file,        \* its fileVotes
  waiting,     \* its mapOrphanVotes: votes whose masternode has no index
  orphans,     \* the manager's mapOrphanVotes for the object
  index,       \* mapVoteToObject
  invalid,     \* mapInvalidVotes
  listed,      \* the masternodes in vMasternodes
  indexed,     \* the masternodes in indexMasternodes
  votedOn,     \* those whose mapGovernanceObjectsVotedOn has the object
  dirty,       \* the object is in vecDirtyGovernanceObjectHashes
  added,       \* fMasternodesAdded
  faults,      \* removals and restarts so far
  left,        \* history: masternodes that were removed from the list
  confused     \* history: masternodes that came back, or a restart that came, too early

objectVars == <<object, deleted, dirtyCache, current, file, waiting>>
listVars == <<listed, indexed, dirty, added, left, confused>>
vars == <<signed, objectVars, orphans, index, invalid, votedOn, listVars, faults>>

Vote == [mn : Masternode, time : 1 .. MaxTime, yes : BOOLEAN]

NoInstance == [time |-> 0, yes |-> FALSE]
Instance(v) == [time |-> v.time, yes |-> v.yes]

Held == object = "held"

-----------------------------------------------------------------------------
Init ==
  /\ signed = {}
  /\ object = "unknown" /\ deleted = FALSE /\ dirtyCache = TRUE
  /\ current = [m \in Masternode |-> NoInstance]
  /\ file = {} /\ waiting = {} /\ orphans = {}
  /\ index = {} /\ invalid = {}
  /\ listed \in SUBSET Masternode /\ indexed = listed
  /\ votedOn = {} /\ dirty = FALSE /\ added = FALSE
  /\ faults = 0
  /\ left = {} /\ confused = {}

-----------------------------------------------------------------------------
(* CacheMultiMap::Insert of a vote that waits.  operator< of two votes is   *)
(* never true, so all the votes for one key are the same to the cache, and  *)
(* only the first is kept: one for the object here, one for the masternode  *)
(* in the object.                                                           *)

InsertOrphanAny(v) == orphans' = orphans \cup {v}

InsertOrphan(v) == orphans' = IF orphans = {} THEN {v} ELSE orphans

InsertWaiting(v) ==
  waiting' = IF \E w \in waiting : w.mn = v.mn THEN waiting ELSE waiting \cup {v}

-----------------------------------------------------------------------------
(* CGovernanceObject::ProcessVote, for the object that is held *)

IsNotObsoleteEver(v) == TRUE

IsNotObsolete(v) == v.time >= current[v.mn].time

Record(v) ==
  /\ current' = [current EXCEPT ![v.mn] = Instance(v)]
  /\ file' = file \cup {v}
  /\ dirtyCache' = TRUE

AddGovernanceVoteForgotten(m) == UNCHANGED votedOn

AddGovernanceVote(m) == votedOn' = votedOn \cup {m}

\* The masternode has an index, the vote is not older than its current one, and its
\* signature can be checked.
Accept(v) ==
  /\ v.mn \in indexed /\ IsNotObsolete(v) /\ v.mn \in listed
  /\ AddGovernanceVote(v.mn)
  /\ Record(v)
  /\ UNCHANGED <<waiting, invalid>>

\* The signature of a masternode that is indexed but not listed cannot be checked: the
\* vote is invalid from now on.
Refuse(v) ==
  /\ ~(v.mn \in indexed /\ IsNotObsolete(v) /\ v.mn \in listed)
  /\ IF v.mn \notin indexed THEN InsertWaiting(v) ELSE UNCHANGED waiting
  /\ invalid' = IF v.mn \in indexed /\ IsNotObsolete(v) THEN invalid \cup {v} ELSE invalid
  /\ UNCHANGED <<current, file, dirtyCache, votedOn>>

-----------------------------------------------------------------------------
(* Messages *)

\* A masternode signs a vote, with a later timestamp or within the same second.
Sign(v) ==
  /\ v \notin signed
  /\ Cardinality(signed) < MaxVotes
  /\ \A w \in signed : w.mn = v.mn => w.time <= v.time
  /\ signed' = signed \cup {v}
  /\ UNCHANGED <<objectVars, orphans, index, invalid, votedOn, listVars, faults>>

IsWanted(v) == v \in signed \ index

\* MNGOVERNANCEOBJECTVOTE, for a vote that ConfirmInventoryRequest wants.
ReceiveVote(v) ==
  /\ IsWanted(v)
  /\ \/ /\ v \notin invalid /\ ~Held
        /\ InsertOrphan(v)
        /\ UNCHANGED <<current, file, dirtyCache, waiting, index, invalid, votedOn>>
     \/ /\ v \notin invalid /\ Held /\ ~deleted
        /\ \/ Accept(v) /\ index' = index \cup {v}
           \/ Refuse(v) /\ UNCHANGED index
        /\ UNCHANGED orphans
  /\ UNCHANGED <<signed, object, deleted, listVars, faults>>

\* CheckOrphanVotes works on the object that was received, not on its copy in
\* mapObjects: the vote is dropped without being counted.
CheckOrphanVotesAndIndex ==
  \E v \in orphans :
    IF v.mn \in listed
    THEN /\ AddGovernanceVote(v.mn)
         /\ orphans' = {}
         /\ index' = index \cup {v}
         /\ UNCHANGED invalid
    ELSE /\ invalid' = IF v.mn \in indexed THEN invalid \cup {v} ELSE invalid
         /\ UNCHANGED <<orphans, votedOn, index>>

CheckOrphanVotes ==
  \E v \in orphans :
    IF v.mn \in listed
    THEN /\ AddGovernanceVote(v.mn)
         /\ orphans' = {}
         /\ UNCHANGED <<invalid, index>>
    ELSE /\ invalid' = IF v.mn \in indexed THEN invalid \cup {v} ELSE invalid
         /\ UNCHANGED <<orphans, votedOn, index>>

\* The object is inserted without votes; a vote that waited too long only goes.  The cache
\* stays dirty when no masternode is enabled.
AddGovernanceObject ==
  /\ object' = "held" /\ deleted' = FALSE /\ dirtyCache' \in {TRUE, listed = {}}
  /\ current' = [m \in Masternode |-> NoInstance]
  /\ file' = {} /\ waiting' = {}
  /\ \/ CheckOrphanVotes
     \/ orphans' = {} /\ UNCHANGED <<invalid, votedOn, index>>

\* MNGOVERNANCEOBJECT, for an object that is not known in any way: its collateral has
\* enough confirmations, or it waits for them.
ReceiveObject ==
  /\ object = "unknown"
  /\ \/ AddGovernanceObject
     \/ object' = "postponed"
        /\ UNCHANGED <<deleted, dirtyCache, current, file, waiting, orphans, index, invalid,
                       votedOn>>
  /\ UNCHANGED <<signed, listVars, faults>>

\* CheckPostponedObjects, at a new block: the confirmations came, or the collateral went.
CheckPostponedObjects ==
  /\ object = "postponed"
  /\ \/ AddGovernanceObject
     \/ object' = "unknown"
        /\ UNCHANGED <<deleted, dirtyCache, current, file, waiting, orphans, index, invalid,
                       votedOn>>
  /\ UNCHANGED <<signed, listVars, faults>>

-----------------------------------------------------------------------------
(* Maintenance *)

\* CleanOrphanObjects: the vote waited longer than GOVERNANCE_ORPHAN_EXPIRATION_TIME.
CleanOrphanObjects ==
  /\ orphans # {}
  /\ orphans' = {}
  /\ UNCHANGED <<signed, objectVars, index, invalid, votedOn, listVars, faults>>

\* ClearMasternodeVotes
Gone == {m \in Masternode : current[m] # NoInstance} \ listed

CountMatchingVotesInFile(cur, yes) == Cardinality({v \in file : v.yes = yes})

CountMatchingVotes(cur, yes) ==
  Cardinality({m \in Masternode : cur[m].time > 0 /\ cur[m].yes = yes})

AbsoluteYesCount(cur) == CountMatchingVotes(cur, TRUE) - CountMatchingVotes(cur, FALSE)

\* nAbsDeleteReq, of the number of enabled masternodes.
AbsDeleteReq(nMnCount) ==
  LET share == (2 * nMnCount) \div 3
  IN IF share > nGovernanceMinQuorum THEN share ELSE nGovernanceMinQuorum

\* UpdateSentinelVariables, when the cache is dirty; some of the listed masternodes are
\* enabled (CountEnabled).
UpdateSentinelVariables(cur, isDirty) ==
  \E nMnCount \in 0 .. Cardinality(listed) :
    IF isDirty /\ nMnCount > 0
    THEN /\ deleted' = (deleted \/ AbsoluteYesCount(cur) >= AbsDeleteReq(nMnCount))
         /\ dirtyCache' = FALSE
    ELSE UNCHANGED deleted /\ dirtyCache' = isDirty

\* UpdateCachesAndClean, when the object is not erased.
UpdateCaches ==
  /\ Held
  /\ dirty \/ dirtyCache
  /\ LET cur == IF dirty
                THEN [m \in Masternode |-> IF m \in Gone THEN NoInstance ELSE current[m]]
                ELSE current
     IN  /\ current' = cur
         /\ file' = IF dirty THEN {v \in file : v.mn \notin Gone} ELSE file
         /\ UpdateSentinelVariables(cur, dirtyCache \/ dirty)
  /\ dirty' = FALSE
  /\ UNCHANGED <<signed, object, waiting, orphans, index, invalid, votedOn, listed, indexed,
                 added, left, confused, faults>>

EraseObjectOnly ==
  /\ Held /\ deleted
  /\ object' = "erased" /\ deleted' = FALSE
  /\ current' = [m \in Masternode |-> NoInstance]
  /\ file' = {} /\ waiting' = {}
  /\ dirty' = FALSE
  /\ votedOn' = {}
  /\ UNCHANGED <<signed, dirtyCache, orphans, invalid, index, listed, indexed, added, left,
                 confused, faults>>

\* UpdateCachesAndClean, GOVERNANCE_DELETION_DELAY after the deletion: the references to
\* the object go with it, and its hash is kept for good.
EraseObject ==
  /\ Held /\ deleted
  /\ object' = "erased" /\ deleted' = FALSE
  /\ current' = [m \in Masternode |-> NoInstance]
  /\ file' = {} /\ waiting' = {}
  /\ index' = {}
  /\ dirty' = FALSE
  /\ votedOn' = {}
  /\ UNCHANGED <<signed, dirtyCache, orphans, invalid, listed, indexed, added, left,
                 confused, faults>>

\* NotifyMasternodeUpdates after masternodes were added: CheckMasternodeOrphanVotes
\* counts the votes whose masternode is listed now, and the manager's index does not get
\* them.  A vote that waited too long goes, but is processed once more before.
CheckMasternodeOrphanVotes ==
  /\ added
  /\ added' = FALSE
  /\ LET fresh == IF Held THEN {v \in waiting : v.mn \in listed /\ IsNotObsolete(v)} ELSE {}
     IN  \E expired \in SUBSET (waiting \ fresh) :
           /\ current' = [m \in Masternode |->
                            IF \E v \in fresh : v.mn = m
                            THEN Instance(CHOOSE v \in fresh : v.mn = m)
                            ELSE current[m]]
           /\ file' = file \cup fresh
           /\ dirtyCache' = (dirtyCache \/ fresh # {})
           /\ votedOn' = votedOn \cup {v.mn : v \in fresh}
           /\ waiting' = waiting \ (fresh \cup expired)
           /\ invalid' = invalid \cup {v \in expired : v.mn \in indexed \ listed
                                                       /\ IsNotObsolete(v)}
  /\ UNCHANGED <<signed, object, deleted, orphans, index, listed, indexed, dirty, left,
                 confused, faults>>

-----------------------------------------------------------------------------
(* The masternode list *)

\* CMasternodeMan::Add: the new entry has voted on nothing.
AddMasternode(m) ==
  /\ m \notin listed
  /\ listed' = listed \cup {m} /\ indexed' = indexed \cup {m}
  /\ added' = TRUE
  /\ confused' = IF current[m] # NoInstance THEN confused \cup {m} ELSE confused
  /\ UNCHANGED <<signed, objectVars, orphans, index, invalid, votedOn, dirty, left, faults>>

\* CMasternodeMan::CheckAndRemove erases the entry and flags the objects it voted on.
RemoveMasternode(m) ==
  /\ m \in listed
  /\ faults < MaxFaults /\ faults' = faults + 1
  /\ listed' = listed \ {m}
  /\ left' = left \cup {m}
  /\ dirty' = (dirty \/ m \in votedOn)
  /\ votedOn' = votedOn \ {m}
  /\ UNCHANGED <<signed, objectVars, orphans, index, invalid, indexed, added, confused>>

\* governance.dat has the object with its votes, the erased hashes, the invalid votes and
\* the manager's orphans; the index is rebuilt from the vote file (InitOnLoad).  Objects
\* that are postponed, flags and notifications are lost.
Restart ==
  /\ faults < MaxFaults /\ faults' = faults + 1
  /\ object' = IF object = "postponed" THEN "unknown" ELSE object
  /\ deleted' = FALSE /\ dirtyCache' = TRUE
  /\ waiting' = {}
  /\ index' = file
  /\ dirty' = FALSE /\ added' = FALSE
  /\ confused' = IF dirty THEN confused \cup Gone ELSE confused
  /\ UNCHANGED <<signed, current, file, orphans, invalid, votedOn, listed, indexed, left>>

Next ==
  \/ \E v \in Vote : Sign(v) \/ ReceiveVote(v)
  \/ ReceiveObject \/ CheckPostponedObjects \/ CleanOrphanObjects
  \/ UpdateCaches \/ EraseObject \/ CheckMasternodeOrphanVotes
  \/ \E m \in Masternode : AddMasternode(m) \/ RemoveMasternode(m)
  \/ Restart

Spec == Init /\ [][Next]_vars

-----------------------------------------------------------------------------
(* Properties *)

\* The type of the state; one vote waits for the object, one per masternode in it.
TypeOK ==
  /\ signed \subseteq Vote
  /\ object \in {"unknown", "postponed", "held", "erased"}
  /\ deleted \in BOOLEAN /\ dirtyCache \in BOOLEAN
  /\ current \in [Masternode -> [time : 0 .. MaxTime, yes : BOOLEAN]]
  /\ file \subseteq signed /\ index \subseteq signed /\ invalid \subseteq signed
  /\ waiting \subseteq signed /\ \A v, w \in waiting : v.mn = w.mn => v = w
  /\ orphans \subseteq signed /\ Cardinality(orphans) <= 1
  /\ listed \subseteq indexed /\ indexed \subseteq Masternode
  /\ votedOn \subseteq Masternode
  /\ dirty \in BOOLEAN /\ added \in BOOLEAN
  /\ faults \in 0 .. MaxFaults
  /\ left \subseteq Masternode /\ confused \subseteq Masternode

\* mapVoteToObject holds pointers into mapObjects: it names no vote when there is no
\* object to point to, after an erasure or a restart either.  And a vote it names is in
\* the vote file, or its masternode was removed: it is not asked for again.
IndexIsTrue ==
  /\ index # {} => Held
  /\ \A v \in index \ file : v.mn \in left

\* What is counted for a masternode is the newest of its votes in the vote file,
\* whatever the order the votes came in, and nothing is counted without a vote there.
CurrentIsNewest ==
  \A m \in Masternode :
    IF \E v \in file : v.mn = m
    THEN /\ \E v \in file : v.mn = m /\ Instance(v) = current[m]
         /\ \A v \in file : v.mn = m => v.time <= current[m].time
    ELSE current[m] = NoInstance

\* A vote of a masternode that is no longer listed is about to go: the object is flagged.
\* Not so when the masternode came back before the cleaning, because its new entry does
\* not know the object, or when a restart lost the flag.
GoneIsFlagged ==
  \A m \in Masternode \ listed : current[m] # NoInstance => dirty \/ m \in confused

\* The object is marked as deleted only while enough masternodes have signed for it.
DeletionNeedsQuorum ==
  [][~deleted /\ deleted' =>
     Cardinality({m \in Masternode : \E v \in signed : v.mn = m /\ v.yes})
     >= nGovernanceMinQuorum]_vars
=============================================================================
