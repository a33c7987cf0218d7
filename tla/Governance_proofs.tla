---------------------------- MODULE Governance_proofs ----------------------------
(***************************************************************************)
(* The four places in which the votes on a governance object are kept      *)
(* agree, for any masternodes, timestamps, quorum and number of faults.    *)
(***************************************************************************)
EXTENDS Governance, FiniteSetTheorems, TLAPS

\* An object that is not held has no votes.
NothingWithoutObject ==
  ~Held => file = {} /\ waiting = {} /\ index = {} /\ \A m \in Masternode : current[m] = NoInstance

\* A masternode whose vote is counted is listed and knows the object, or came back too
\* early, or it was removed.
CountedIsKnown ==
  \A m \in Masternode : current[m] # NoInstance =>
    /\ m \in listed \cup left
    /\ m \in listed => m \in votedOn \cup confused

Inv == /\ TypeOK /\ NothingWithoutObject /\ CountedIsKnown
       /\ IndexIsTrue /\ CurrentIsNewest /\ GoneIsFlagged

USE DEF Held

-----------------------------------------------------------------------------
(* The type *)

\* What the object takes in when it is received has its type.
LEMMA AddedObjectHasType ==
  ASSUME TypeOK, AddGovernanceObject
  PROVE  /\ object' = "held" /\ deleted' \in BOOLEAN /\ dirtyCache' \in BOOLEAN
         /\ current' = [m \in Masternode |-> NoInstance]
         /\ file' = {} /\ waiting' = {} /\ index' = index
         /\ invalid' \subseteq signed /\ votedOn' \subseteq Masternode
         /\ votedOn \subseteq votedOn'
         /\ orphans' \subseteq signed /\ Cardinality(orphans') <= 1
<1>1. /\ object' = "held" /\ deleted' = FALSE /\ dirtyCache' \in BOOLEAN
      /\ current' = [m \in Masternode |-> NoInstance] /\ file' = {} /\ waiting' = {}
  BY DEF AddGovernanceObject
<1>2. /\ orphans' \in {{}, orphans} /\ index' = index
      /\ invalid' \in {invalid} \cup {invalid \cup {v} : v \in orphans}
      /\ votedOn' \in {votedOn} \cup {votedOn \cup {v.mn} : v \in orphans}
  <2>1. CASE orphans' = {} /\ UNCHANGED <<invalid, votedOn, index>>
    BY <2>1
  <2>2. CASE CheckOrphanVotes
    BY <2>2 DEF CheckOrphanVotes, AddGovernanceVote
  <2>3. QED BY <2>1, <2>2 DEF AddGovernanceObject
<1>3. \A v \in orphans : v \in signed /\ v.mn \in Masternode
  BY DEF TypeOK, Vote
<1>4. Cardinality({}) = 0
  BY FS_EmptySet
<1>5. orphans' \subseteq signed /\ Cardinality(orphans') <= 1
  <2>1. CASE orphans' = {}
    BY <1>4, <2>1
  <2>2. CASE orphans' = orphans
    <3>1. orphans \subseteq signed /\ Cardinality(orphans) <= 1
      BY DEF TypeOK
    <3>2. QED BY <2>2, <3>1
  <2>3. QED BY <1>2, <2>1, <2>2
<1>6. invalid' \subseteq signed /\ votedOn' \subseteq Masternode /\ votedOn \subseteq votedOn'
  BY <1>2, <1>3 DEF TypeOK
<1>7. QED BY <1>1, <1>2, <1>5, <1>6

\* The masternode and the instance of a vote that is signed.
LEMMA SignedVote ==
  ASSUME TypeOK, NEW v \in signed
  PROVE  /\ v \in Vote /\ v.mn \in Masternode /\ v.time \in 1 .. MaxTime
         /\ Instance(v) \in [time : 0 .. MaxTime, yes : BOOLEAN]
         /\ Instance(v) # NoInstance /\ Instance(v).time = v.time
<1>1. v \in Vote
  BY DEF TypeOK
<1>2. v.mn \in Masternode /\ v.time \in 1 .. MaxTime /\ v.yes \in BOOLEAN
  BY <1>1 DEF Vote
<1>3. v.time \in 0 .. MaxTime /\ v.time # 0
  BY <1>2, GovernanceAssumption
<1>4. Instance(v).time = v.time /\ Instance(v).time # NoInstance.time
  BY <1>3 DEF Instance, NoInstance
<1>5. Instance(v) \in [time : 0 .. MaxTime, yes : BOOLEAN]
  BY <1>2, <1>3 DEF Instance
<1>6. QED BY <1>1, <1>2, <1>4, <1>5

\* The type is kept by every step.
LEMMA TypeIsKept == TypeOK /\ [Next]_vars => TypeOK'
<1> SUFFICES ASSUME TypeOK, [Next]_vars PROVE TypeOK'
  OBVIOUS
<1> DEFINE NoVotes == [m \in Masternode |-> NoInstance]
<1>1. NoVotes \in [Masternode -> [time : 0 .. MaxTime, yes : BOOLEAN]]
  BY GovernanceAssumption DEF NoInstance
<1>2. ASSUME NEW v \in Vote, Sign(v) PROVE TypeOK'
  BY <1>2 DEF Sign, TypeOK, objectVars, listVars
<1>3. ASSUME NEW v \in Vote, ReceiveVote(v) PROVE TypeOK'
  <2>1. v \in signed /\ v.mn \in Masternode
    BY <1>3, SignedVote DEF ReceiveVote, IsWanted
  <2>2. UNCHANGED <<signed, object, deleted, listed, indexed, dirty, added, left, confused, faults>>
    BY <1>3 DEF ReceiveVote, listVars
  <2>3. CASE InsertOrphan(v) /\ UNCHANGED <<current, file, dirtyCache, waiting, index, invalid, votedOn>>
    <3>1. orphans' \subseteq signed /\ Cardinality(orphans') <= 1
      <4>1. Cardinality({v}) = 1
        BY FS_Singleton
      <4>2. orphans' = {v} \/ orphans' = orphans
        BY <2>3 DEF InsertOrphan
      <4>3. orphans \subseteq signed /\ Cardinality(orphans) <= 1
        BY DEF TypeOK
      <4>4. CASE orphans' = {v}
        BY <2>1, <4>1, <4>4
      <4>5. CASE orphans' = orphans
        BY <4>3, <4>5
      <4>6. QED BY <4>2, <4>4, <4>5
    <3>2. QED BY <2>2, <2>3, <3>1 DEF TypeOK
  <2>4. CASE Accept(v) /\ index' = index \cup {v} /\ UNCHANGED orphans
    <3>1. current' \in [Masternode -> [time : 0 .. MaxTime, yes : BOOLEAN]]
      <4>1. current' = [current EXCEPT ![v.mn] = Instance(v)]
        BY <2>4 DEF Accept, Record
      <4>2. Instance(v) \in [time : 0 .. MaxTime, yes : BOOLEAN]
        BY <2>1, SignedVote
      <4>3. QED BY <2>1, <4>1, <4>2 DEF TypeOK
    <3>2. file' \subseteq signed /\ dirtyCache' = TRUE /\ votedOn' \subseteq Masternode
          /\ UNCHANGED <<waiting, invalid>> /\ index' \subseteq signed
      BY <2>1, <2>4 DEF Accept, Record, AddGovernanceVote, TypeOK
    <3>3. QED BY <2>2, <2>4, <3>1, <3>2 DEF TypeOK
  <2>5. CASE Refuse(v) /\ UNCHANGED <<index, orphans>>
    <3>1. waiting' \subseteq signed /\ \A a, b \in waiting' : a.mn = b.mn => a = b
      BY <2>1, <2>5 DEF Refuse, InsertWaiting, TypeOK
    <3>2. invalid' \subseteq signed /\ UNCHANGED <<current, file, dirtyCache, votedOn>>
      BY <2>1, <2>5 DEF Refuse, TypeOK
    <3>3. QED BY <2>2, <2>5, <3>1, <3>2 DEF TypeOK
  <2>6. QED BY <1>3, <2>3, <2>4, <2>5 DEF ReceiveVote
<1>4. CASE ReceiveObject \/ CheckPostponedObjects
  <2>1. UNCHANGED <<signed, listed, indexed, dirty, added, left, confused, faults>>
    BY <1>4 DEF ReceiveObject, CheckPostponedObjects, listVars
  <2>2. CASE AddGovernanceObject
    BY <1>1, <2>1, <2>2, AddedObjectHasType DEF TypeOK
  <2>3. CASE object' \in {"postponed", "unknown"} /\
             UNCHANGED <<deleted, dirtyCache, current, file, waiting, orphans, index, invalid, votedOn>>
    BY <2>1, <2>3 DEF TypeOK
  <2>4. QED BY <1>4, <2>2, <2>3 DEF ReceiveObject, CheckPostponedObjects
<1>5. CASE CleanOrphanObjects
  BY <1>5, FS_EmptySet DEF CleanOrphanObjects, TypeOK, objectVars, listVars
<1>6. CASE UpdateCaches
  <2>1. PICK cur \in {current, [m \in Masternode |-> IF m \in Gone THEN NoInstance ELSE current[m]]} :
          current' = cur /\ UpdateSentinelVariables(cur, dirtyCache \/ dirty)
    BY <1>6 DEF UpdateCaches
  <2>2. current' \in [Masternode -> [time : 0 .. MaxTime, yes : BOOLEAN]]
    BY <1>1, <2>1 DEF TypeOK
  <2>3. dirtyCache' \in BOOLEAN
    BY <2>1 DEF UpdateSentinelVariables, TypeOK
  <2>4. deleted' \in BOOLEAN
    BY <2>1 DEF UpdateSentinelVariables, TypeOK
  <2>5. file' \subseteq signed
    BY <1>6 DEF UpdateCaches, TypeOK
  <2>6. QED BY <1>6, <2>2, <2>3, <2>4, <2>5 DEF UpdateCaches, TypeOK
<1>7. CASE EraseObject
  BY <1>1, <1>7 DEF EraseObject, TypeOK
<1>8. CASE CheckMasternodeOrphanVotes
  <2> DEFINE fresh == IF Held THEN {v \in waiting : v.mn \in listed /\ IsNotObsolete(v)} ELSE {}
  <2>1. PICK expired \in SUBSET (waiting \ fresh) :
          /\ current' = [m \in Masternode |->
                           IF \E v \in fresh : v.mn = m
                           THEN Instance(CHOOSE v \in fresh : v.mn = m)
                           ELSE current[m]]
          /\ file' = file \cup fresh
          /\ dirtyCache' = (dirtyCache \/ fresh # {})
          /\ votedOn' = votedOn \cup {v.mn : v \in fresh}
          /\ waiting' = waiting \ (fresh \cup expired)
          /\ invalid' = invalid \cup {v \in expired : v.mn \in indexed \ listed
                                                      /\ IsNotObsolete(v)}
    BY <1>8 DEF CheckMasternodeOrphanVotes
  <2>2. fresh \subseteq waiting /\ waiting \subseteq signed
    BY DEF TypeOK
  <2> HIDE DEF fresh
  <2>3. current' \in [Masternode -> [time : 0 .. MaxTime, yes : BOOLEAN]]
    <3>1. ASSUME NEW m \in Masternode, \E v \in fresh : v.mn = m
          PROVE  Instance(CHOOSE v \in fresh : v.mn = m) \in [time : 0 .. MaxTime, yes : BOOLEAN]
      BY <2>2, <3>1, SignedVote
    <3>2. QED BY <2>1, <3>1 DEF TypeOK
  <2>4. votedOn' \subseteq Masternode
    BY <2>1, <2>2, SignedVote DEF TypeOK
  <2>5. /\ file' \subseteq signed /\ invalid' \subseteq signed /\ waiting' \subseteq signed
        /\ \A v, w \in waiting' : v.mn = w.mn => v = w
    BY <2>1, <2>2 DEF TypeOK
  <2>6. dirtyCache' \in BOOLEAN
    BY <2>1 DEF TypeOK
  <2>7. QED BY <1>8, <2>3, <2>4, <2>5, <2>6 DEF CheckMasternodeOrphanVotes, TypeOK
<1>9. ASSUME NEW m \in Masternode, AddMasternode(m) PROVE TypeOK'
  <2>1. /\ listed' \subseteq indexed' /\ indexed' \subseteq Masternode
        /\ confused' \subseteq Masternode /\ added' \in BOOLEAN
    BY <1>9 DEF AddMasternode, TypeOK
  <2>2. QED BY <1>9, <2>1 DEF AddMasternode, TypeOK, objectVars
<1>10. ASSUME NEW m \in Masternode, RemoveMasternode(m) PROVE TypeOK'
  <2>1. faults' \in 0 .. MaxFaults
    BY <1>10, GovernanceAssumption DEF RemoveMasternode, TypeOK
  <2>2. /\ listed' \subseteq indexed /\ left' \subseteq Masternode
        /\ votedOn' \subseteq Masternode /\ indexed' = indexed
    BY <1>10 DEF RemoveMasternode, TypeOK
  <2>3. dirty' \in BOOLEAN
    BY <1>10 DEF RemoveMasternode
  <2>4. QED BY <1>10, <2>1, <2>2, <2>3 DEF RemoveMasternode, TypeOK, objectVars
<1>11. CASE Restart
  <2>1. faults' \in 0 .. MaxFaults
    BY <1>11, GovernanceAssumption DEF Restart, TypeOK
  <2>2. confused' \subseteq Masternode
    BY <1>11 DEF Restart, TypeOK, Gone
  <2>3. object' \in {"unknown", "postponed", "held", "erased"} /\ index' \subseteq signed
    BY <1>11 DEF Restart, TypeOK
  <2>4. QED BY <1>11, <2>1, <2>2, <2>3 DEF Restart, TypeOK
<1>12. CASE UNCHANGED vars
  BY <1>12 DEF vars, objectVars, listVars, TypeOK
<1>13. QED
  BY <1>2, <1>3, <1>4, <1>5, <1>6, <1>7, <1>8, <1>9, <1>10, <1>11, <1>12 DEF Next

-----------------------------------------------------------------------------
(* The votes that are counted *)

\* A vote that is accepted is the newest of its masternode.
LEMMA AcceptKeepsNewest ==
  ASSUME TypeOK, CurrentIsNewest, NEW v \in signed, Accept(v)
  PROVE  CurrentIsNewest'
<1>1. /\ current' = [current EXCEPT ![v.mn] = Instance(v)]
      /\ file' = file \cup {v} /\ v.time >= current[v.mn].time
  BY DEF Accept, Record, IsNotObsolete
<1>2. /\ v.mn \in Masternode /\ Instance(v).time = v.time /\ v.time \in Nat
      /\ \A w \in file : w.mn \in Masternode /\ w.time \in Nat
  BY SignedVote, GovernanceAssumption DEF TypeOK
<1>3. \A m \in Masternode : current[m].time \in Nat
  BY GovernanceAssumption DEF TypeOK
<1>4. SUFFICES ASSUME NEW m \in Masternode
      PROVE IF \E w \in file' : w.mn = m
            THEN /\ \E w \in file' : w.mn = m /\ Instance(w) = current'[m]
                 /\ \A w \in file' : w.mn = m => w.time <= current'[m].time
            ELSE current'[m] = NoInstance
  BY DEF CurrentIsNewest, Instance, NoInstance
<1>5. CASE m = v.mn
  <2>1. current'[m] = Instance(v)
    BY <1>1, <1>2, <1>5 DEF TypeOK
  <2>2. ASSUME NEW w \in file, w.mn = m PROVE w.time <= v.time
    <3>1. w.time <= current[m].time
      BY <2>2 DEF CurrentIsNewest
    <3>2. QED BY <1>1, <1>2, <1>3, <1>5, <3>1
  <2>3. v \in file' /\ v.time <= v.time
    BY <1>1, <1>2
  <2>4. QED BY <1>1, <1>2, <1>5, <2>1, <2>2, <2>3
<1>6. CASE m # v.mn
  <2>1. current'[m] = current[m]
    BY <1>1, <1>6 DEF TypeOK
  <2>2. \A w : w \in file' /\ w.mn = m <=> w \in file /\ w.mn = m
    BY <1>1, <1>6
  <2>3. QED BY <2>1, <2>2 DEF CurrentIsNewest
<1>7. QED BY <1>5, <1>6

\* Cleaning takes the votes of masternodes that are gone from both places.
LEMMA CleaningKeepsNewest ==
  ASSUME TypeOK, CurrentIsNewest,
         current' = [m \in Masternode |-> IF m \in Gone THEN NoInstance ELSE current[m]],
         file' = {v \in file : v.mn \notin Gone}
  PROVE  CurrentIsNewest'
<1> SUFFICES ASSUME NEW m \in Masternode
    PROVE IF \E w \in file' : w.mn = m
          THEN /\ \E w \in file' : w.mn = m /\ Instance(w) = current'[m]
               /\ \A w \in file' : w.mn = m => w.time <= current'[m].time
          ELSE current'[m] = NoInstance
  BY DEF CurrentIsNewest, Instance, NoInstance
<1>1. CASE m \in Gone
  <2>1. current'[m] = NoInstance /\ ~ \E w \in file' : w.mn = m
    BY <1>1
  <2>2. QED BY <2>1
<1>2. CASE m \notin Gone
  <2>1. current'[m] = current[m]
    BY <1>2
  <2>2. \A w : w \in file' /\ w.mn = m <=> w \in file /\ w.mn = m
    BY <1>2
  <2>3. QED BY <2>1, <2>2 DEF CurrentIsNewest
<1>3. QED BY <1>1, <1>2

Fresh == IF Held THEN {v \in waiting : v.mn \in listed /\ IsNotObsolete(v)} ELSE {}

\* What CheckMasternodeOrphanVotes does to the votes.
LEMMA OrphansAreRecorded ==
  ASSUME CheckMasternodeOrphanVotes
  PROVE  /\ current' = [m \in Masternode |->
                          IF \E v \in Fresh : v.mn = m
                          THEN Instance(CHOOSE v \in Fresh : v.mn = m)
                          ELSE current[m]]
         /\ file' = file \cup Fresh
         /\ votedOn' = votedOn \cup {v.mn : v \in Fresh}
         /\ waiting' \subseteq waiting
         /\ UNCHANGED <<signed, object, deleted, orphans, index, listed, indexed, dirty, left,
                        confused, faults>>
  BY DEF CheckMasternodeOrphanVotes, Fresh

\* The votes that waited for their masternode are one per masternode, and not older than
\* the current one.
LEMMA OrphansKeepNewest ==
  ASSUME TypeOK, CurrentIsNewest, CheckMasternodeOrphanVotes
  PROVE  CurrentIsNewest'
<1>1. /\ Fresh \subseteq signed /\ \A v, w \in Fresh : v.mn = w.mn => v = w
      /\ \A v \in Fresh : v.time >= current[v.mn].time
  BY DEF Fresh, TypeOK, IsNotObsolete
<1>2. /\ \A w \in file \cup Fresh : w.mn \in Masternode /\ w.time \in Nat
                                   /\ Instance(w).time = w.time
  BY <1>1, SignedVote, GovernanceAssumption DEF TypeOK
<1>3. \A m \in Masternode : current[m].time \in Nat
  BY GovernanceAssumption DEF TypeOK
<1> SUFFICES ASSUME NEW m \in Masternode
    PROVE IF \E w \in file' : w.mn = m
          THEN /\ \E w \in file' : w.mn = m /\ Instance(w) = current'[m]
               /\ \A w \in file' : w.mn = m => w.time <= current'[m].time
          ELSE current'[m] = NoInstance
  BY DEF CurrentIsNewest, Instance, NoInstance
<1>4. CASE \E v \in Fresh : v.mn = m
  <2>1. PICK v \in Fresh : v = CHOOSE w \in Fresh : w.mn = m
    BY <1>4
  <2>2. v.mn = m
    BY <1>4, <2>1
  <2>3. current'[m] = Instance(v) /\ v \in file' /\ file' = file \cup Fresh
    BY <1>4, <2>1, OrphansAreRecorded
  <2>4. ASSUME NEW w \in file', w.mn = m PROVE w.time <= v.time
    <3>1. CASE w \in Fresh
      BY <1>1, <1>2, <2>2, <2>4, <3>1
    <3>2. CASE w \in file
      <4>1. w.time <= current[m].time
        BY <2>4, <3>2 DEF CurrentIsNewest
      <4>2. QED BY <1>1, <1>2, <1>3, <2>2, <3>2, <4>1
    <3>3. QED BY <2>3, <3>1, <3>2
  <2>5. Instance(v).time = v.time
    BY <1>2
  <2>6. QED BY <2>2, <2>3, <2>4, <2>5
<1>5. CASE ~ \E v \in Fresh : v.mn = m
  <2>1. current'[m] = current[m]
    BY <1>5, OrphansAreRecorded
  <2>2. \A w : w \in file' /\ w.mn = m <=> w \in file /\ w.mn = m
    BY <1>5, OrphansAreRecorded
  <2>3. QED BY <2>1, <2>2 DEF CurrentIsNewest
<1>6. QED BY <1>4, <1>5

-----------------------------------------------------------------------------
(* The invariant *)

\* A step that leaves the votes, the list and the flag alone keeps the invariant.
LEMMA FrameKeepsInv ==
  ASSUME Inv, TypeOK', UNCHANGED <<current, file, listed, index, dirty>>,
         Held => Held', waiting' = {} \/ UNCHANGED waiting,
         votedOn \subseteq votedOn', left \subseteq left', confused \subseteq confused'
  PROVE  Inv'
<1>1. NothingWithoutObject'
  BY DEF Inv, NothingWithoutObject
<1>2. CountedIsKnown'
  BY DEF Inv, CountedIsKnown, NoInstance
<1>3. IndexIsTrue'
  BY DEF Inv, IndexIsTrue
<1>4. CurrentIsNewest'
  BY DEF Inv, CurrentIsNewest, Instance, NoInstance
<1>5. GoneIsFlagged'
  BY DEF Inv, GoneIsFlagged, NoInstance
<1>6. QED BY <1>1, <1>2, <1>3, <1>4, <1>5 DEF Inv

\* The object without votes: nothing is counted, nothing is indexed.
LEMMA EmptyKeepsInv ==
  ASSUME Inv, TypeOK', current' = [m \in Masternode |-> NoInstance],
         file' = {}, waiting' = {}, index' = {}
  PROVE  Inv'
<1>1. \A m \in Masternode : current'[m] = NoInstance
  OBVIOUS
<1>2. QED
  BY <1>1 DEF Inv, NothingWithoutObject, CountedIsKnown, IndexIsTrue, CurrentIsNewest,
              GoneIsFlagged, NoInstance, Instance

\* Every step keeps the invariant.
LEMMA InvIsKept == Inv /\ [Next]_vars => Inv'
<1> SUFFICES ASSUME Inv, [Next]_vars PROVE Inv'
  OBVIOUS
<1>1. TypeOK /\ TypeOK'
  BY TypeIsKept DEF Inv
<1>2. ASSUME NEW v \in Vote, Sign(v) PROVE Inv'
  BY <1>1, <1>2, FrameKeepsInv DEF Sign, objectVars, listVars
<1>3. ASSUME NEW v \in Vote, ReceiveVote(v) PROVE Inv'
  <2>1. v \in signed /\ v.mn \in Masternode
    BY <1>1, <1>3, SignedVote DEF ReceiveVote, IsWanted
  <2>2. UNCHANGED <<signed, object, deleted, listed, indexed, dirty, added, left, confused, faults>>
    BY <1>3 DEF ReceiveVote, listVars
  <2>3. CASE InsertOrphan(v) /\ UNCHANGED <<current, file, dirtyCache, waiting, index, invalid, votedOn>>
    BY <1>1, <2>2, <2>3, FrameKeepsInv
  <2>4. CASE Held /\ Accept(v) /\ index' = index \cup {v} /\ UNCHANGED orphans
    <3>1. /\ current' = [current EXCEPT ![v.mn] = Instance(v)] /\ file' = file \cup {v}
          /\ votedOn' = votedOn \cup {v.mn} /\ v.mn \in listed
      BY <2>4 DEF Accept, Record, AddGovernanceVote
    <3>2. CurrentIsNewest'
      BY <1>1, <2>1, <2>4, AcceptKeepsNewest DEF Inv
    <3>3. \A m \in Masternode \ {v.mn} : current'[m] = current[m]
      BY <3>1 DEF Inv, TypeOK
    <3>4. NothingWithoutObject'
      BY <2>2, <2>4 DEF NothingWithoutObject
    <3>5. CountedIsKnown'
      BY <2>2, <3>1, <3>3 DEF Inv, CountedIsKnown, NoInstance
    <3>6. IndexIsTrue'
      BY <2>2, <2>4, <3>1 DEF Inv, IndexIsTrue
    <3>7. GoneIsFlagged'
      BY <2>2, <3>1, <3>3 DEF Inv, GoneIsFlagged, NoInstance
    <3>8. QED BY <1>1, <3>2, <3>4, <3>5, <3>6, <3>7 DEF Inv
  <2>5. CASE Held /\ Refuse(v) /\ UNCHANGED <<index, orphans>>
    <3>1. UNCHANGED <<current, file, votedOn>>
      BY <2>5 DEF Refuse
    <3>2. CountedIsKnown' /\ GoneIsFlagged'
      BY <2>2, <3>1 DEF Inv, CountedIsKnown, GoneIsFlagged, NoInstance
    <3>3. NothingWithoutObject'
      BY <2>2, <2>5 DEF NothingWithoutObject
    <3>4. IndexIsTrue' /\ CurrentIsNewest'
      BY <2>2, <2>5, <3>1 DEF Inv, IndexIsTrue, CurrentIsNewest, Instance, NoInstance
    <3>5. QED BY <1>1, <3>2, <3>3, <3>4 DEF Inv
  <2>6. QED BY <1>3, <2>3, <2>4, <2>5 DEF ReceiveVote
<1>4. CASE ReceiveObject \/ CheckPostponedObjects
  <2>1. ~Held /\ UNCHANGED <<listed, dirty, left, confused>>
    BY <1>4 DEF ReceiveObject, CheckPostponedObjects, listVars
  <2>2. CASE AddGovernanceObject
    <3>1. index = {}
      BY <2>1 DEF Inv, NothingWithoutObject
    <3>2. QED BY <1>1, <2>2, <3>1, AddedObjectHasType, EmptyKeepsInv
  <2>3. CASE UNCHANGED <<deleted, dirtyCache, current, file, waiting, orphans, index, invalid, votedOn>>
    BY <1>1, <2>1, <2>3, FrameKeepsInv
  <2>4. QED BY <1>4, <2>2, <2>3 DEF ReceiveObject, CheckPostponedObjects
<1>5. CASE CleanOrphanObjects
  BY <1>1, <1>5, FrameKeepsInv DEF CleanOrphanObjects, objectVars, listVars
<1>6. CASE UpdateCaches
  <2>1. UNCHANGED <<object, waiting, index, votedOn, listed, left, confused>> /\ ~dirty' /\ Held
    BY <1>6 DEF UpdateCaches
  <2>2. CASE ~dirty
    <3>1. UNCHANGED <<current, file>>
      BY <1>6, <2>2 DEF UpdateCaches
    <3>2. CountedIsKnown' /\ NothingWithoutObject' /\ IndexIsTrue'
      BY <2>1, <3>1 DEF Inv, CountedIsKnown, NothingWithoutObject, IndexIsTrue, NoInstance
    <3>3. GoneIsFlagged' /\ CurrentIsNewest'
      BY <2>1, <2>2, <3>1 DEF Inv, GoneIsFlagged, CurrentIsNewest, NoInstance, Instance
    <3>4. QED BY <1>1, <3>2, <3>3 DEF Inv
  <2>3. CASE dirty
    <3>1. /\ current' = [m \in Masternode |-> IF m \in Gone THEN NoInstance ELSE current[m]]
          /\ file' = {v \in file : v.mn \notin Gone}
      BY <1>6, <2>3 DEF UpdateCaches
    <3>2. \A m \in Masternode : current'[m] # NoInstance => m \in listed /\ current[m] # NoInstance
      BY <3>1 DEF Gone
    <3>3. CountedIsKnown' /\ GoneIsFlagged'
      BY <2>1, <3>2 DEF Inv, CountedIsKnown, GoneIsFlagged, NoInstance
    <3>4. NothingWithoutObject'
      BY <2>1 DEF NothingWithoutObject
    <3>5. IndexIsTrue'
      <4>1. \A m \in Gone : m \in left
        BY DEF Inv, CountedIsKnown, Gone
      <4>2. QED BY <2>1, <3>1, <4>1 DEF Inv, IndexIsTrue
    <3>6. CurrentIsNewest'
      BY <1>1, <3>1, CleaningKeepsNewest DEF Inv
    <3>7. QED BY <1>1, <3>3, <3>4, <3>5, <3>6 DEF Inv
  <2>4. QED BY <2>2, <2>3
<1>7. CASE EraseObject
  BY <1>1, <1>7, EmptyKeepsInv DEF EraseObject
<1>8. CASE CheckMasternodeOrphanVotes
  <2>1. /\ \A v \in Fresh : v.mn \in listed /\ Held
        /\ waiting' \subseteq waiting /\ votedOn' = votedOn \cup {v.mn : v \in Fresh}
        /\ file' = file \cup Fresh
        /\ UNCHANGED <<object, index, listed, dirty, left, confused>>
    BY <1>8, OrphansAreRecorded DEF Fresh
  <2>2. \A m \in Masternode :
          current'[m] = current[m] \/ (m \in listed /\ m \in votedOn')
    <3> SUFFICES ASSUME NEW m \in Masternode
                 PROVE  current'[m] = current[m] \/ (m \in listed /\ m \in votedOn')
      OBVIOUS
    <3>1. CASE \E v \in Fresh : v.mn = m
      BY <2>1, <3>1
    <3>2. CASE ~ \E v \in Fresh : v.mn = m
      BY <1>8, <3>2, OrphansAreRecorded
    <3>3. QED BY <3>1, <3>2
  <2>3. CurrentIsNewest'
    BY <1>1, <1>8, OrphansKeepNewest DEF Inv
  <2>4. NothingWithoutObject'
    <3>1. ASSUME ~Held' PROVE Fresh = {} /\ \A m \in Masternode : current'[m] = current[m]
      BY <1>8, <2>1, <3>1, OrphansAreRecorded
    <3>2. QED BY <2>1, <3>1 DEF Inv, NothingWithoutObject, NoInstance
  <2>5. CountedIsKnown'
    BY <2>1, <2>2 DEF Inv, CountedIsKnown, NoInstance
  <2>6. GoneIsFlagged'
    BY <2>1, <2>2 DEF Inv, GoneIsFlagged, NoInstance
  <2>7. IndexIsTrue'
    BY <2>1 DEF Inv, IndexIsTrue
  <2>8. QED BY <1>1, <2>3, <2>4, <2>5, <2>6, <2>7 DEF Inv
<1>9. ASSUME NEW m \in Masternode, AddMasternode(m) PROVE Inv'
  <2>1. /\ listed' = listed \cup {m} /\ left' = left
        /\ confused' = IF current[m] # NoInstance THEN confused \cup {m} ELSE confused
        /\ UNCHANGED <<object, current, file, waiting, index, votedOn, dirty>>
    BY <1>9 DEF AddMasternode, objectVars
  <2>2. CountedIsKnown'
    BY <2>1 DEF Inv, CountedIsKnown, NoInstance
  <2>3. GoneIsFlagged'
    BY <2>1 DEF Inv, GoneIsFlagged, NoInstance
  <2>4. NothingWithoutObject' /\ IndexIsTrue' /\ CurrentIsNewest'
    BY <2>1 DEF Inv, NothingWithoutObject, IndexIsTrue, CurrentIsNewest, NoInstance, Instance
  <2>5. QED BY <1>1, <2>2, <2>3, <2>4 DEF Inv
<1>10. ASSUME NEW m \in Masternode, RemoveMasternode(m) PROVE Inv'
  <2>1. /\ listed' = listed \ {m} /\ left' = left \cup {m} /\ confused' = confused
        /\ votedOn' = votedOn \ {m}
        /\ UNCHANGED <<object, current, file, waiting, index>>
    BY <1>10 DEF RemoveMasternode, objectVars
  <2>2. m \in listed /\ dirty' = (dirty \/ m \in votedOn)
    BY <1>10 DEF RemoveMasternode
  <2>3. CountedIsKnown'
    BY <2>1 DEF Inv, CountedIsKnown, NoInstance
  <2>4. GoneIsFlagged'
    <3> SUFFICES ASSUME NEW k \in Masternode \ listed', current[k] # NoInstance
                 PROVE  dirty' \/ k \in confused
      BY <2>1 DEF GoneIsFlagged, NoInstance
    <3>1. CASE k = m
      <4>1. k \in votedOn \/ k \in confused
        BY <2>2, <3>1 DEF Inv, CountedIsKnown
      <4>2. QED BY <2>2, <3>1, <4>1
    <3>2. CASE k # m
      <4>1. k \in Masternode \ listed
        BY <2>1, <3>2
      <4>2. dirty \/ k \in confused
        BY <4>1 DEF Inv, GoneIsFlagged
      <4>3. QED BY <2>2, <4>2
    <3>3. QED BY <3>1, <3>2
  <2>5. NothingWithoutObject' /\ IndexIsTrue' /\ CurrentIsNewest'
    BY <2>1 DEF Inv, NothingWithoutObject, IndexIsTrue, CurrentIsNewest, NoInstance, Instance
  <2>6. QED BY <1>1, <2>3, <2>4, <2>5 DEF Inv
<1>11. CASE Restart
  <2>1. /\ waiting' = {} /\ index' = file /\ (Held <=> Held')
        /\ UNCHANGED <<current, file, votedOn, listed, left>>
    BY <1>11 DEF Restart
  <2>2. confused' = (IF dirty THEN confused \cup Gone ELSE confused) /\ ~dirty'
    BY <1>11 DEF Restart
  <2>3. NothingWithoutObject' /\ IndexIsTrue'
    BY <2>1 DEF Inv, NothingWithoutObject, IndexIsTrue, NoInstance
  <2>4. CurrentIsNewest'
    BY <2>1 DEF Inv, CurrentIsNewest, Instance, NoInstance
  <2>5. CountedIsKnown'
    BY <2>1, <2>2 DEF Inv, CountedIsKnown, NoInstance
  <2>6. GoneIsFlagged'
    <3>1. \A m \in Masternode \ listed : current[m] # NoInstance => m \in confused'
      BY <2>2 DEF Inv, GoneIsFlagged, Gone
    <3>2. QED BY <2>1, <3>1 DEF GoneIsFlagged, NoInstance
  <2>7. QED BY <1>1, <2>3, <2>4, <2>5, <2>6 DEF Inv
<1>12. CASE UNCHANGED vars
  BY <1>1, <1>12, FrameKeepsInv DEF vars, objectVars, listVars
<1>13. QED
  BY <1>2, <1>3, <1>4, <1>5, <1>6, <1>7, <1>8, <1>9, <1>10, <1>11, <1>12 DEF Next

LEMMA InvIsInductive == Spec => []Inv
<1>1. Init => TypeOK
  <2>1. ASSUME Init PROVE Cardinality(orphans) <= 1
    BY <2>1, FS_EmptySet DEF Init
  <2>2. ASSUME Init PROVE current \in [Masternode -> [time : 0 .. MaxTime, yes : BOOLEAN]]
    BY <2>2, GovernanceAssumption DEF Init, NoInstance
  <2>3. ASSUME Init PROVE faults \in 0 .. MaxFaults
    BY <2>3, GovernanceAssumption DEF Init
  <2>4. ASSUME Init PROVE deleted \in BOOLEAN /\ dirtyCache \in BOOLEAN
    BY <2>4 DEF Init
  <2>5. ASSUME Init PROVE dirty \in BOOLEAN /\ added \in BOOLEAN
    BY <2>5 DEF Init
  <2>6. ASSUME Init
        PROVE  /\ listed \subseteq indexed /\ indexed \subseteq Masternode
               /\ object \in {"unknown", "postponed", "held", "erased"}
               /\ \A v, w \in waiting : v.mn = w.mn => v = w
               /\ signed = {} /\ file = {} /\ index = {} /\ invalid = {} /\ waiting = {}
               /\ orphans = {} /\ votedOn = {} /\ left = {} /\ confused = {}
    BY <2>6 DEF Init
  <2>7. QED BY <2>1, <2>2, <2>3, <2>4, <2>5, <2>6 DEF TypeOK
<1>2. Init => Inv
  BY <1>1 DEF Init, Inv, NothingWithoutObject, CountedIsKnown, IndexIsTrue, CurrentIsNewest,
              GoneIsFlagged
<1>3. QED BY <1>2, InvIsKept, PTL DEF Spec

-----------------------------------------------------------------------------
(* What follows from it *)

\* The state has its type; one vote waits for the object, one per masternode in it.
THEOREM TypeCorrect == Spec => []TypeOK
<1>1. Inv => TypeOK
  BY DEF Inv
<1>2. QED BY <1>1, InvIsInductive, PTL

\* The manager's index of votes points to no object that is gone, and what it names is
\* in the object's vote file unless its masternode was removed.
THEOREM IndexStaysTrue == Spec => []IndexIsTrue
<1>1. Inv => IndexIsTrue
  BY DEF Inv
<1>2. QED BY <1>1, InvIsInductive, PTL

\* The vote that is counted for a masternode is the newest of those in the vote file.
THEOREM CurrentStaysNewest == Spec => []CurrentIsNewest
<1>1. Inv => CurrentIsNewest
  BY DEF Inv
<1>2. QED BY <1>1, InvIsInductive, PTL

\* The vote of a masternode that is gone is counted only until the next cleaning, unless
\* the masternode came back too early or a restart lost the flag.
THEOREM GoneStaysFlagged == Spec => []GoneIsFlagged
<1>1. Inv => GoneIsFlagged
  BY DEF Inv
<1>2. QED BY <1>1, InvIsInductive, PTL

\* The object is marked as deleted only while a quorum of masternodes has signed for it:
\* what is counted as a yes is a vote in the file, and one per masternode.
THEOREM DeletionHasQuorum == Spec => DeletionNeedsQuorum
<1> DEFINE Signers == {m \in Masternode : \E v \in signed : v.mn = m /\ v.yes}
<1>1. ASSUME Inv, [Next]_vars, ~deleted, deleted' PROVE Cardinality(Signers) >= nGovernanceMinQuorum
  <2>1. UpdateCaches
    <3>1. ~AddGovernanceObject
      BY <1>1 DEF AddGovernanceObject
    <3>2. ~EraseObject /\ ~CheckMasternodeOrphanVotes /\ ~CleanOrphanObjects /\ ~Restart
      BY <1>1 DEF EraseObject, CheckMasternodeOrphanVotes, CleanOrphanObjects, objectVars, Restart
    <3>3. ~ReceiveObject /\ ~CheckPostponedObjects
      BY <1>1, <3>1 DEF ReceiveObject, CheckPostponedObjects
    <3>4. \A m \in Masternode : ~AddMasternode(m) /\ ~RemoveMasternode(m)
      BY <1>1 DEF AddMasternode, RemoveMasternode, objectVars
    <3>5. \A v \in Vote : ~Sign(v) /\ ~ReceiveVote(v)
      BY <1>1 DEF Sign, ReceiveVote, objectVars
    <3>6. ~UNCHANGED vars
      BY <1>1 DEF vars, objectVars
    <3>7. QED BY <1>1, <3>2, <3>3, <3>4, <3>5, <3>6 DEF Next
  <2>2. PICK cur \in {current, [m \in Masternode |-> IF m \in Gone THEN NoInstance ELSE current[m]]} :
          UpdateSentinelVariables(cur, dirtyCache \/ dirty)
    BY <2>1 DEF UpdateCaches
  <2>3. PICK nMnCount \in 0 .. Cardinality(listed) : AbsoluteYesCount(cur) >= AbsDeleteReq(nMnCount)
    BY <1>1, <2>2 DEF UpdateSentinelVariables
  <2> DEFINE Yes == {m \in Masternode : cur[m].time > 0 /\ cur[m].yes = TRUE}
             No == {m \in Masternode : cur[m].time > 0 /\ cur[m].yes = FALSE}
  <2>4. /\ IsFiniteSet(Signers) /\ Cardinality(Signers) \in Nat
        /\ Cardinality(Yes) \in Nat /\ Cardinality(No) \in Nat
    BY GovernanceAssumption, FS_Subset, FS_CardinalityType
  <2>5. Yes \subseteq Signers
    <3> SUFFICES ASSUME NEW m \in Yes PROVE m \in Signers
      OBVIOUS
    <3>1. cur[m].time > 0 /\ cur[m].yes = TRUE
      OBVIOUS
    <3>2. cur[m] = current[m] \/ cur[m] = NoInstance
      BY <2>2
    <3>3. current[m].time > 0 /\ current[m].yes = TRUE
      BY <3>1, <3>2 DEF NoInstance
    <3>4. current[m] # NoInstance
      BY <3>3 DEF NoInstance
    <3>5. PICK v \in file : v.mn = m /\ Instance(v) = current[m]
      BY <1>1, <3>4 DEF Inv, CurrentIsNewest
    <3>6. v \in signed /\ v.yes = TRUE
      BY <1>1, <3>3, <3>5 DEF Inv, TypeOK, Instance
    <3>7. QED BY <3>5, <3>6
  <2>6. Cardinality(Yes) <= Cardinality(Signers)
    <3> HIDE DEF Yes, Signers
    <3>1. QED BY <2>4, <2>5, FS_Subset
  <2>7. Cardinality(Yes) - Cardinality(No) >= nGovernanceMinQuorum
    <3>1. Cardinality(Yes) - Cardinality(No) >= AbsDeleteReq(nMnCount)
      BY <2>3 DEF AbsoluteYesCount, CountMatchingVotes
    <3>2. IsFiniteSet(listed)
      BY <1>1, GovernanceAssumption, FS_Subset DEF Inv, TypeOK, CountedIsKnown
    <3>3. nMnCount \in Nat
      BY <3>2, FS_CardinalityType
    <3>4. AbsDeleteReq(nMnCount) \in Int /\ AbsDeleteReq(nMnCount) >= nGovernanceMinQuorum
      BY <3>3, GovernanceAssumption DEF AbsDeleteReq
    <3> HIDE DEF Yes, No
    <3>5. QED BY <2>4, <3>1, <3>4, GovernanceAssumption
  <2>8. QED
    <3> HIDE DEF Yes, No, Signers
    <3>1. QED BY <2>4, <2>6, <2>7, GovernanceAssumption
<1>2. Inv /\ [Next]_vars =>
      [~deleted /\ deleted' => Cardinality(Signers) >= nGovernanceMinQuorum]_vars
  BY <1>1
<1>3. QED BY <1>2, InvIsInductive, PTL DEF Spec, DeletionNeedsQuorum
=============================================================================
