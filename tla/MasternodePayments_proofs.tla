----------------------- MODULE MasternodePayments_proofs -----------------------
(***************************************************************************)
(* The election of a block's payee, for any masternodes, payees and number *)
(* of required signatures: the counts are those of the checked votes, but  *)
(* for this node's own; two payees can only win when more masternodes were *)
(* counted than agree on their ranks, or some signed twice and their first *)
(* vote was forgotten; and a block that is being mined remains valid.      *)
(***************************************************************************)
EXTENDS MasternodePaymentsMiner, FiniteSetTheorems, FunctionTheorems, SequenceTheorems,
        WellFoundedInduction, TLAPS

PayeeEntry == [payee : Payee, count : Nat \ {0}]

TypeInv ==
  /\ signed \subseteq Vote /\ seen \subseteq Vote /\ verified \subseteq Vote
  /\ payees \in Seq(PayeeEntry)
  /\ lastVote \subseteq Voter
  /\ testing \in [Thread -> SUBSET Vote] /\ adding \in [Thread -> SUBSET Vote]
  /\ tip \in Tip
  /\ synced \in BOOLEAN
  /\ faults \in 0 .. MaxFaults
  /\ forgotten \subseteq Voter

\* What the message thread holds was signed; the chain thread holds votes of this node, and a vote
\* that was counted since it was tested is this node's own and held by one thread only.
Held ==
  /\ testing["message"] \subseteq signed /\ adding["message"] \subseteq signed
  /\ \A v \in testing["chain"] \cup adding["chain"] : v.voter \in Self
  /\ \A v \in adding["message"] \cap verified :
       v.voter \in Self /\ v \notin adding["chain"]

\* The votes counted and those that the message thread is about to count.
Taken == verified \cup testing["message"] \cup adding["message"]

\* CanVote remembers the voter of every vote that is taken, or has forgotten it, or the
\* vote is this node's own.
Remembered == \A v \in Taken : v.voter \in lastVote \cup forgotten \cup Self

TakenOnce ==
  \A v, w \in Taken : v.voter = w.voter => v = w \/ v.voter \in Self \cup forgotten

\* The votes that may count twice: this node's own, unless a thread is about to add them.
Settled(p) == {v \in VotesFor(p) : v.voter \in Self /\ \A t \in Thread : v \notin adding[t]}

CountInv ==
  /\ verified \subseteq seen \cap signed
  /\ \A p \in Payee :
       /\ Count(p) >= Cardinality(VotesFor(p))
       /\ Count(p) <= Cardinality(VotesFor(p)) + Cardinality(Settled(p))
  /\ \A i, j \in DOMAIN payees : payees[i].payee = payees[j].payee => i = j

Inv == TypeInv /\ Held /\ CountInv /\ Remembered /\ TakenOnce

-----------------------------------------------------------------------------
(* Counting *)

LEMMA Threads == /\ Thread = {"message", "chain"} /\ "message" \in Thread
                 /\ "chain" \in Thread /\ "message" # "chain"
  BY DEF Thread

\* The voters of one payee are different masternodes.
LEMMA VotersOfPayee ==
  ASSUME verified \subseteq Vote, NEW p
  PROVE  /\ IsFiniteSet(VotesFor(p))
         /\ Cardinality(VotesFor(p)) \in Nat
         /\ Cardinality(VotesFor(p)) <= Cardinality(Voter)
<1> DEFINE f == [v \in VotesFor(p) |-> v.voter]
<1>1. f \in [VotesFor(p) -> Voter]
  BY DEF VotesFor, Vote
<1>2. \A a, b \in VotesFor(p) : f[a] = f[b] => a = b
  BY DEF VotesFor, Vote
<1>3. f \in Injection(VotesFor(p), Voter)
  <2> HIDE DEF f
  <2>1. QED BY <1>1, <1>2, Fun_IsInj
<1>4. IsFiniteSet(VotesFor(p)) /\ Cardinality(VotesFor(p)) <= Cardinality(Voter)
  <2> HIDE DEF f
  <2>1. QED BY <1>3, FS_Injection, PaymentsAssumption
<1>5. QED BY <1>4, FS_CardinalityType

\* The votes of this node for one payee: at most one.
LEMMA OwnVoteOfPayee ==
  ASSUME verified \subseteq Vote, NEW p
  PROVE  /\ IsFiniteSet(VotesFor(p) \cap OwnVotes)
         /\ Cardinality(VotesFor(p) \cap OwnVotes) \in 0 .. 1
         /\ Settled(p) \subseteq VotesFor(p) \cap OwnVotes
         /\ IsFiniteSet(Settled(p)) /\ Cardinality(Settled(p)) \in Nat
         /\ Cardinality(Settled(p)) <= Cardinality(VotesFor(p) \cap OwnVotes)
<1> DEFINE O == VotesFor(p) \cap OwnVotes
           f == [v \in O |-> v.voter]
<1>1. IsFiniteSet(Self) /\ Cardinality(Self) \in 0 .. 1
  BY PaymentsAssumption, FS_Subset, FS_CardinalityType
<1>2. f \in [O -> Self]
  BY DEF OwnVotes
<1>3. \A a, b \in O : f[a] = f[b] => a = b
  BY DEF VotesFor, Vote
<1>4. f \in Injection(O, Self)
  <2> HIDE DEF f, O
  <2>1. QED BY <1>2, <1>3, Fun_IsInj
<1>5. IsFiniteSet(O) /\ Cardinality(O) <= Cardinality(Self)
  <2> HIDE DEF f, O
  <2>1. QED BY <1>1, <1>4, FS_Injection
<1>6. Settled(p) \subseteq O
  BY DEF Settled, VotesFor, OwnVotes
<1>7. Cardinality(O) \in Nat
  BY <1>5, FS_CardinalityType
<1>8. /\ IsFiniteSet(Settled(p)) /\ Cardinality(Settled(p)) \in Nat
      /\ Cardinality(Settled(p)) <= Cardinality(O)
  <2> HIDE DEF O
  <2>1. QED BY <1>5, <1>6, FS_Subset, FS_CardinalityType
<1>9. Cardinality(O) \in 0 .. 1
  <2> HIDE DEF O
  <2>1. QED BY <1>1, <1>5, <1>7
<1>10. QED BY <1>5, <1>6, <1>8, <1>9

\* The entry of a payee that is listed once is the one that Count reads.
LEMMA CountReadsEntry ==
  ASSUME NEW s, NEW i \in DOMAIN s,
         \A j, k \in DOMAIN s : s[j].payee = s[k].payee => j = k
  PROVE  s[CHOOSE k \in {j \in DOMAIN s : s[j].payee = s[i].payee} : TRUE] = s[i]
<1>1. {j \in DOMAIN s : s[j].payee = s[i].payee} = {i}
  OBVIOUS
<1>2. (CHOOSE k \in {i} : TRUE) = i
  OBVIOUS
<1>3. QED BY <1>1, <1>2

LEMMA CountIsNat ==
  ASSUME payees \in Seq(PayeeEntry), NEW p
  PROVE  Count(p) \in Nat
<1>1. CASE Entry(p) = {}
  BY <1>1 DEF Count
<1>2. CASE Entry(p) # {}
  <2> DEFINE k == CHOOSE i \in Entry(p) : TRUE
  <2>1. k \in Entry(p)
    BY <1>2
  <2>2. payees[k] \in PayeeEntry
    BY <2>1, LenProperties, ElementOfSeq DEF Entry
  <2>3. Count(p) = payees[k].count
    BY <1>2 DEF Count
  <2>4. QED BY <2>2, <2>3 DEF PayeeEntry
<1>3. QED BY <1>1, <1>2

\* AddPayee: the count of one payee is one more.
LEMMA AddPayeeCounts ==
  ASSUME payees \in Seq(PayeeEntry), NEW q \in Payee, payees' = AddPayee(q),
         \A i, j \in DOMAIN payees : payees[i].payee = payees[j].payee => i = j
  PROVE  /\ payees' \in Seq(PayeeEntry)
         /\ \A p \in Payee : Count(p)' = IF p = q THEN Count(p) + 1 ELSE Count(p)
         /\ \A i, j \in DOMAIN payees' : payees'[i].payee = payees'[j].payee => i = j
<1>2. DOMAIN payees = 1 .. Len(payees) /\ Len(payees) \in Nat
  BY LenProperties
<1>3. \A i \in DOMAIN payees : payees[i] \in PayeeEntry
  BY <1>2, ElementOfSeq
<1>8. CASE Entry(q) = {}
  <2> DEFINE n == Len(payees) + 1
             e == [payee |-> q, count |-> 1]
  <2>1. e \in PayeeEntry
    BY DEF PayeeEntry
  <2>2. payees' = Append(payees, e)
    BY <1>8 DEF AddPayee
  <2>3. payees' \in Seq(PayeeEntry) /\ Len(payees') = n
    BY <1>2, <2>1, <2>2, AppendProperties
  <2>4. DOMAIN payees' = 1 .. n
    BY <2>3, LenProperties
  <2>5. payees'[n] = e /\ \A i \in DOMAIN payees : payees'[i] = payees[i]
    BY <1>2, <2>1, <2>2, AppendProperties
  <2>6. \A i \in DOMAIN payees : payees[i].payee # q
    BY <1>8 DEF Entry
  <2>7. DOMAIN payees' = DOMAIN payees \cup {n} /\ n \notin DOMAIN payees
    BY <1>2, <2>4
  <2>8. \A i, j \in DOMAIN payees' : payees'[i].payee = payees'[j].payee => i = j
    BY <2>5, <2>6, <2>7
  <2>9. Entry(q)' = {n} /\ \A p \in Payee \ {q} : Entry(p)' = Entry(p)
    BY <2>5, <2>6, <2>7 DEF Entry
  <2>10. Count(q)' = 1
    BY <2>5, <2>9 DEF Count
  <2>11. Count(q) = 0
    BY <1>8 DEF Count
  <2>12. \A p \in Payee \ {q} : Count(p)' = Count(p)
    <3> SUFFICES ASSUME NEW p \in Payee \ {q} PROVE Count(p)' = Count(p)
      OBVIOUS
    <3>1. CASE Entry(p) = {}
      BY <2>9, <3>1 DEF Count
    <3>2. CASE Entry(p) # {}
      <4> DEFINE k == CHOOSE i \in Entry(p) : TRUE
      <4>1. k \in Entry(p)
        BY <3>2
      <4>2. payees'[k] = payees[k]
        BY <2>5, <4>1 DEF Entry
      <4>3. Count(p)' = payees'[k].count /\ Count(p) = payees[k].count
        BY <2>9, <3>2 DEF Count
      <4>4. QED BY <4>2, <4>3
    <3>3. QED BY <3>1, <3>2
  <2>13. QED BY <2>3, <2>8, <2>10, <2>11, <2>12
<1>9. CASE Entry(q) # {}
  <2>1. payees' = [i \in DOMAIN payees |->
                     IF i \in Entry(q) THEN [payees[i] EXCEPT !.count = @ + 1] ELSE payees[i]]
    BY <1>9 DEF AddPayee
  <2>2. DOMAIN payees' = DOMAIN payees
    BY <2>1
  <2>3. \A i \in DOMAIN payees : payees'[i].payee = payees[i].payee /\ payees'[i] \in PayeeEntry
    BY <1>3, <2>1 DEF PayeeEntry
  <2>4. payees' \in Seq(PayeeEntry)
    BY <1>2, <2>1, <2>2, <2>3, SeqDef
  <2>5. \A i, j \in DOMAIN payees' : payees'[i].payee = payees'[j].payee => i = j
    BY <2>2, <2>3
  <2>6. \A p : Entry(p)' = Entry(p)
    BY <2>2, <2>3 DEF Entry
  <2>7. \A p \in Payee : Count(p)' = IF p = q THEN Count(p) + 1 ELSE Count(p)
    <3> SUFFICES ASSUME NEW p \in Payee
                 PROVE  Count(p)' = IF p = q THEN Count(p) + 1 ELSE Count(p)
      OBVIOUS
    <3>1. CASE Entry(p) = {}
      BY <1>9, <2>6, <3>1 DEF Count
    <3>2. CASE Entry(p) # {}
      <4> DEFINE k == CHOOSE i \in Entry(p) : TRUE
      <4>1. k \in Entry(p)
        BY <3>2
      <4>2. k \in DOMAIN payees /\ payees[k].payee = p
        BY <4>1 DEF Entry
      <4>3. Count(p)' = payees'[k].count /\ Count(p) = payees[k].count
        BY <2>6, <3>2 DEF Count
      <4>4. CASE p = q
        BY <1>3, <2>1, <4>1, <4>2, <4>3, <4>4 DEF PayeeEntry
      <4>5. CASE p # q
        <5>1. k \notin Entry(q)
          BY <4>2, <4>5 DEF Entry
        <5>2. QED BY <2>1, <4>2, <4>3, <4>5, <5>1
      <4>6. QED BY <4>4, <4>5
    <3>3. QED BY <3>1, <3>2
  <2>8. QED BY <2>4, <2>5, <2>7
<1>10. QED BY <1>8, <1>9

-----------------------------------------------------------------------------
(* Every step keeps the invariant *)

\* AddPaymentVote: a vote that is not verified counts once, and one that another thread
\* has verified since the test is settled now.
LEMMA AddKeepsCounts ==
  ASSUME Inv, NEW t \in Thread, NEW v \in Vote, AddPaymentVote(t, v)
  PROVE  CountInv'
<1> DEFINE q == v.payee
<1>1. /\ v \in adding[t] /\ adding' = [adding EXCEPT ![t] = {}]
      /\ seen' = seen \cup {v} /\ verified' = verified \cup {v}
      /\ payees' = AddPayee(q) /\ signed' = signed \cup {v}
  BY DEF AddPaymentVote
<1>2. /\ q \in Payee /\ payees \in Seq(PayeeEntry) /\ verified \subseteq Vote
      /\ verified' \subseteq Vote /\ adding \in [Thread -> SUBSET Vote]
  BY <1>1 DEF Vote, Inv, TypeInv
<1>3. /\ \A p \in Payee : Count(p)' = IF p = q THEN Count(p) + 1 ELSE Count(p)
      /\ \A i, j \in DOMAIN payees' : payees'[i].payee = payees'[j].payee => i = j
  BY <1>1, <1>2, AddPayeeCounts DEF Inv, CountInv
<1>4. verified' \subseteq seen' \cap signed'
  BY <1>1 DEF Inv, CountInv
<1>5. ASSUME NEW p \in Payee
      PROVE  /\ Count(p)' >= Cardinality(VotesFor(p)')
             /\ Count(p)' <= Cardinality(VotesFor(p)') + Cardinality(Settled(p)')
  <2>1. /\ Count(p) \in Nat /\ Count(p) >= Cardinality(VotesFor(p))
        /\ Count(p) <= Cardinality(VotesFor(p)) + Cardinality(Settled(p))
    BY <1>2, CountIsNat DEF Inv, CountInv
  <2>2. /\ IsFiniteSet(VotesFor(p)) /\ Cardinality(VotesFor(p)) \in Nat
        /\ IsFiniteSet(Settled(p)) /\ Cardinality(Settled(p)) \in Nat
    BY <1>2, VotersOfPayee, OwnVoteOfPayee
  <2>3. Settled(p) \subseteq Settled(p)'
    BY <1>1, <1>2 DEF Settled, VotesFor
  <2>4. IsFiniteSet(VotesFor(p)') /\ IsFiniteSet(Settled(p)')
    <3>1. VotesFor(p)' \subseteq VotesFor(p) \cup {v}
      BY <1>1 DEF VotesFor
    <3>2. IsFiniteSet(VotesFor(p) \cup {v})
      BY <2>2, FS_AddElement
    <3>3. Settled(p)' \subseteq VotesFor(p)'
      BY DEF Settled
    <3>4. QED BY <3>1, <3>2, <3>3, FS_Subset
  <2>5. /\ Cardinality(Settled(p)') \in Nat
        /\ Cardinality(Settled(p)) <= Cardinality(Settled(p)')
    BY <2>2, <2>3, <2>4, FS_Subset, FS_CardinalityType
  <2>6. CASE p # q
    <3>1. VotesFor(p)' = VotesFor(p)
      BY <1>1, <2>6 DEF VotesFor
    <3>2. Count(p)' = Count(p)
      BY <1>3, <2>6
    <3>3. QED BY <2>1, <2>2, <2>5, <3>1, <3>2
  <2>7. CASE p = q /\ v \notin verified
    <3>1. VotesFor(p)' = VotesFor(p) \cup {v} /\ v \notin VotesFor(p)
      BY <1>1, <2>7 DEF VotesFor
    <3>2. Cardinality(VotesFor(p)') = Cardinality(VotesFor(p)) + 1
      BY <2>2, <3>1, FS_AddElement
    <3>3. Count(p)' = Count(p) + 1
      BY <1>3, <2>7
    <3>4. QED BY <2>1, <2>2, <2>5, <3>2, <3>3
  <2>8. CASE p = q /\ v \in verified
    <3>1. VotesFor(p)' = VotesFor(p) /\ v \in VotesFor(p)
      BY <1>1, <2>8 DEF VotesFor
    <3>2. v \notin Settled(p)
      BY <1>1 DEF Settled
    <3>3. v.voter \in Self /\ \A s \in Thread : v \notin adding'[s]
      BY <1>1, <1>2, <2>8, Threads DEF Inv, Held
    <3>4. v \in Settled(p)'
      BY <3>1, <3>3 DEF Settled
    <3>5. Settled(p) \cup {v} \subseteq Settled(p)'
      BY <2>3, <3>4
    <3>6. Cardinality(Settled(p) \cup {v}) = Cardinality(Settled(p)) + 1
      BY <2>2, <3>2, FS_AddElement
    <3>7. Cardinality(Settled(p)) + 1 <= Cardinality(Settled(p)')
      BY <2>4, <3>5, <3>6, FS_Subset
    <3>8. Count(p)' = Count(p) + 1
      BY <1>3, <2>8
    <3>9. Count(p)' >= Cardinality(VotesFor(p)')
      BY <2>1, <2>2, <3>1, <3>8
    <3>10. Count(p)' <= Cardinality(VotesFor(p)') + Cardinality(Settled(p)')
      BY <2>1, <2>2, <2>5, <3>1, <3>7, <3>8
    <3>11. QED BY <3>9, <3>10
  <2>9. QED BY <2>6, <2>7, <2>8
<1>6. QED BY <1>3, <1>4, <1>5 DEF CountInv

\* The counts stay, and no vote that was counted is held anew.
LEMMA SameCounts ==
  ASSUME Inv, UNCHANGED <<verified, payees>>, seen \subseteq seen', signed \subseteq signed',
         \A v \in verified, t \in Thread : v \in adding'[t] => \E s \in Thread : v \in adding[s]
  PROVE  CountInv'
<1>1. verified' \subseteq seen' \cap signed'
  BY DEF Inv, CountInv
<1>2. ASSUME NEW p \in Payee
      PROVE  /\ Count(p)' >= Cardinality(VotesFor(p)')
             /\ Count(p)' <= Cardinality(VotesFor(p)') + Cardinality(Settled(p)')
  <2>1. Count(p)' = Count(p) /\ VotesFor(p)' = VotesFor(p)
    BY DEF Count, Entry, VotesFor
  <2>2. /\ Count(p) \in Nat /\ Count(p) >= Cardinality(VotesFor(p))
        /\ Count(p) <= Cardinality(VotesFor(p)) + Cardinality(Settled(p))
    BY CountIsNat DEF Inv, TypeInv, CountInv
  <2>3. /\ IsFiniteSet(VotesFor(p)) /\ Cardinality(VotesFor(p)) \in Nat
        /\ IsFiniteSet(Settled(p)) /\ Cardinality(Settled(p)) \in Nat
    BY VotersOfPayee, OwnVoteOfPayee DEF Inv, TypeInv
  <2>4. Settled(p) \subseteq Settled(p)' /\ Settled(p)' \subseteq VotesFor(p)
    BY <2>1 DEF Settled, VotesFor
  <2>5. /\ Cardinality(Settled(p)') \in Nat
        /\ Cardinality(Settled(p)) <= Cardinality(Settled(p)')
    BY <2>3, <2>4, FS_Subset, FS_CardinalityType
  <2>6. QED BY <2>1, <2>2, <2>3, <2>5
<1>3. QED BY <1>1, <1>2 DEF Inv, CountInv

\* Everything that is known of the votes is forgotten.
LEMMA NoCounts ==
  ASSUME verified' = {}, payees' = <<>>
  PROVE  CountInv'
<1>1. DOMAIN payees' = {}
  OBVIOUS
<1>2. \A p \in Payee : Count(p)' = 0 /\ VotesFor(p)' = {} /\ Settled(p)' = {}
  BY <1>1 DEF Count, Entry, VotesFor, Settled
<1>3. Cardinality({}) = 0
  BY FS_EmptySet
<1>4. ASSUME NEW p \in Payee
      PROVE  /\ Count(p)' >= Cardinality(VotesFor(p)')
             /\ Count(p)' <= Cardinality(VotesFor(p)') + Cardinality(Settled(p)')
  <2>1. Count(p)' = 0
    BY <1>2
  <2>2. Cardinality(VotesFor(p)') = 0 /\ Cardinality(Settled(p)') = 0
    BY <1>2, <1>3
  <2>3. QED BY <2>1, <2>2
<1>5. \A i, j \in DOMAIN payees' : payees'[i].payee = payees'[j].payee => i = j
  BY <1>1
<1>6. QED BY <1>4, <1>5 DEF CountInv

LEMMA VoteKeepsInv ==
  ASSUME Inv, NEW v \in Vote, NEW rank \in Rank, NEW passes \in BOOLEAN,
         ProcessVote(v, rank, passes)
  PROVE  Inv'
<1>1. /\ testing["message"] = {} /\ adding["message"] = {} /\ seen' = seen \cup {v}
      /\ v \notin seen /\ UNCHANGED <<signed, verified, payees, adding, tip, synced, forgotten>>
      /\ passes => v \in signed
  BY DEF ProcessVote, Idle
<1>2. v.voter \in Voter
  BY DEF Vote
<1>3. CountInv'
  BY <1>1, SameCounts
<1>4. faults' \in 0 .. MaxFaults
  BY PaymentsAssumption DEF ProcessVote, Inv, TypeInv
<1>5. CASE UNCHANGED testing /\ lastVote \subseteq lastVote' /\ lastVote' \subseteq Voter
  <2>1. TypeInv'
    BY <1>1, <1>4, <1>5 DEF Inv, TypeInv
  <2>2. Held' /\ Taken' = Taken
    BY <1>1, <1>5 DEF Inv, Held, Taken
  <2>3. Remembered' /\ TakenOnce'
    BY <1>1, <1>5, <2>2 DEF Inv, Remembered, TakenOnce
  <2>4. QED BY <1>3, <2>1, <2>2, <2>3 DEF Inv
<1>6. CASE /\ testing' = [testing EXCEPT !["message"] = {v}] /\ v \in signed
           /\ v.voter \notin lastVote /\ lastVote' = lastVote \cup {v.voter}
  <2>1. TypeInv'
    BY <1>1, <1>2, <1>4, <1>6 DEF Inv, TypeInv
  <2>2. testing'["message"] = {v} /\ testing'["chain"] = testing["chain"]
    BY <1>6, Threads DEF Inv, TypeInv
  <2>3. Held'
    BY <1>1, <1>6, <2>2, Threads DEF Inv, Held
  <2>4. Taken' = Taken \cup {v}
    BY <1>1, <2>2 DEF Taken
  <2>5. Remembered'
    BY <1>1, <1>6, <2>4 DEF Inv, Remembered
  <2>6. TakenOnce'
    <3> SUFFICES ASSUME NEW w \in Taken, w.voter = v.voter
                 PROVE  w.voter \in Self \cup forgotten
      BY <1>1, <2>4 DEF Inv, TakenOnce
    <3>1. QED BY <1>6 DEF Inv, Remembered
  <2>7. QED BY <1>3, <2>1, <2>3, <2>5, <2>6 DEF Inv
<1>7. QED
  <2>1. CASE UNCHANGED <<lastVote, testing>>
    BY <1>5, <2>1 DEF Inv, TypeInv
  <2>2. CASE /\ CanVote(v.voter) /\ lastVote' = lastVote \cup {v.voter}
             /\ testing' = IF passes THEN [testing EXCEPT !["message"] = {v}] ELSE testing
    BY <1>1, <1>2, <1>5, <1>6, <2>2 DEF CanVote, Inv, TypeInv
  <2>3. QED BY <2>1, <2>2 DEF ProcessVote

LEMMA BlockKeepsInv ==
  ASSUME Inv, NEW v \in Vote, ProcessBlock(v)
  PROVE  Inv'
<1>1. /\ v.voter \in Self /\ testing' = [testing EXCEPT !["chain"] = {v}]
      /\ UNCHANGED <<signed, seen, verified, payees, lastVote, adding, tip, synced, forgotten>>
  BY DEF ProcessBlock
<1>2. faults' \in 0 .. MaxFaults
  BY PaymentsAssumption DEF ProcessBlock, CountFaultOf, Inv, TypeInv
<1>3. TypeInv' /\ CountInv'
  BY <1>1, <1>2, SameCounts DEF Inv, TypeInv
<1>4. testing'["chain"] = {v} /\ testing'["message"] = testing["message"]
  BY <1>1, Threads DEF Inv, TypeInv
<1>5. Held' /\ Taken' = Taken
  BY <1>1, <1>4, Threads DEF Inv, Held, Taken
<1>6. QED BY <1>1, <1>3, <1>5 DEF Inv, Remembered, TakenOnce

LEMMA TestKeepsInv ==
  ASSUME Inv, NEW t \in Thread, NEW v \in Vote, HasVerifiedPaymentVote(t, v)
  PROVE  Inv'
<1>1. /\ v \in testing[t] /\ testing' = [testing EXCEPT ![t] = {}]
      /\ adding' = [adding EXCEPT ![t] = IF v \in verified THEN {} ELSE {v}]
      /\ UNCHANGED <<signed, seen, verified, payees, lastVote, tip, synced, faults, forgotten>>
  BY DEF HasVerifiedPaymentVote
<1>2. testing \in [Thread -> SUBSET Vote] /\ adding \in [Thread -> SUBSET Vote]
  BY DEF Inv, TypeInv
<1>3. TypeInv'
  BY <1>1, <1>2 DEF Inv, TypeInv
<1>4. CountInv'
  BY <1>1, <1>2, SameCounts
<1>5. Held'
  <2>1. \A s \in Thread : testing'[s] \subseteq testing[s] /\ adding'[s] \subseteq adding[s] \cup testing[s]
    BY <1>1, <1>2
  <2>2. \A s \in Thread : adding'[s] \cap verified \subseteq adding[s]
    BY <1>1, <1>2
  <2>3. QED BY <1>1, <2>1, <2>2, Threads DEF Inv, Held
<1>6. Taken' \subseteq Taken
  BY <1>1, <1>2, Threads DEF Taken
<1>7. Remembered' /\ TakenOnce'
  BY <1>1, <1>6 DEF Inv, Remembered, TakenOnce
<1>8. QED BY <1>3, <1>4, <1>5, <1>7 DEF Inv

LEMMA AddKeepsInv ==
  ASSUME Inv, NEW t \in Thread, NEW v \in Vote, AddPaymentVote(t, v)
  PROVE  Inv'
<1>1. /\ v \in adding[t] /\ adding' = [adding EXCEPT ![t] = {}]
      /\ seen' = seen \cup {v} /\ verified' = verified \cup {v} /\ payees' = AddPayee(v.payee)
      /\ signed' = signed \cup {v} /\ UNCHANGED <<lastVote, testing, tip, synced, faults, forgotten>>
  BY DEF AddPaymentVote
<1>2. adding \in [Thread -> SUBSET Vote] /\ v.payee \in Payee
  BY DEF Inv, TypeInv, Vote
<1>3. TypeInv'
  <2>1. payees' \in Seq(PayeeEntry)
    BY <1>1, <1>2, AddPayeeCounts DEF Inv, TypeInv, CountInv
  <2>2. QED BY <1>1, <1>2, <2>1 DEF Inv, TypeInv
<1>4. CountInv'
  BY AddKeepsCounts
<1>5. CASE t = "message"
  <2>1. adding'["message"] = {} /\ adding'["chain"] = adding["chain"]
    BY <1>1, <1>2, <1>5, Threads
  <2>2. Held'
    BY <1>1, <1>5, <2>1, Threads DEF Inv, Held
  <2>3. Taken' \subseteq Taken
    BY <1>1, <1>5, <2>1 DEF Taken
  <2>4. QED BY <1>1, <1>3, <1>4, <2>2, <2>3 DEF Inv, Remembered, TakenOnce
<1>6. CASE t = "chain"
  <2>1. adding'["chain"] = {} /\ adding'["message"] = adding["message"] /\ v.voter \in Self
    BY <1>1, <1>2, <1>6, Threads DEF Inv, Held
  <2>2. Held'
    BY <1>1, <1>6, <2>1, Threads DEF Inv, Held
  <2>3. Taken' = Taken \cup {v}
    BY <1>1, <2>1 DEF Taken
  <2>4. Remembered' /\ TakenOnce'
    BY <1>1, <2>1, <2>3 DEF Inv, Remembered, TakenOnce
  <2>5. QED BY <1>3, <1>4, <2>2, <2>4 DEF Inv
<1>7. QED BY <1>5, <1>6, Threads

\* A step of the rest of the node, which leaves counts and threads alone.
LEMMA RestKeepsInv ==
  ASSUME Inv, UNCHANGED <<seen, verified, payees, threads>>,
         signed \subseteq signed', signed' \subseteq Vote,
         lastVote' \subseteq Voter, forgotten \subseteq forgotten', forgotten' \subseteq Voter,
         lastVote \subseteq lastVote' \cup forgotten',
         tip' \in Tip, synced' \in BOOLEAN, faults' \in 0 .. MaxFaults
  PROVE  Inv'
<1>1. TypeInv'
  <2>1. synced' \in BOOLEAN
    OBVIOUS
  <2>2. QED BY <2>1 DEF Inv, TypeInv, threads
<1>2. CountInv'
  BY SameCounts DEF threads
<1>3. Held' /\ Taken' = Taken
  BY DEF Inv, Held, Taken, threads
<1>4. Remembered' /\ TakenOnce'
  BY <1>3 DEF Inv, Remembered, TakenOnce
<1>5. QED BY <1>1, <1>2, <1>3, <1>4 DEF Inv

LEMMA RemoveKeepsInv == Inv /\ CheckAndRemove => Inv'
<1> SUFFICES ASSUME Inv, CheckAndRemove PROVE Inv'
  OBVIOUS
<1>1. /\ seen' = {} /\ verified' = {} /\ payees' = <<>>
      /\ UNCHANGED <<signed, lastVote, testing, adding, tip, synced, faults, forgotten>>
  BY DEF CheckAndRemove, threads
<1>2. TypeInv'
  BY <1>1, EmptySeq DEF Inv, TypeInv
<1>3. CountInv'
  BY <1>1, NoCounts
<1>4. Held' /\ Taken' \subseteq Taken
  BY <1>1 DEF Inv, Held, Taken
<1>5. QED BY <1>1, <1>2, <1>3, <1>4 DEF Inv, Remembered, TakenOnce

LEMMA RestartKeepsInv == Inv /\ Restart => Inv'
<1> SUFFICES ASSUME Inv, Restart PROVE Inv'
  OBVIOUS
<1>1. /\ synced' = FALSE /\ lastVote' = {} /\ forgotten' = forgotten \cup lastVote
      /\ testing' = [t \in Thread |-> {}] /\ adding' = [t \in Thread |-> {}]
      /\ UNCHANGED <<signed, tip>>
  BY DEF Restart
<1>2. faults' \in 0 .. MaxFaults
  BY PaymentsAssumption DEF Restart, Inv, TypeInv
<1>3. Held'
  BY <1>1, Threads DEF Held
<1>4. Taken' = verified'
  BY <1>1, Threads DEF Taken
<1>5. synced' \in BOOLEAN
  BY <1>1
<1>6. CASE UNCHANGED <<seen, verified, payees>>
  <2>1. TypeInv'
    BY <1>1, <1>2, <1>5, <1>6 DEF Inv, TypeInv
  <2>2. CountInv'
    BY <1>1, <1>6, SameCounts
  <2>3. Remembered' /\ TakenOnce'
    BY <1>1, <1>4, <1>6 DEF Inv, Remembered, TakenOnce, Taken
  <2>4. QED BY <1>3, <2>1, <2>2, <2>3 DEF Inv
<1>7. CASE seen' = {} /\ verified' = {} /\ payees' = <<>>
  <2>1. TypeInv'
    BY <1>1, <1>2, <1>5, <1>7, EmptySeq DEF Inv, TypeInv
  <2>2. CountInv'
    BY <1>7, NoCounts
  <2>3. Remembered' /\ TakenOnce'
    BY <1>4, <1>7 DEF Remembered, TakenOnce
  <2>4. QED BY <1>3, <2>1, <2>2, <2>3 DEF Inv
<1>8. QED BY <1>6, <1>7 DEF Restart

LEMMA InitHasInv == Init => Inv
<1> SUFFICES ASSUME Init PROVE Inv
  OBVIOUS
<1>1. TypeInv
  <2>1. synced \in BOOLEAN /\ payees \in Seq(PayeeEntry)
    BY EmptySeq DEF Init
  <2>2. tip \in Tip /\ faults \in 0 .. MaxFaults
    BY PaymentsAssumption DEF Init, Tip
  <2>3. QED BY <2>1, <2>2 DEF Init, TypeInv
<1>2. Held /\ Taken = {}
  BY Threads DEF Init, Held, Taken
<1>3. CountInv
  <2>1. \A p \in Payee : Count(p) = 0 /\ VotesFor(p) = {} /\ Settled(p) = {}
    BY DEF Init, Count, Entry, VotesFor, Settled
  <2>2. Cardinality({}) = 0
    BY FS_EmptySet
  <2>3. \A p \in Payee :
          /\ Count(p) >= Cardinality(VotesFor(p))
          /\ Count(p) <= Cardinality(VotesFor(p)) + Cardinality(Settled(p))
    BY <2>1, <2>2
  <2>4. verified \subseteq seen \cap signed /\ DOMAIN payees = {}
    BY DEF Init
  <2>5. QED BY <2>3, <2>4 DEF CountInv
<1>4. Remembered /\ TakenOnce
  BY <1>2 DEF Remembered, TakenOnce
<1>5. QED BY <1>1, <1>2, <1>3, <1>4 DEF Inv

LEMMA StepKeepsInv == Inv /\ [Next]_vars => Inv'
<1> SUFFICES ASSUME Inv, [Next]_vars PROVE Inv'
  OBVIOUS
<1> DEFINE Typed == /\ signed \subseteq Vote /\ lastVote \subseteq Voter
                    /\ forgotten \subseteq Voter /\ tip \in Tip
                    /\ synced \in BOOLEAN /\ faults \in 0 .. MaxFaults
<1>1. Typed
  BY DEF Inv, TypeInv
<1>2. CASE Receive
  BY <1>2, VoteKeepsInv DEF Receive
<1>3. ASSUME NEW v \in Vote, ProcessBlock(v) PROVE Inv'
  BY <1>3, BlockKeepsInv
<1>4. ASSUME NEW v \in Vote, Sign(v) PROVE Inv'
  <2>1. faults' \in 0 .. MaxFaults
    BY <1>1, <1>4, PaymentsAssumption DEF Sign, CountFaultOf
  <2>2. QED BY <1>1, <1>4, <2>1, RestKeepsInv DEF Sign
<1>5. ASSUME NEW v \in Vote, NEW t \in Thread,
             HasVerifiedPaymentVote(t, v) \/ AddPaymentVote(t, v)
      PROVE  Inv'
  BY <1>5, TestKeepsInv, AddKeepsInv
<1>6. ASSUME NEW m \in Voter, ProcessVoteForOtherHeight(m) PROVE Inv'
  BY <1>1, <1>6, RestKeepsInv DEF ProcessVoteForOtherHeight
<1>7. CASE CheckAndRemove
  BY <1>7, RemoveKeepsInv
<1>8. CASE SyncList
  <2>1. synced' \in BOOLEAN
    BY <1>8 DEF SyncList
  <2>2. QED BY <1>1, <1>8, <2>1, RestKeepsInv DEF SyncList
<1>9. CASE UpdatedBlockTip
  <2>1. tip' \in Tip
    BY <1>1, <1>9 DEF UpdatedBlockTip, NextTip, Tip
  <2>2. QED BY <1>1, <1>9, <2>1, RestKeepsInv DEF UpdatedBlockTip
<1>10. CASE Restart
  BY <1>10, RestartKeepsInv
<1>11. CASE UNCHANGED vars
  BY <1>1, <1>11, RestKeepsInv DEF vars, threads
<1>12. QED BY <1>2, <1>3, <1>4, <1>5, <1>6, <1>7, <1>8, <1>9, <1>10, <1>11 DEF Next, Proceed

LEMMA InvIsInductive == Init /\ [][Next]_vars => []Inv
  BY InitHasInv, StepKeepsInv, PTL

-----------------------------------------------------------------------------
(* What follows from it *)

LEMMA InvCountsAreHonest == Inv => CountsAreHonest
<1> SUFFICES ASSUME Inv PROVE CountsAreHonest
  OBVIOUS
<1>1. ASSUME NEW p \in Payee
      PROVE  Count(p) <= Cardinality(VotesFor(p)) + Cardinality(VotesFor(p) \cap OwnVotes)
  <2>1. /\ Cardinality(VotesFor(p) \cap OwnVotes) \in Nat
        /\ Cardinality(Settled(p)) \in Nat
        /\ Cardinality(Settled(p)) <= Cardinality(VotesFor(p) \cap OwnVotes)
    BY OwnVoteOfPayee DEF Inv, TypeInv
  <2>2. Count(p) \in Nat /\ Cardinality(VotesFor(p)) \in Nat
    BY CountIsNat, VotersOfPayee DEF Inv, TypeInv
  <2>3. Count(p) <= Cardinality(VotesFor(p)) + Cardinality(Settled(p))
    BY DEF Inv, CountInv
  <2>4. QED BY <2>1, <2>2, <2>3
<1>2. QED BY <1>1 DEF Inv, CountInv, CountsAreHonest

\* The counts by which a block is judged are those of the votes that were checked, each
\* counted once, through copies with bad signatures, repetitions and restarts; only this
\* node's own vote may count once more, when two threads add it together.
THEOREM CountsStayHonest == Spec => []CountsAreHonest
  BY InvIsInductive, InvCountsAreHonest, PTL DEF Spec

LEMMA InvHasTypes == Inv => TypeOK
<1> SUFFICES ASSUME Inv PROVE TypeOK
  OBVIOUS
<1> DEFINE N == Cardinality(Voter) + 1
           E == [payee : Payee, count : 1 .. N]
<1>1. payees \in Seq(PayeeEntry) /\ DOMAIN payees = 1 .. Len(payees) /\ Len(payees) \in Nat
  BY LenProperties DEF Inv, TypeInv
<1>2. \A i \in DOMAIN payees : payees[i] \in E
  <2> SUFFICES ASSUME NEW i \in DOMAIN payees PROVE payees[i] \in E
    OBVIOUS
  <2> DEFINE p == payees[i].payee
  <2>1. payees[i] \in PayeeEntry
    BY <1>1, ElementOfSeq
  <2>2. p \in Payee /\ Entry(p) # {}
    BY <2>1 DEF PayeeEntry, Entry
  <2>3. Count(p) = payees[i].count
    <3>1. payees[CHOOSE k \in {j \in DOMAIN payees : payees[j].payee = payees[i].payee} : TRUE]
          = payees[i]
      BY CountReadsEntry DEF Inv, CountInv
    <3>2. QED BY <2>2, <3>1 DEF Count, Entry
  <2>4. Cardinality(VotesFor(p)) \in Nat /\ Cardinality(VotesFor(p)) <= Cardinality(Voter)
    BY <2>2, VotersOfPayee DEF Inv, TypeInv
  <2>5. Cardinality(Voter) \in Nat
    BY PaymentsAssumption, FS_CardinalityType
  <2>6. Cardinality(VotesFor(p) \cap OwnVotes) \in 0 .. 1
    BY OwnVoteOfPayee DEF Inv, TypeInv
  <2>7. Count(p) <= Cardinality(VotesFor(p)) + Cardinality(VotesFor(p) \cap OwnVotes)
    BY <2>2, InvCountsAreHonest DEF CountsAreHonest
  <2>8. payees[i].count \in 1 .. N
    <3>1. payees[i].count \in Nat \ {0}
      BY <2>1 DEF PayeeEntry
    <3>2. payees[i].count <= N
      <4> HIDE DEF p
      <4>1. QED BY <2>3, <2>4, <2>5, <2>6, <2>7, <3>1
    <3>3. QED BY <2>5, <3>1, <3>2
  <2>9. QED BY <2>1, <2>8 DEF PayeeEntry
<1>3. payees \in [1 .. Len(payees) -> E]
  BY <1>1, <1>2
<1>4. payees \in Seq(E)
  <2> HIDE DEF E
  <2>1. QED BY <1>1, <1>3, SeqDef
<1>5. synced \in BOOLEAN
  BY DEF Inv, TypeInv
<1>6. QED BY <1>4, <1>5 DEF Inv, TypeInv, TypeOK

\* The state has its type; in particular no payee is listed without a vote, or with more
\* votes than there are voters and one for this node's own vote.
THEOREM TypeCorrect == Spec => []TypeOK
  BY InvIsInductive, InvHasTypes, PTL DEF Spec

VotersFor(p) == {v.voter : v \in VotesFor(p)}

\* A winner has the required number of different voters, this node's vote counted twice
\* when two threads added it.
LEMMA WinnersHaveVoters ==
  ASSUME Inv, NEW p \in Winners
  PROVE  /\ VotersFor(p) \subseteq Counted /\ IsFiniteSet(VotersFor(p))
         /\ Cardinality(VotersFor(p)) \in Nat
         /\ SIGNATURES_REQUIRED
            <= Cardinality(VotersFor(p)) + Cardinality(VotesFor(p) \cap Doubled)
<1> DEFINE f == [v \in VotesFor(p) |-> v.voter]
<1>1. verified \subseteq Vote /\ p \in Payee
  BY DEF Inv, TypeInv, Winners
<1>2. VotersFor(p) \subseteq Counted /\ VotersFor(p) \subseteq Voter
  BY <1>1 DEF VotersFor, VotesFor, Vote, Counted
<1>3. IsFiniteSet(VotersFor(p)) /\ Cardinality(VotersFor(p)) \in Nat
  BY <1>2, FS_Subset, FS_CardinalityType, PaymentsAssumption
<1>4. f \in Injection(VotesFor(p), VotersFor(p))
  <2>1. f \in [VotesFor(p) -> VotersFor(p)]
    BY DEF VotersFor
  <2>2. \A a, b \in VotesFor(p) : f[a] = f[b] => a = b
    BY <1>1 DEF VotesFor, Vote
  <2> HIDE DEF f
  <2>3. QED BY <2>1, <2>2, Fun_IsInj
<1>5. Cardinality(VotesFor(p)) <= Cardinality(VotersFor(p))
  <2> HIDE DEF f
  <2>1. QED BY <1>3, <1>4, FS_Injection
<1>6. /\ Count(p) >= SIGNATURES_REQUIRED /\ Count(p) \in Nat
      /\ Count(p) <= Cardinality(VotesFor(p)) + Cardinality(VotesFor(p) \cap OwnVotes)
  BY <1>1, CountIsNat, InvCountsAreHonest DEF Winners, CountsAreHonest, Inv, TypeInv
<1>7. Cardinality(VotesFor(p)) \in Nat /\ Cardinality(VotesFor(p) \cap OwnVotes) \in 0 .. 1
  BY <1>1, VotersOfPayee, OwnVoteOfPayee
<1>8. VotesFor(p) \cap Doubled \subseteq VotesFor(p) \cap OwnVotes
  BY DEF Doubled
<1>9. /\ Cardinality(VotesFor(p) \cap Doubled) \in Nat
      /\ Count(p) <= Cardinality(VotesFor(p)) + Cardinality(VotesFor(p) \cap Doubled)
  <2>1. Cardinality(VotesFor(p) \cap Doubled) \in Nat
    BY <1>1, <1>8, OwnVoteOfPayee, FS_Subset, FS_CardinalityType
  <2>2. CASE Count(p) <= Cardinality(VotesFor(p))
    BY <1>6, <1>7, <2>1, <2>2
  <2>3. CASE Count(p) > Cardinality(VotesFor(p))
    <3>1. VotesFor(p) \cap Doubled = VotesFor(p) \cap OwnVotes
      BY <2>3, <1>8 DEF Doubled, VotesFor
    <3>2. QED BY <1>6, <2>1, <3>1
  <2>4. QED BY <1>6, <1>7, <2>2, <2>3
<1>10. QED BY <1>2, <1>3, <1>5, <1>6, <1>7, <1>9, PaymentsAssumption

\* Two payees both have the required votes only if the masternodes counted, those counted
\* for both, and this node's own votes that two threads added make twice the required
\* number: for any masternodes and any quorum, whatever the views of ranks, and through
\* any restarts.
THEOREM TwoWinnersNeedForgottenVotes == Spec => []NoSplit
<1>1. Inv => NoSplit
  <2> DEFINE D == {m \in Self \cup forgotten : SignedTwice(m)}
  <2> SUFFICES ASSUME Inv, Cardinality(Winners) > 1
               PROVE  2 * SIGNATURES_REQUIRED
                      <= Cardinality(Counted) + Cardinality(D) + Cardinality(Doubled)
    BY DEF NoSplit
  <2>1. PICK p \in Winners, q \in Winners : p # q
    <3>1. IsFiniteSet(Winners)
      BY FS_Subset, PaymentsAssumption DEF Winners
    <3>2. Winners # {}
      BY <3>1, FS_EmptySet
    <3>3. PICK p \in Winners : TRUE
      BY <3>2
    <3>4. Winners # {p}
      <4>1. Cardinality({p}) = 1
        BY FS_Singleton
      <4>2. QED BY <4>1
    <3>5. QED BY <3>3, <3>4
  <2> DEFINE A == VotersFor(p)
             B == VotersFor(q)
             P == VotesFor(p) \cap Doubled
             Q == VotesFor(q) \cap Doubled
  <2>2. /\ A \subseteq Counted /\ IsFiniteSet(A) /\ Cardinality(A) \in Nat
        /\ SIGNATURES_REQUIRED <= Cardinality(A) + Cardinality(P)
        /\ B \subseteq Counted /\ IsFiniteSet(B) /\ Cardinality(B) \in Nat
        /\ SIGNATURES_REQUIRED <= Cardinality(B) + Cardinality(Q)
    BY WinnersHaveVoters
  <2>3. A \cap B \subseteq D
    <3> SUFFICES ASSUME NEW m \in A, m \in B PROVE m \in D
      OBVIOUS
    <3>1. PICK v \in VotesFor(p) : v.voter = m
      BY DEF VotersFor
    <3>2. PICK w \in VotesFor(q) : w.voter = m
      BY DEF VotersFor
    <3>3. v \in verified /\ w \in verified /\ v # w
      BY <2>1, <3>1, <3>2 DEF VotesFor
    <3>4. v \in signed /\ w \in signed
      BY <3>3 DEF Inv, CountInv
    <3>5. m \in Self \cup forgotten
      BY <3>1, <3>2, <3>3 DEF Inv, TakenOnce, Taken
    <3>6. SignedTwice(m)
      BY <3>1, <3>2, <3>3, <3>4 DEF SignedTwice
    <3>7. QED BY <3>5, <3>6
  <2>4. IsFiniteSet(D) /\ Cardinality(D) \in Nat
    <3>1. D \subseteq Voter
      BY PaymentsAssumption DEF Inv, TypeInv
    <3> HIDE DEF D
    <3>2. QED BY <3>1, PaymentsAssumption, FS_Subset, FS_CardinalityType
  <2>5. Cardinality(A \cap B) <= Cardinality(D) /\ Cardinality(A \cap B) \in Nat
    <3> HIDE DEF A, B, D
    <3>1. QED BY <2>3, <2>4, FS_Subset, FS_CardinalityType
  <2>6. IsFiniteSet(Counted) /\ Cardinality(Counted) \in Nat
    <3>1. Counted \subseteq Voter
      BY DEF Counted, Vote, Inv, TypeInv
    <3>2. QED BY <3>1, PaymentsAssumption, FS_Subset, FS_CardinalityType
  <2>7. /\ Cardinality(A \cup B) = Cardinality(A) + Cardinality(B) - Cardinality(A \cap B)
        /\ Cardinality(A \cup B) <= Cardinality(Counted)
        /\ Cardinality(A \cup B) \in Nat
    <3> HIDE DEF A, B
    <3>1. A \cup B \subseteq Counted
      BY <2>2
    <3>2. QED BY <2>2, <2>6, <3>1, FS_Union, FS_Subset, FS_CardinalityType
  <2>8. /\ Cardinality(P) \in Nat /\ Cardinality(Q) \in Nat
        /\ Cardinality(Doubled) \in Nat
        /\ Cardinality(P) + Cardinality(Q) <= Cardinality(Doubled)
    <3>2. P \cap Q = {} /\ P \cup Q \subseteq Doubled
      BY <2>1 DEF VotesFor
    <3>3. IsFiniteSet(Doubled)
      <4>1. IsFiniteSet(Vote)
        <5>1. IsFiniteSet(Voter \X Payee)
          BY PaymentsAssumption, FS_Product
        <5> DEFINE g == [x \in Voter \X Payee |-> [voter |-> x[1], payee |-> x[2]]]
        <5>2. g \in Surjection(Voter \X Payee, Vote)
          <6>1. g \in [Voter \X Payee -> Vote]
            BY DEF Vote
          <6>2. \A v \in Vote : \E x \in Voter \X Payee : g[x] = v
            <7> SUFFICES ASSUME NEW v \in Vote PROVE \E x \in Voter \X Payee : g[x] = v
              OBVIOUS
            <7>1. <<v.voter, v.payee>> \in Voter \X Payee
              BY DEF Vote
            <7>2. g[<<v.voter, v.payee>>] = v
              BY <7>1 DEF Vote
            <7>3. QED BY <7>1, <7>2
          <6> HIDE DEF g
          <6>3. QED BY <6>1, <6>2, Fun_IsSurj
        <5> HIDE DEF g
        <5>3. QED BY <5>1, <5>2, FS_Surjection
      <4>2. Doubled \subseteq Vote
        BY DEF Doubled, OwnVotes, Inv, TypeInv
      <4>3. QED BY <4>1, <4>2, FS_Subset
    <3>1. IsFiniteSet(P) /\ IsFiniteSet(Q)
      BY <3>3, <3>2, FS_Subset
    <3> HIDE DEF P, Q
    <3>4. Cardinality(P \cup Q) = Cardinality(P) + Cardinality(Q) - Cardinality({})
      BY <3>1, <3>2, FS_Union
    <3>5. Cardinality({}) = 0
      BY FS_EmptySet
    <3>6. Cardinality(P \cup Q) <= Cardinality(Doubled)
      BY <3>2, <3>3, FS_Subset
    <3>7. Cardinality(P) \in Nat /\ Cardinality(Q) \in Nat /\ Cardinality(Doubled) \in Nat
      BY <3>1, <3>3, FS_CardinalityType
    <3>8. QED BY <3>4, <3>5, <3>6, <3>7
  <2>9. QED
    <3> HIDE DEF A, B, D, P, Q
    <3>1. QED BY <2>2, <2>4, <2>5, <2>6, <2>7, <2>8, PaymentsAssumption
<1>2. QED BY <1>1, InvIsInductive, PTL DEF Spec

-----------------------------------------------------------------------------
(* The payee to mine *)

\* A set of numbers that is not empty has a least one.
LEMMA LeastNumber ==
  ASSUME NEW S \in SUBSET Nat, S # {}
  PROVE  \E n \in S : \A k \in S : n <= k
<1> DEFINE R == OpToRel(<, Nat)
<1>1. \A x, y \in Nat : y < x => <<y, x>> \in R
  BY DEF OpToRel
<1>2. \E n \in S : \A k \in S : ~(<<k, n>> \in R)
  <2>1. IsWellFoundedOn(R, Nat)
    BY NatLessThanWellFounded
  <2> HIDE DEF R
  <2>2. QED BY <2>1, WFMin
<1>3. QED
  <2>1. PICK n \in S : \A k \in S : ~(<<k, n>> \in R)
    BY <1>2
  <2>2. ASSUME NEW k \in S PROVE n <= k
    <3> HIDE DEF R
    <3>1. n \in Nat /\ k \in Nat /\ ~(k < n)
      BY <1>1, <2>1
    <3>2. QED BY <3>1
  <2>3. QED BY <2>2

LEMMA BestPayeeExists ==
  ASSUME Inv, payees # <<>>
  PROVE  BestPayee # {}
<1> DEFINE I == DOMAIN payees
           N == Cardinality(Voter) + 1
<1>1. payees \in Seq([payee : Payee, count : 1 .. N]) /\ N \in Nat
  BY InvHasTypes, FS_CardinalityType, PaymentsAssumption DEF TypeOK
<1>2. I = 1 .. Len(payees) /\ Len(payees) \in Nat \ {0}
  BY <1>1, EmptySeq, LenProperties
<1>3. \A i \in I : payees[i].count \in 1 .. N
  <2>1. \A i \in I : payees[i] \in [payee : Payee, count : 1 .. N]
    BY <1>1, <1>2, ElementOfSeq
  <2>2. QED BY <2>1
<1> HIDE DEF I, N
<1> DEFINE S == {N - payees[i].count : i \in I}
<1>4. PICK a \in I : \A j \in I : payees[j].count <= payees[a].count
  <2>1. S \in SUBSET Nat
    BY <1>1, <1>3
  <2>2. S # {}
    <3>1. 1 \in I
      BY <1>2
    <3>2. QED BY <3>1
  <2>3. PICK n \in S : \A k \in S : n <= k
    <3> HIDE DEF S
    <3>1. QED BY <2>1, <2>2, LeastNumber
  <2>4. PICK a \in I : n = N - payees[a].count
    OBVIOUS
  <2>5. \A j \in I : N - payees[a].count <= N - payees[j].count
    BY <2>3, <2>4
  <2>6. ASSUME NEW j \in I PROVE payees[j].count <= payees[a].count
    <3>1. /\ payees[j].count \in Nat /\ payees[a].count \in Nat
          /\ N - payees[a].count <= N - payees[j].count
      BY <1>3, <2>5
    <3>2. \A u, v \in Nat : N - u <= N - v => v <= u
      BY <1>1
    <3>3. QED BY <3>1, <3>2
  <2>7. QED BY <2>6
<1> DEFINE T == {i \in I : payees[i].count = payees[a].count}
<1>5. PICK b \in T : \A j \in T : b <= j
  <2>1. T \in SUBSET Nat /\ T # {}
    BY <1>2
  <2> HIDE DEF T
  <2>2. QED BY <2>1, LeastNumber
<1>6. b \in I /\ \A j \in I : payees[j].count <= payees[b].count
  BY <1>4
<1>7. \A j \in 1 .. b - 1 : payees[j].count < payees[b].count
  <2> SUFFICES ASSUME NEW j \in 1 .. b - 1 PROVE payees[j].count < payees[b].count
    OBVIOUS
  <2>1. j \in I /\ j < b
    BY <1>2, <1>6
  <2>2. j \notin T
    BY <1>2, <1>5, <1>6, <2>1
  <2>3. QED BY <1>3, <1>6, <2>1, <2>2
<1>8. payees[b].payee \in BestPayee
  BY <1>6, <1>7 DEF BestPayee, I
<1>9. QED BY <1>8

\* A payee with the required votes is not passed over: the best payee has them too.
LEMMA BestPayeeWins ==
  ASSUME Inv, NEW p \in PayeesToMine, Winners # {}
  PROVE  p \in Winners
<1>1. PICK w \in Winners : TRUE
  OBVIOUS
<1>2. Entry(w) # {} /\ w \in Payee
  BY PaymentsAssumption DEF Winners, Count
<1>3. BestPayee # {}
  <2>1. payees # <<>>
    BY <1>2 DEF Entry
  <2>2. QED BY <2>1, BestPayeeExists
<1>4. PICK i \in DOMAIN payees :
        payees[i].payee = p /\ \A j \in DOMAIN payees : payees[j].count <= payees[i].count
  BY <1>3 DEF PayeesToMine, BestPayee
<1>5. \A j \in DOMAIN payees : /\ payees[j].payee \in Payee /\ payees[j].count \in Nat
                               /\ Count(payees[j].payee) = payees[j].count
  <2> SUFFICES ASSUME NEW j \in DOMAIN payees
               PROVE  /\ payees[j].payee \in Payee /\ payees[j].count \in Nat
                      /\ Count(payees[j].payee) = payees[j].count
    OBVIOUS
  <2>1. payees[j] \in PayeeEntry
    BY LenProperties, ElementOfSeq DEF Inv, TypeInv
  <2>2. payees[CHOOSE k \in {l \in DOMAIN payees : payees[l].payee = payees[j].payee} : TRUE]
        = payees[j]
    BY CountReadsEntry DEF Inv, CountInv
  <2>3. QED BY <2>1, <2>2 DEF Count, Entry, PayeeEntry
<1>6. PICK j \in DOMAIN payees : payees[j].payee = w
  BY <1>2 DEF Entry
<1>7. payees[j].count >= SIGNATURES_REQUIRED
  BY <1>5, <1>6 DEF Winners
<1>8. Count(p) >= SIGNATURES_REQUIRED
  BY <1>4, <1>5, <1>6, <1>7, PaymentsAssumption
<1>9. QED BY <1>4, <1>5, <1>8 DEF Winners

\* A count never falls, until everything is forgotten or the block is past.
LEMMA WinnersRemain ==
  ASSUME Inv, [Next]_vars, NEW p \in Winners
  PROVE  p \in Winners' \/ tip = "expired" \/ synced' = FALSE
<1>1. p \in Payee /\ Count(p) >= SIGNATURES_REQUIRED /\ Count(p) \in Nat
  BY CountIsNat DEF Winners, Inv, TypeInv
<1>2. CASE UNCHANGED payees
  BY <1>1, <1>2 DEF Winners, Count, Entry
<1>3. ASSUME NEW v \in Vote, NEW t \in Thread, AddPaymentVote(t, v) PROVE p \in Winners'
  <2>1. payees' = AddPayee(v.payee) /\ v.payee \in Payee
    BY <1>3 DEF AddPaymentVote, Vote
  <2>2. Count(p)' = Count(p) \/ Count(p)' = Count(p) + 1
    BY <1>1, <2>1, AddPayeeCounts DEF Inv, TypeInv, CountInv
  <2>3. Count(p)' >= SIGNATURES_REQUIRED
    BY <1>1, <2>2, PaymentsAssumption
  <2>4. QED BY <1>1, <2>3 DEF Winners
<1>4. CASE CheckAndRemove
  BY <1>4 DEF CheckAndRemove
<1>5. CASE Restart
  BY <1>5 DEF Restart
<1>6. CASE Receive
  BY <1>2, <1>6 DEF Receive, ProcessVote
<1>7. ASSUME NEW v \in Vote, Sign(v) \/ ProcessBlock(v) PROVE UNCHANGED payees
  BY <1>7 DEF Sign, ProcessBlock
<1>8. ASSUME NEW v \in Vote, NEW t \in Thread, HasVerifiedPaymentVote(t, v)
      PROVE  UNCHANGED payees
  BY <1>8 DEF HasVerifiedPaymentVote
<1>9. ASSUME NEW m \in Voter, ProcessVoteForOtherHeight(m) PROVE UNCHANGED payees
  BY <1>9 DEF ProcessVoteForOtherHeight
<1>10. CASE SyncList \/ UpdatedBlockTip \/ UNCHANGED vars
  BY <1>2, <1>10 DEF SyncList, UpdatedBlockTip, vars
<1>11. QED
  BY <1>2, <1>3, <1>4, <1>5, <1>6, <1>7, <1>8, <1>9, <1>10 DEF Next, Proceed

\* The block that is being mined is one for the future, and its payee still has the votes.
TemplateInv ==
  \A b \in template : /\ b.shareOf = "reward" /\ (b.elected => b.payee \in Winners)
                       /\ tip \in {"far", "ahead"} /\ synced = TRUE

\* Away from the fork height, a block that was built when the election was decided is
\* accepted by this node until it is found, for any votes that come meanwhile.
THEOREM TheNodeMinesValidBlocks ==
  ASSUME ~ForkBlock
  PROVE  MinerSpec => []MinedBlockIsValid
<1>1. MinerInit => Inv /\ TemplateInv
  BY InitHasInv DEF MinerInit, TemplateInv
<1>2. Inv /\ TemplateInv /\ [MinerNext]_<<vars, template>> => Inv' /\ TemplateInv'
  <2> SUFFICES ASSUME Inv, TemplateInv, [MinerNext]_<<vars, template>>
               PROVE  Inv' /\ TemplateInv'
    OBVIOUS
  <2>1. [Next]_vars
    BY DEF MinerNext, CreateNewBlock, vars
  <2>2. Inv'
    BY <2>1, StepKeepsInv
  <2>3. ASSUME Next /\ AbandonBlock PROVE TemplateInv'
    <3> SUFFICES ASSUME NEW b \in template'
                 PROVE  /\ b.shareOf = "reward" /\ (b.elected => b.payee \in Winners')
                        /\ tip' \in {"far", "ahead"} /\ synced' = TRUE
      BY DEF TemplateInv
    <3>1. b \in template /\ tip' # "behind" /\ synced' # FALSE
      BY <2>3 DEF AbandonBlock
    <3>2. synced' = TRUE
      BY <2>2, <3>1 DEF Inv, TypeInv
    <3>3. /\ b.shareOf = "reward" /\ (b.elected => b.payee \in Winners)
          /\ tip \in {"far", "ahead"}
      BY <3>1 DEF TemplateInv
    <3>4. b.elected => b.payee \in Winners'
      BY <2>1, <3>2, <3>3, WinnersRemain
    <3>5. tip' \in {tip, NextTip[tip]}
      BY <2>3 DEF Next, Proceed, Receive, ProcessVote, ProcessBlock, Sign,
                  HasVerifiedPaymentVote, AddPaymentVote, ProcessVoteForOtherHeight,
                  CheckAndRemove, SyncList, UpdatedBlockTip, Restart
    <3>6. tip' \in {"far", "ahead"}
      BY <3>1, <3>3, <3>5 DEF NextTip
    <3>7. QED BY <3>2, <3>3, <3>4, <3>6
  <2>4. ASSUME NEW p \in Payee, CreateNewBlock(p) PROVE TemplateInv'
    <3>1. /\ template' = {[payee |-> p, shareOf |-> "reward", elected |-> Winners # {}]}
          /\ tip' \in {"far", "ahead"} /\ synced' = TRUE /\ p \in PayeesToMine
      BY <2>4 DEF CreateNewBlock, vars, Inv, TypeInv
    <3>2. Winners' = Winners
      BY <2>4 DEF CreateNewBlock, vars, Winners, Count, Entry
    <3>3. Winners # {} => p \in Winners
      BY <3>1, BestPayeeWins
    <3>4. ASSUME NEW b \in template'
          PROVE  b.shareOf = "reward" /\ (b.elected => b.payee \in Winners')
      <4>1. b = [payee |-> p, shareOf |-> "reward", elected |-> Winners # {}]
        BY <3>1
      <4>2. b.payee = p /\ b.shareOf = "reward" /\ b.elected = (Winners # {})
        BY <4>1
      <4>3. QED BY <3>2, <3>3, <4>2
    <3>5. QED BY <3>1, <3>4 DEF TemplateInv
  <2>5. ASSUME UNCHANGED <<vars, template>> PROVE TemplateInv'
    BY <2>5 DEF TemplateInv, vars, Winners, Count, Entry
  <2>6. QED BY <2>2, <2>3, <2>4, <2>5 DEF MinerNext
<1>3. TemplateInv => MinedBlockIsValid
  BY DEF TemplateInv, MinedBlockIsValid, IsTransactionValid, ValueOut
<1>4. QED BY <1>1, <1>2, <1>3, PTL DEF MinerSpec
=============================================================================
