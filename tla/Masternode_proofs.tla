------------------------- MODULE Masternode_proofs -------------------------
EXTENDS Masternode, FiniteSetTheorems, WellFoundedInduction, NaturalsInduction, TLAPS

-----------------------------------------------------------------------------
(* Induction over numbers, with a set in place of a predicate *)

LEMMA LeastNumber ==
  ASSUME NEW S \in SUBSET Nat, S # {}
  PROVE  \E n \in S : \A k \in S : ~(k < n)
<1> DEFINE R == OpToRel(<, Nat)
<1>1. \A x, y \in Nat : y < x => <<y, x>> \in R
  BY DEF OpToRel
<1>2. IsWellFoundedOn(R, Nat)
  BY NatLessThanWellFounded
<1> HIDE DEF R
<1>3. PICK n \in S : \A k \in S : ~(<<k, n>> \in R)
  BY <1>2, WFMin
<1>4. QED BY <1>1, <1>3

LEMMA NumberInduction ==
  ASSUME NEW S \in SUBSET Nat, 0 \in S, \A n \in S : n + 1 \in S
  PROVE  \A n \in Nat : n \in S
<1> SUFFICES ASSUME Nat \ S # {} PROVE FALSE
  OBVIOUS
<1>1. PICK n \in Nat \ S : \A k \in Nat \ S : ~(k < n)
  <2> DEFINE T == Nat \ S
  <2>1. T \in SUBSET Nat /\ T # {}
    OBVIOUS
  <2> HIDE DEF T
  <2>2. \E n \in T : \A k \in T : ~(k < n)
    BY <2>1, LeastNumber
  <2>3. QED BY <2>2 DEF T
<1>2. n - 1 \in Nat /\ n - 1 < n
  BY <1>1
<1>3. n - 1 \in S
  BY <1>1, <1>2
<1>4. (n - 1) + 1 \in S
  BY <1>3
<1>5. (n - 1) + 1 = n
  BY <1>2
<1>6. QED BY <1>1, <1>4, <1>5

-----------------------------------------------------------------------------
(* The replies are processed one after the other *)

LEMMA ReprocessAllStays ==
  ASSUME NEW bs, IsFiniteSet(bs), NEW late, NEW D, NEW l \in D,
         \A k \in D, b \in bs : Reprocess(k, b, late) \in D
  PROVE  ReprocessAll(l, bs, late) \in D
<1> DEFINE First(s) == CHOOSE b \in s : TRUE
           Fold(f, s) == IF s = {} THEN l ELSE Reprocess(f[s \ {First(s)}], First(s), late)
           UpTo(n) == {s \in SUBSET bs : Cardinality(s) <= n}
           F == CHOOSE f : f = [s \in SUBSET bs |-> Fold(f, s)]
<1>1. ReprocessAll(l, bs, late) = F[bs]
  BY DEF ReprocessAll, FoldSet, MapThenFoldSet
<1>2. \A s \in SUBSET bs : IsFiniteSet(s) /\ Cardinality(s) \in Nat
  BY FS_Subset, FS_CardinalityType
<1>3. \A s \in SUBSET bs : s # {} =>
        First(s) \in s /\ s \ {First(s)} \in SUBSET bs
        /\ Cardinality(s \ {First(s)}) = Cardinality(s) - 1
  BY <1>2, FS_RemoveElement
<1>4. \A s \in SUBSET bs : Cardinality(s) = 0 <=> s = {}
  BY <1>2, FS_EmptySet
<1> HIDE DEF First
<1>5. \A n \in Nat : \E f \in [UpTo(n) -> D] : \A s \in UpTo(n) : f[s] = Fold(f, s)
  <2> DEFINE Good == {n \in Nat : \E f \in [UpTo(n) -> D] : \A s \in UpTo(n) : f[s] = Fold(f, s)}
  <2>1. 0 \in Good
    <3> DEFINE f == [s \in UpTo(0) |-> l]
    <3>1. \A s \in UpTo(0) : s = {}
      BY <1>2, <1>4
    <3>2. f \in [UpTo(0) -> D] /\ \A s \in UpTo(0) : f[s] = Fold(f, s)
      BY <3>1
    <3> HIDE DEF f
    <3>3. QED BY <3>2
  <2>2. ASSUME NEW n \in Good PROVE n + 1 \in Good
    <3>1. PICK f \in [UpTo(n) -> D] : \A s \in UpTo(n) : f[s] = Fold(f, s)
      OBVIOUS
    <3> DEFINE g == [s \in UpTo(n + 1) |-> Fold(f, s)]
    <3>2. \A s \in UpTo(n + 1) : s # {} => s \ {First(s)} \in UpTo(n)
      BY <1>2, <1>3
    <3>3. UpTo(n) \subseteq UpTo(n + 1)
      BY <1>2
    <3>4. \A s \in UpTo(n + 1) : Fold(f, s) \in D
      BY <1>3, <3>1, <3>2
    <3>5. \A s \in UpTo(n) : g[s] = f[s]
      BY <3>1, <3>3
    <3>6. g \in [UpTo(n + 1) -> D]
      BY <3>4
    <3>7. ASSUME NEW s \in UpTo(n + 1) PROVE g[s] = Fold(g, s)
      <4>1. g[s] = Fold(f, s)
        OBVIOUS
      <4> HIDE DEF g
      <4>2. CASE s = {}
        BY <4>1, <4>2
      <4>3. CASE s # {}
        BY <3>2, <3>5, <4>1, <4>3
      <4>4. QED BY <4>2, <4>3
    <3> HIDE DEF g
    <3>8. \E h \in [UpTo(n + 1) -> D] : \A s \in UpTo(n + 1) : h[s] = Fold(h, s)
      BY <3>6, <3>7
    <3>9. n + 1 \in Nat
      OBVIOUS
    <3> HIDE DEF Fold, UpTo
    <3>10. QED BY <3>8, <3>9
  <2>3. Good \in SUBSET Nat
    OBVIOUS
  <2> HIDE DEF Good
  <2>4. \A n \in Nat : n \in Good
    BY <2>1, <2>2, <2>3, NumberInduction
  <2>5. QED BY <2>4 DEF Good
<1>6. F = [s \in SUBSET bs |-> Fold(F, s)]
  <2>1. Cardinality(bs) \in Nat /\ UpTo(Cardinality(bs)) = SUBSET bs
    BY <1>2, FS_Subset, FS_CardinalityType
  <2>2. PICK f \in [SUBSET bs -> D] : \A s \in SUBSET bs : f[s] = Fold(f, s)
    BY <1>5, <2>1
  <2>3. f = [s \in SUBSET bs |-> Fold(f, s)]
    BY <2>2
  <2> HIDE DEF Fold
  <2>4. QED BY <2>3
<1>7. \A n \in Nat : \A s \in UpTo(n) : F[s] \in D
  <2> HIDE DEF F
  <2> DEFINE Good == {n \in Nat : \A s \in UpTo(n) : F[s] \in D}
  <2>1. 0 \in Good
    <3>1. \A s \in UpTo(0) : s = {}
      BY <1>2, <1>4
    <3>2. F[{}] = l
      BY <1>6
    <3>3. QED BY <3>1, <3>2
  <2>2. ASSUME NEW n \in Good PROVE n + 1 \in Good
    <3>1. ASSUME NEW s \in UpTo(n + 1) PROVE F[s] \in D
      <4>1. CASE s = {}
        BY <1>6, <4>1
      <4>2. CASE s # {}
        <5>1. s \ {First(s)} \in UpTo(n) /\ First(s) \in bs
          BY <1>2, <1>3, <4>2
        <5>2. F[s] = Reprocess(F[s \ {First(s)}], First(s), late)
          BY <1>6, <4>2
        <5>3. QED BY <5>1, <5>2
      <4>3. QED BY <4>1, <4>2
    <3>2. QED BY <3>1
  <2>3. Good \in SUBSET Nat
    OBVIOUS
  <2> HIDE DEF Good
  <2>4. \A n \in Nat : n \in Good
    BY <2>1, <2>2, <2>3, NumberInduction
  <2>5. QED BY <2>4 DEF Good
<1> HIDE DEF F
<1>8. Cardinality(bs) \in Nat /\ bs \in UpTo(Cardinality(bs))
  BY <1>2, FS_Subset, FS_CardinalityType
<1>9. QED BY <1>1, <1>7, <1>8

-----------------------------------------------------------------------------
(* Types *)

SeenType == [Broadcast -> {Unseen} \cup 0 .. NEW_START]

\* What CheckMnbAndUpdateMasternodeList changes.
KnownType == [mn : EntryType \cup {NoEntry}, seen : SeenType, lost : SUBSET Broadcast]

LEMMA ConstantTypes ==
  /\ MaxBroadcasts \in Nat \ {0} /\ MaxFaults \in Nat
  /\ MIN_MNB \in Nat \ {0} /\ MIN_MNP \in Nat \ {0} /\ STALE \in Nat
  /\ EXPIRATION \in Nat /\ NEW_START \in Nat \ {0} /\ RETRY \in Nat \ {0}
  /\ MAX_SCORE \in Nat \ {0} /\ BAN \in Nat \ {0} /\ QUORUM_REQUIRED \in Nat \ {0}
BY MasternodeAssumption

LEMMA EntryIsListed == \A e \in EntryType : e # NoEntry /\ e.sig \in Broadcast
<1>1. \A e \in EntryType : e.sig \in Broadcast
  BY DEF EntryType
<1>2. 0 \notin Broadcast
  BY ConstantTypes DEF Broadcast
<1>3. NoEntry.sig = 0
  BY DEF NoEntry
<1>4. QED BY <1>1, <1>2, <1>3

LEMMA StateByPingType ==
  ASSUME NEW e \in EntryType, NEW late
  PROVE  StateByPing(e, late) \in State
BY DEF StateByPing, EntryType, State, Active

LEMMA ScoreTypes ==
  ASSUME NEW score \in -MAX_SCORE .. MAX_SCORE
  PROVE  /\ DecreasePoSeBanScore(score) \in -MAX_SCORE .. MAX_SCORE
         /\ IncreasePoSeBanScore(score) \in -MAX_SCORE .. MAX_SCORE
BY ConstantTypes DEF DecreasePoSeBanScore, IncreasePoSeBanScore

\* An entry with another state, score and ban is an entry.
LEMMA EntryUpdates ==
  ASSUME NEW e \in EntryType
  PROVE  /\ \A st \in State : [e EXCEPT !.state = st] \in EntryType
         /\ \A sc \in -MAX_SCORE .. MAX_SCORE : [e EXCEPT !.score = sc] \in EntryType
         /\ \A left \in 0 .. BAN : [e EXCEPT !.banLeft = left] \in EntryType
         /\ \A ping \in PingType : [e EXCEPT !.ping = ping] \in EntryType
         /\ \A c \in BOOLEAN : [e EXCEPT !.checked = c] \in EntryType
BY DEF EntryType

LEMMA CheckAgainKeeps ==
  ASSUME NEW e \in EntryType, NEW late
  PROVE  /\ CheckAgain(e, late) \in EntryType
         /\ CheckAgain(e, late).sig = e.sig
         /\ CheckAgain(e, late).ping = e.ping
<1>1. CASE e.state = "OUTPOINT_SPENT"
  BY <1>1 DEF CheckAgain
<1>2. CASE e.state # "OUTPOINT_SPENT" /\ collateral = "missing"
  BY <1>2 DEF CheckAgain, EntryType, State
<1>3. CASE e.state = "POSE_BAN" /\ collateral # "missing"
  <2>1. CASE e.banLeft > 0
    BY <1>3, <2>1 DEF CheckAgain
  <2>2. CASE ~(e.banLeft > 0)
    <3>1. PICK u : u = [e EXCEPT !.score = DecreasePoSeBanScore(@)]
      OBVIOUS
    <3>2. DecreasePoSeBanScore(e.score) \in -MAX_SCORE .. MAX_SCORE
      BY ScoreTypes DEF EntryType
    <3>3. u \in EntryType /\ u.sig = e.sig /\ u.ping = e.ping
      BY <3>1, <3>2 DEF EntryType
    <3>4. StateByPing(u, late) \in State
      BY <3>3, StateByPingType
    <3>5. CheckAgain(e, late) = [u EXCEPT !.state = StateByPing(u, late)]
      BY <1>3, <2>2, <3>1 DEF CheckAgain
    <3>6. QED BY <3>3, <3>4, <3>5 DEF EntryType
  <2>3. QED BY <2>1, <2>2
<1>4. CASE e.state \notin {"OUTPOINT_SPENT", "POSE_BAN"} /\ collateral # "missing"
  <2>1. CASE e.score >= MAX_SCORE
    <3>1. CheckAgain(e, late) = [e EXCEPT !.state = "POSE_BAN", !.banLeft = BAN]
      BY <1>4, <2>1 DEF CheckAgain
    <3>2. BAN \in 0 .. BAN /\ "POSE_BAN" \in State
      BY ConstantTypes DEF State
    <3>3. QED BY <3>1, <3>2 DEF EntryType
  <2>2. CASE ~(e.score >= MAX_SCORE)
    <3>1. CheckAgain(e, late) = [e EXCEPT !.state = StateByPing(e, late)]
      BY <1>4, <2>2 DEF CheckAgain
    <3>2. QED BY <3>1, StateByPingType DEF EntryType
  <2>3. QED BY <2>1, <2>2
<1>5. QED BY <1>1, <1>2, <1>3, <1>4

\* Check keeps broadcast and ping of an entry.
LEMMA CheckKeeps ==
  ASSUME NEW e \in EntryType, NEW late
  PROVE  /\ ForcedCheck(e, late) \in EntryType /\ Check(e, late) \in EntryType
         /\ ForcedCheck(e, late).sig = e.sig /\ Check(e, late).sig = e.sig
         /\ ForcedCheck(e, late).ping = e.ping /\ Check(e, late).ping = e.ping
         /\ ForcedCheck(e, late).state = CheckAgain(e, late).state
         /\ ForcedCheck(e, late).banLeft = CheckAgain(e, late).banLeft
<1>1. PICK a : a = CheckAgain(e, late)
  OBVIOUS
<1>2. a \in EntryType /\ a.sig = e.sig /\ a.ping = e.ping
  BY <1>1, CheckAgainKeeps
<1>3. ForcedCheck(e, late) = [a EXCEPT !.checked = TRUE]
  BY <1>1 DEF ForcedCheck
<1>4. [a EXCEPT !.checked = TRUE] \in EntryType
  BY <1>2, EntryUpdates
<1>5. /\ ForcedCheck(e, late).sig = e.sig /\ ForcedCheck(e, late).ping = e.ping
      /\ ForcedCheck(e, late).state = a.state /\ ForcedCheck(e, late).banLeft = a.banLeft
  BY <1>2, <1>3 DEF EntryType
<1>6. Check(e, late) \in {e, ForcedCheck(e, late)}
  BY DEF Check
<1>7. QED BY <1>1, <1>3, <1>4, <1>5, <1>6

-----------------------------------------------------------------------------
(* What CheckMnbAndUpdateMasternodeList does with a broadcast *)

\* The broadcasts seen before are still seen.
StillSeen(l, k) == \A b \in Broadcast : l.seen[b] # Unseen => k.seen[b] # Unseen

LEMMA KnownUpdates ==
  ASSUME NEW l \in KnownType
  PROVE  /\ \A e \in EntryType \cup {NoEntry} :
              /\ [l EXCEPT !.mn = e] \in KnownType
              /\ [l EXCEPT !.mn = e].mn = e
              /\ [l EXCEPT !.mn = e].seen = l.seen
              /\ [l EXCEPT !.mn = e].lost = l.lost
         /\ \A b \in Broadcast :
              /\ [l EXCEPT !.lost = l.lost \cup {b}] \in KnownType
              /\ [l EXCEPT !.lost = l.lost \cup {b}].mn = l.mn
              /\ [l EXCEPT !.lost = l.lost \cup {b}].seen = l.seen
              /\ [l EXCEPT !.lost = l.lost \cup {b}].lost = l.lost \cup {b}
         /\ \A sn \in SeenType :
              /\ [l EXCEPT !.seen = sn] \in KnownType
              /\ [l EXCEPT !.seen = sn].mn = l.mn
              /\ [l EXCEPT !.seen = sn].seen = sn
              /\ [l EXCEPT !.seen = sn].lost = l.lost
BY DEF KnownType

LEMMA SeenUpdates ==
  ASSUME NEW sn \in SeenType, NEW b \in Broadcast, NEW age \in {Unseen} \cup 0 .. NEW_START
  PROVE  /\ [sn EXCEPT ![b] = age] \in SeenType
         /\ [sn EXCEPT ![b] = age][b] = age
         /\ \A c \in Broadcast \ {b} : [sn EXCEPT ![b] = age][c] = sn[c]
BY DEF SeenType

LEMMA AgesAreSeen == \A age \in 0 .. NEW_START : age # Unseen
BY ConstantTypes DEF Unseen

LEMMA ListedCopyKeeps ==
  ASSUME NEW l \in KnownType, l.mn \in EntryType
  PROVE  /\ ListedCopy(l) \in KnownType
         /\ ListedCopy(l).mn = l.mn /\ ListedCopy(l).lost = l.lost
         /\ StillSeen(l, ListedCopy(l))
         /\ ListedCopy(l).seen[l.mn.sig] # Unseen
<1>1. l.mn.sig \in Broadcast /\ l.seen \in SeenType
  BY EntryIsListed DEF KnownType
<1>2. CASE l.seen[l.mn.sig] = Unseen
  <2>1. PICK sn : sn = [l.seen EXCEPT ![l.mn.sig] = NEW_START]
    OBVIOUS
  <2>2. NEW_START \in 0 .. NEW_START
    BY ConstantTypes
  <2>3. /\ sn \in SeenType /\ sn[l.mn.sig] = NEW_START
        /\ \A c \in Broadcast \ {l.mn.sig} : sn[c] = l.seen[c]
    BY <1>1, <2>1, <2>2, SeenUpdates
  <2>4. ListedCopy(l) = [l EXCEPT !.seen = sn]
    BY <1>2, <2>1 DEF ListedCopy
  <2>5. ListedCopy(l) \in KnownType /\ ListedCopy(l).mn = l.mn
        /\ ListedCopy(l).lost = l.lost /\ ListedCopy(l).seen = sn
    BY <2>3, <2>4, KnownUpdates
  <2>6. sn[l.mn.sig] # Unseen
    BY <2>2, <2>3, AgesAreSeen
  <2>7. QED BY <2>3, <2>5, <2>6 DEF StillSeen
<1>3. CASE l.seen[l.mn.sig] # Unseen
  BY <1>3 DEF ListedCopy, StillSeen
<1>4. QED BY <1>2, <1>3

LEMMA WithPingKeeps ==
  ASSUME NEW sn \in SeenType, NEW b \in Broadcast, NEW ping \in PingType
  PROVE  /\ WithPing(sn, b, ping) \in SeenType
         /\ \A c \in Broadcast : WithPing(sn, b, ping)[c] = Unseen <=> sn[c] = Unseen
<1>1. CASE sn[b] = Unseen
  BY <1>1 DEF WithPing
<1>2. CASE sn[b] # Unseen
  <2>1. PICK age : age = ping.age
    OBVIOUS
  <2>0. age \in 0 .. NEW_START /\ age \in {Unseen} \cup 0 .. NEW_START
    BY <2>1 DEF PingType
  <2>2. PICK sm : sm = [sn EXCEPT ![b] = age]
    OBVIOUS
  <2>3. sm \in SeenType /\ sm[b] = age /\ \A c \in Broadcast \ {b} : sm[c] = sn[c]
    BY <2>2, <2>0 DEF SeenType
  <2>4. sm[b] # Unseen
    BY <2>3, <2>0, AgesAreSeen
  <2>5. WithPing(sn, b, ping) = sm
    BY <1>2, <2>1, <2>2 DEF WithPing
  <2>6. QED BY <1>2, <2>3, <2>4, <2>5
<1>3. QED BY <1>1, <1>2

LEMMA UpdateKeeps ==
  ASSUME NEW l \in KnownType, l.mn \in EntryType, NEW b \in Broadcast,
         NEW ping \in PingType, NEW late
  PROVE  LET k == UpdateFromNewBroadcast(l, b, ping, late)
         IN  /\ k \in KnownType /\ k.lost = l.lost /\ StillSeen(l, k)
             /\ \E e \in EntryType :
                  e.sig = b /\ e.state = l.mn.state /\ k.mn = ForcedCheck(e, late)
<1>1. PICK accepted \in BOOLEAN : accepted <=> Accepts(l.mn, ping)
  OBVIOUS
<1>2. PICK e : e = [l.mn EXCEPT !.sig = b, !.score = 0, !.banLeft = 0,
                                !.ping = IF accepted THEN ping ELSE @]
  OBVIOUS
<1>3. 0 \in -MAX_SCORE .. MAX_SCORE /\ 0 \in 0 .. BAN
  BY ConstantTypes
<1>4. (IF accepted THEN ping ELSE l.mn.ping) \in PingType
  BY DEF EntryType
<1>5. e \in EntryType /\ e.sig = b /\ e.state = l.mn.state
  BY <1>2, <1>3, <1>4 DEF EntryType
<1>6. PICK sn : sn = IF accepted THEN WithPing(l.seen, b, ping) ELSE l.seen
  OBVIOUS
<1>7. l.seen \in SeenType
  BY DEF KnownType
<1>8. sn \in SeenType /\ \A c \in Broadcast : sn[c] = Unseen <=> l.seen[c] = Unseen
  BY <1>6, <1>7, WithPingKeeps
<1>9. PICK f : f = ForcedCheck(e, late)
  OBVIOUS
<1>10. f \in EntryType
  BY <1>5, <1>9, CheckKeeps
<1>11. PICK k : k = [l EXCEPT !.mn = f, !.seen = sn]
  OBVIOUS
<1>12. k \in KnownType /\ k.lost = l.lost /\ k.mn = f /\ k.seen = sn
  BY <1>8, <1>10, <1>11 DEF KnownType
<1>13. UpdateFromNewBroadcast(l, b, ping, late) = k
  <2>1. Accepts(l.mn, ping) = accepted
    BY <1>1 DEF Accepts
  <2>2. QED BY <1>2, <1>6, <1>9, <1>11, <2>1 DEF UpdateFromNewBroadcast
<1>14. StillSeen(l, k)
  BY <1>8, <1>12 DEF StillSeen
<1>15. QED BY <1>5, <1>9, <1>12, <1>13, <1>14

\* A masternode that was not listed: it is listed now, or not.
Added(l, b, k) ==
  /\ l.mn = NoEntry /\ collateral # "missing"
  /\ k.mn \in EntryType /\ k.mn.sig = b /\ k.seen[b] # Unseen

NotAdded(l, k) == l.mn = NoEntry /\ k.mn = NoEntry

\* One that was listed with this broadcast or a newer one.
NotNewer(l, b, recovery, k) ==
  /\ l.mn \in EntryType
  /\ b < l.mn.sig \/ (b = l.mn.sig /\ ~recovery)
  /\ k.mn = l.mn /\ k.seen[l.mn.sig] # Unseen

\* One that was checked and not updated.
OnlyChecked(l, b, recovery, late, k) ==
  /\ l.mn \in EntryType
  /\ k.mn = Check(l.mn, late)
  /\ k.seen[l.mn.sig] # Unseen \/ (b > l.mn.sig /\ b \in k.lost)

\* One that was checked and updated.
Updated(l, b, recovery, late, k) ==
  /\ l.mn \in EntryType
  /\ b > l.mn.sig \/ (b = l.mn.sig /\ recovery)
  /\ Check(l.mn, late).state # "POSE_BAN"
  /\ \E e \in EntryType : /\ e.sig = b /\ e.state = Check(l.mn, late).state
                          /\ k.mn = ForcedCheck(e, late)
  /\ k.seen[b] # Unseen

LEMMA UpdateListedCases ==
  ASSUME NEW l \in KnownType, l.mn \in EntryType, NEW b \in Broadcast, l.seen[b] # Unseen,
         NEW ping \in PingType, NEW recovery \in BOOLEAN, NEW late
  PROVE  LET k == UpdateListed(l, b, ping, recovery, late)
         IN  /\ k \in KnownType /\ l.lost \subseteq k.lost
             /\ \/ NotNewer(l, b, recovery, k)
                \/ OnlyChecked(l, b, recovery, late, k)
                \/ Updated(l, b, recovery, late, k)
<1>1. PICK old : old = l.mn.sig
  OBVIOUS
<1>2. old \in Broadcast /\ Broadcast \subseteq Nat
  BY <1>1, EntryIsListed, ConstantTypes DEF Broadcast
<1>3. PICK copy : copy = ListedCopy(l)
  OBVIOUS
<1>4. /\ copy \in KnownType /\ copy.mn = l.mn /\ copy.lost = l.lost
      /\ StillSeen(l, copy) /\ copy.seen[old] # Unseen
  BY <1>1, <1>3, ListedCopyKeeps
<1>5. PICK checked : checked = [copy EXCEPT !.mn = Check(@, late)]
  OBVIOUS
<1>6. Check(l.mn, late) \in EntryType
  BY CheckKeeps
<1>7. /\ checked \in KnownType /\ checked.mn = Check(l.mn, late)
      /\ checked.lost = l.lost /\ checked.seen = copy.seen
  <2>1. checked = [copy EXCEPT !.mn = Check(l.mn, late)]
    BY <1>4, <1>5 DEF KnownType
  <2>2. QED BY <1>4, <1>6, <2>1, KnownUpdates
<1>8. checked.seen[b] # Unseen /\ checked.seen[old] # Unseen
  BY <1>4, <1>7 DEF StillSeen
<1>9. CASE old > b \/ (old = b /\ ~recovery)
  <2>1. UpdateListed(l, b, ping, recovery, late) = copy
    BY <1>1, <1>3, <1>9 DEF UpdateListed
  <2>2. NotNewer(l, b, recovery, copy)
    BY <1>1, <1>2, <1>4, <1>9 DEF NotNewer
  <2>3. QED BY <1>4, <2>1, <2>2
<1>10. CASE ~(old > b \/ (old = b /\ ~recovery)) /\ RefusesUpdate(checked.mn)
  <2>1. PICK k : k = [checked EXCEPT !.lost = checked.lost \cup {b}]
    OBVIOUS
  <2>2. UpdateListed(l, b, ping, recovery, late) = k
    BY <1>1, <1>3, <1>5, <1>10, <2>1 DEF UpdateListed
  <2>3. k \in KnownType /\ k.mn = checked.mn /\ k.seen = checked.seen /\ l.lost \subseteq k.lost
    BY <1>7, <2>1, KnownUpdates
  <2>4. OnlyChecked(l, b, recovery, late, k)
    BY <1>1, <1>7, <1>8, <2>3 DEF OnlyChecked
  <2>5. QED BY <2>2, <2>3, <2>4
<1>11. CASE ~(old > b \/ (old = b /\ ~recovery)) /\ ~RefusesUpdate(checked.mn)
  <2>1. b > old \/ (b = old /\ recovery)
    BY <1>2, <1>11
  <2>2. PICK updated : updated = IF bAge[old] >= MIN_MNB
                                 THEN UpdateFromNewBroadcast(checked, b, ping, late)
                                 ELSE [checked EXCEPT !.lost = @ \cup {b}]
    OBVIOUS
  <2>3. PICK k : k = UpdateListed(l, b, ping, recovery, late)
    OBVIOUS
  <2>4. k \in {updated, EraseListed(updated, old, b)}
    BY <1>1, <1>3, <1>5, <1>11, <2>2, <2>3 DEF UpdateListed
  <2>5. updated \in KnownType /\ l.lost \subseteq updated.lost /\ StillSeen(checked, updated)
    <3>1. CASE bAge[old] >= MIN_MNB
      BY <1>6, <1>7, <2>2, <3>1, UpdateKeeps
    <3>2. CASE ~(bAge[old] >= MIN_MNB)
      <4>1. updated = [checked EXCEPT !.lost = checked.lost \cup {b}]
        BY <2>2, <3>2
      <4>2. /\ updated \in KnownType /\ updated.lost = checked.lost \cup {b}
            /\ updated.seen = checked.seen
        BY <1>7, <4>1, KnownUpdates
      <4>3. StillSeen(checked, updated)
        BY <4>2 DEF StillSeen
      <4>4. QED BY <1>7, <4>2, <4>3
    <3>3. QED BY <3>1, <3>2
  <2>6. \/ k = updated
        \/ /\ old # b
           /\ k = [updated EXCEPT !.seen = [updated.seen EXCEPT ![old] = Unseen]]
    BY <2>4 DEF EraseListed
  <2>7. /\ k \in KnownType /\ k.mn = updated.mn /\ k.lost = updated.lost
        /\ \A c \in Broadcast : c # old \/ old = b => k.seen[c] = updated.seen[c]
    <3>1. CASE k = updated
      BY <2>5, <3>1
    <3>2. CASE /\ old # b
               /\ k = [updated EXCEPT !.seen = [updated.seen EXCEPT ![old] = Unseen]]
      <4>1. PICK sn : sn = [updated.seen EXCEPT ![old] = Unseen]
        OBVIOUS
      <4>2. sn \in SeenType /\ \A c \in Broadcast \ {old} : sn[c] = updated.seen[c]
        BY <1>2, <2>5, <4>1, SeenUpdates DEF KnownType
      <4>3. QED BY <2>5, <3>2, <4>1, <4>2, KnownUpdates
    <3>3. QED BY <2>6, <3>1, <3>2
  <2>8. k.seen[b] # Unseen
    BY <1>8, <2>5, <2>7 DEF StillSeen
  <2>9. CASE bAge[old] >= MIN_MNB
    <3>1. updated = UpdateFromNewBroadcast(checked, b, ping, late)
      BY <2>2, <2>9
    <3>2. PICK e \in EntryType :
            /\ e.sig = b /\ e.state = Check(l.mn, late).state
            /\ updated.mn = ForcedCheck(e, late)
      BY <1>6, <1>7, <3>1, UpdateKeeps
    <3>3. Check(l.mn, late).state # "POSE_BAN"
      BY <1>7, <1>11 DEF RefusesUpdate
    <3>4. Updated(l, b, recovery, late, k)
      BY <1>1, <2>1, <2>7, <2>8, <3>2, <3>3 DEF Updated
    <3>5. QED BY <2>3, <2>5, <2>7, <3>4
  <2>10. CASE ~(bAge[old] >= MIN_MNB)
    <3>1. updated = [checked EXCEPT !.lost = checked.lost \cup {b}]
      BY <2>2, <2>10
    <3>2. updated.mn = checked.mn /\ b \in updated.lost
      BY <1>7, <3>1, KnownUpdates
    <3>3. k.seen[old] # Unseen \/ b > old
      BY <2>1, <2>8
    <3>4. OnlyChecked(l, b, recovery, late, k)
      BY <1>1, <1>2, <1>7, <2>1, <2>7, <2>8, <3>2, <3>3 DEF OnlyChecked
    <3>5. QED BY <2>3, <2>5, <2>7, <3>4
  <2>11. QED BY <2>9, <2>10
<1>12. QED BY <1>9, <1>10, <1>11

LEMMA ProcessBroadcastCases ==
  ASSUME NEW l \in KnownType, NEW b \in Broadcast,
         NEW ping \in PingType, NEW recovery \in BOOLEAN, NEW late
  PROVE  LET k == ProcessBroadcast(l, b, ping, recovery, late)
         IN  /\ k \in KnownType /\ l.lost \subseteq k.lost
             /\ \/ Added(l, b, k)
                \/ NotAdded(l, k)
                \/ NotNewer(l, b, recovery, k)
                \/ OnlyChecked(l, b, recovery, late, k)
                \/ Updated(l, b, recovery, late, k)
<1>1. l.seen \in SeenType /\ l.mn \in EntryType \cup {NoEntry} /\ ping.age \in 0 .. NEW_START
  BY DEF KnownType, PingType
<1>2. PICK sn : sn = [l.seen EXCEPT ![b] = IF @ = Unseen THEN ping.age ELSE @]
  OBVIOUS
<1>3. sn \in SeenType /\ sn[b] # Unseen
  <2>1. PICK age : age = IF l.seen[b] = Unseen THEN ping.age ELSE l.seen[b]
    OBVIOUS
  <2>2. age \in {Unseen} \cup 0 .. NEW_START /\ age # Unseen
    BY <1>1, <2>1, AgesAreSeen DEF SeenType
  <2>3. sn = [l.seen EXCEPT ![b] = age]
    BY <1>1, <1>2, <2>1 DEF SeenType
  <2>4. QED BY <1>1, <2>2, <2>3, SeenUpdates
<1>4. PICK m : m = [l EXCEPT !.seen = sn]
  OBVIOUS
<1>5. m \in KnownType /\ m.mn = l.mn /\ m.seen = sn /\ m.lost = l.lost
  BY <1>3, <1>4, KnownUpdates
<1>6. m = [l EXCEPT !.seen[b] = IF @ = Unseen THEN ping.age ELSE @]
  BY <1>1, <1>2, <1>4 DEF KnownType, SeenType
<1>7. CASE l.mn = NoEntry
  <2>1. PICK k : k = ProcessBroadcast(l, b, ping, recovery, late)
    OBVIOUS
  <2>2. k = AddNew(m, b, ping)
    BY <1>6, <1>7, <2>1 DEF ProcessBroadcast
  <2>3. CASE collateral = "missing"
    <3>1. k = [m EXCEPT !.lost = m.lost \cup {b}]
      BY <2>2, <2>3 DEF AddNew
    <3>2. k \in KnownType /\ k.mn = m.mn /\ k.lost = m.lost \cup {b}
      BY <1>5, <3>1, KnownUpdates
    <3>3. QED BY <1>5, <1>7, <2>1, <3>2 DEF NotAdded
  <2>4. CASE collateral = "young"
    <3>1. PICK sm : sm = [sn EXCEPT ![b] = Unseen]
      OBVIOUS
    <3>2. sm \in SeenType
      BY <1>3, <3>1, SeenUpdates
    <3>3. k = [m EXCEPT !.seen = sm]
      BY <1>5, <2>2, <2>4, <3>1 DEF AddNew
    <3>4. k \in KnownType /\ k.mn = m.mn /\ k.lost = m.lost
      BY <1>5, <3>2, <3>3, KnownUpdates
    <3>5. QED BY <1>5, <1>7, <2>1, <3>4 DEF NotAdded
  <2>5. CASE collateral \notin {"missing", "young"}
    <3>1. PICK e : e = [sig |-> b, state |-> "ENABLED", ping |-> ping,
                        score |-> 0, banLeft |-> 0, checked |-> FALSE]
      OBVIOUS
    <3>2. 0 \in -MAX_SCORE .. MAX_SCORE /\ 0 \in 0 .. BAN /\ "ENABLED" \in State
      BY ConstantTypes DEF State, Active
    <3>3. e \in EntryType /\ e.sig = b
      BY <3>1, <3>2 DEF EntryType
    <3>4. k = [m EXCEPT !.mn = e]
      BY <2>2, <2>5, <3>1 DEF AddNew
    <3>5. k \in KnownType /\ k.mn = e /\ k.lost = m.lost /\ k.seen = sn
      BY <1>5, <3>3, <3>4, KnownUpdates
    <3>6. Added(l, b, k)
      BY <1>3, <1>7, <2>5, <3>3, <3>5 DEF Added
    <3>7. QED BY <1>5, <2>1, <3>5, <3>6
  <2>6. QED BY <2>3, <2>4, <2>5
<1>8. CASE l.mn \in EntryType
  <2>1. PICK k : k = ProcessBroadcast(l, b, ping, recovery, late)
    OBVIOUS
  <2>2. k = UpdateListed(m, b, ping, recovery, late)
    BY <1>6, <1>8, <2>1, EntryIsListed DEF ProcessBroadcast
  <2>3. /\ k \in KnownType /\ m.lost \subseteq k.lost
        /\ \/ NotNewer(m, b, recovery, k)
           \/ OnlyChecked(m, b, recovery, late, k)
           \/ Updated(m, b, recovery, late, k)
    BY <1>3, <1>5, <1>8, <2>2, UpdateListedCases
  <2>4. QED BY <1>5, <2>1, <2>3 DEF NotNewer, OnlyChecked, Updated
<1>9. QED BY <1>1, <1>7, <1>8

-----------------------------------------------------------------------------
(* The invariant *)

OwnerTypes ==
  /\ collateral \in {"missing", "young", "ok"}
  /\ published \in 0 .. MaxBroadcasts /\ bAge \in [Broadcast -> 0 .. MIN_MNP]
  /\ sent \in PingType /\ sentSeen \in BOOLEAN
  /\ sync \in {"LIST", "LATER", "FINISHED"} /\ faults \in 0 .. MaxFaults

RequestType == [age : -1 .. RETRY + 1, left : SUBSET Peer]

\* Replies are counted once for each peer.
ReplyType == {r \in [count : Nat, first : PingType, from : SUBSET Peer] :
                r.count = Cardinality(r.from)}

RecoveryTypes ==
  request \in [Broadcast -> RequestType] /\ replies \in [Broadcast -> ReplyType]

\* Replies are kept only while the request is, and who has replied is not left to
\* reply: a second request comes only when the replies to the first are gone.
RepliesAreAsked ==
  \A b \in Broadcast : replies[b] # NoReplies =>
    request[b] # NoRequest /\ replies[b].from \cap request[b].left = {}

\* ListedIsSeen, of what CheckMnbAndUpdateMasternodeList changes.
EntryIsSeen(l) ==
  l.mn # NoEntry => l.seen[l.mn.sig] # Unseen \/ \E b \in l.lost : b > l.mn.sig

Inv == /\ OwnerTypes /\ Known \in KnownType /\ RecoveryTypes
       /\ RepliesAreAsked /\ EntryIsSeen(Known)

LEMMA KnownParts ==
  /\ Known.mn = mn /\ Known.seen = seen /\ Known.lost = lost
  /\ Known \in KnownType <=> /\ mn \in EntryType \cup {NoEntry} /\ seen \in SeenType
                             /\ lost \subseteq Broadcast
  /\ EntryIsSeen(Known) <=> ListedIsSeen
BY DEF Known, KnownType, EntryIsSeen, ListedIsSeen, Listed

LEMMA TypeParts == TypeOK <=> OwnerTypes /\ Known \in KnownType /\ RecoveryTypes
<1>1. RecoveryTypes <=>
        /\ request \in [Broadcast -> RequestType]
        /\ replies \in [Broadcast -> [count : Nat, first : PingType, from : SUBSET Peer]]
        /\ \A b \in Broadcast : replies[b].count = Cardinality(replies[b].from)
  BY DEF RecoveryTypes, ReplyType
<1>2. QED BY <1>1, KnownParts DEF TypeOK, OwnerTypes, RequestType, SeenType

LEMMA InvGives == Inv => TypeOK /\ ListedIsSeen
BY TypeParts, KnownParts DEF Inv

LEMMA NothingAsked ==
  /\ NoRequest \in RequestType /\ NoReplies \in ReplyType
<1>1. -1 \in -1 .. RETRY + 1 /\ NEW_START \in 0 .. NEW_START /\ 0 \in 0 .. MaxBroadcasts
  BY ConstantTypes
<1>2. Cardinality({}) = 0
  BY FS_EmptySet
<1>3. QED BY <1>1, <1>2 DEF NoRequest, NoReplies, RequestType, ReplyType, PingType

LEMMA LateVoteType == LateVote \subseteq BOOLEAN
BY DEF LateVote

\* A step that changes nothing but what is known, which stays of its type.
LEMMA OnlyKnownChanges ==
  ASSUME Inv, NEW k \in KnownType, EntryIsSeen(k), Becomes(k),
         UNCHANGED <<ownerVars, collateral, sentSeen, request, replies, sync, faults>>
  PROVE  Inv'
<1>1. mn' = k.mn /\ seen' = k.seen /\ lost' = k.lost
  BY DEF Becomes
<1>2. Known' \in KnownType' /\ EntryIsSeen(Known)'
  <2>1. Known' = [mn |-> k.mn, seen |-> k.seen, lost |-> k.lost]
    BY <1>1 DEF Known
  <2>2. [mn |-> k.mn, seen |-> k.seen, lost |-> k.lost] = k
    BY DEF KnownType
  <2>3. QED BY <2>1, <2>2 DEF KnownType, EntryIsSeen
<1>3. (OwnerTypes /\ RecoveryTypes /\ RepliesAreAsked)'
  BY DEF Inv, OwnerTypes, RecoveryTypes, RepliesAreAsked, ownerVars
<1>4. QED BY <1>2, <1>3 DEF Inv

LEMMA ProcessBroadcastSeen ==
  ASSUME NEW l \in KnownType, EntryIsSeen(l), NEW b \in Broadcast,
         NEW ping \in PingType, NEW recovery \in BOOLEAN, NEW late
  PROVE  /\ ProcessBroadcast(l, b, ping, recovery, late) \in KnownType
         /\ EntryIsSeen(ProcessBroadcast(l, b, ping, recovery, late))
<1>1. PICK k : k = ProcessBroadcast(l, b, ping, recovery, late)
  OBVIOUS
<1>2. k \in KnownType
  BY <1>1, ProcessBroadcastCases
<1> SUFFICES EntryIsSeen(k)
  BY <1>1, <1>2
<1>3. CASE Added(l, b, k)
  BY <1>3 DEF Added, EntryIsSeen
<1>4. CASE NotAdded(l, k)
  BY <1>4 DEF NotAdded, EntryIsSeen
<1>5. CASE NotNewer(l, b, recovery, k)
  BY <1>5 DEF NotNewer, EntryIsSeen
<1>6. CASE OnlyChecked(l, b, recovery, late, k)
  <2>1. k.mn.sig = l.mn.sig
    BY <1>6, CheckKeeps DEF OnlyChecked
  <2>2. QED BY <1>6, <2>1 DEF OnlyChecked, EntryIsSeen
<1>7. CASE Updated(l, b, recovery, late, k)
  <2>1. k.mn.sig = b
    BY <1>7, CheckKeeps DEF Updated
  <2>2. QED BY <1>7, <2>1 DEF Updated, EntryIsSeen
<1>8. QED BY <1>1, <1>3, <1>4, <1>5, <1>6, <1>7, ProcessBroadcastCases

-----------------------------------------------------------------------------
(* The messages keep the invariant *)

LEMMA ReceiveBroadcastStep ==
  ASSUME Inv, NEW b \in Broadcast, ReceiveBroadcast(b)
  PROVE  Inv'
<1>1. PICK late \in LateVote : Becomes(ProcessBroadcast(Known, b, sent, FALSE, late))
  BY DEF ReceiveBroadcast
<1>2. PICK k : k = ProcessBroadcast(Known, b, sent, FALSE, late)
  OBVIOUS
<1>3. Known \in KnownType /\ EntryIsSeen(Known) /\ sent \in PingType
  BY DEF Inv, OwnerTypes
<1>4. k \in KnownType /\ EntryIsSeen(k)
  BY <1>2, <1>3, ProcessBroadcastSeen
<1>5. QED BY <1>1, <1>2, <1>4, OnlyKnownChanges DEF ReceiveBroadcast

LEMMA ReceiveRecoveryReplyStep ==
  ASSUME Inv, NEW p \in Peer, NEW b \in Broadcast, ReceiveRecoveryReply(p, b)
  PROVE  Inv'
<1>1. /\ request \in [Broadcast -> RequestType] /\ replies \in [Broadcast -> ReplyType]
      /\ RepliesAreAsked /\ sent \in PingType
  BY DEF Inv, RecoveryTypes, OwnerTypes
<1>2. request[b] \in RequestType /\ request[b].age = 0 /\ p \in request[b].left
  BY <1>1 DEF ReceiveRecoveryReply, MayReply
<1>3. PICK q : q = [request[b] EXCEPT !.left = @ \ {p}]
  OBVIOUS
<1>4. q \in RequestType /\ q # NoRequest /\ q.left = request[b].left \ {p}
  BY <1>2, <1>3 DEF RequestType, NoRequest
<1>5. request' = [request EXCEPT ![b] = q]
  BY <1>1, <1>3 DEF ReceiveRecoveryReply, AskedNoMore
<1>6. request' \in [Broadcast -> RequestType] /\ request'[b] = q
      /\ \A c \in Broadcast \ {b} : request'[c] = request[c]
  BY <1>1, <1>4, <1>5
<1>7. p \notin replies[b].from
  <2>1. CASE replies[b] = NoReplies
    BY <2>1 DEF NoReplies
  <2>2. CASE replies[b] # NoReplies
    BY <1>1, <1>2, <2>2 DEF RepliesAreAsked
  <2>3. QED BY <2>1, <2>2
<1>8. /\ replies' \in [Broadcast -> ReplyType]
      /\ \A c \in Broadcast \ {b} : replies'[c] = replies[c]
      /\ replies'[b] # NoReplies => replies'[b].from \cap q.left = {}
  <2>1. CASE replies' = replies
    <3>1. replies[b] # NoReplies => replies[b].from \cap q.left = {}
      BY <1>1, <1>4 DEF RepliesAreAsked
    <3>2. QED BY <1>1, <2>1, <3>1
  <2>2. CASE replies' = [replies EXCEPT ![b] =
                           [count |-> @.count + 1, from |-> @.from \cup {p},
                            first |-> IF @.count = 0 THEN sent ELSE @.first]]
    <3>1. PICK r : r = replies[b]
      OBVIOUS
    <3>2. /\ r \in ReplyType /\ r.count \in Nat /\ r.from \in SUBSET Peer
          /\ r.first \in PingType /\ r.count = Cardinality(r.from)
      BY <1>1, <3>1 DEF ReplyType
    <3>3. PICK s : s = [count |-> r.count + 1, from |-> r.from \cup {p},
                        first |-> IF r.count = 0 THEN sent ELSE r.first]
      OBVIOUS
    <3>4. Cardinality(r.from \cup {p}) = r.count + 1
      <4>1. IsFiniteSet(r.from)
        BY <3>2, MasternodeAssumption, FS_Subset
      <4>2. p \notin r.from
        BY <1>7, <3>1
      <4>3. Cardinality(r.from \cup {p}) = Cardinality(r.from) + 1
        BY <4>1, <4>2, FS_AddElement
      <4>4. QED BY <3>2, <4>3
    <3>5. s \in ReplyType /\ s.from = r.from \cup {p}
      <4>1. r.count + 1 \in Nat /\ r.from \cup {p} \in SUBSET Peer
            /\ (IF r.count = 0 THEN sent ELSE r.first) \in PingType
        BY <1>1, <3>2
      <4>2. /\ s \in [count : Nat, first : PingType, from : SUBSET Peer]
            /\ s.from = r.from \cup {p} /\ s.count = r.count + 1
        BY <3>3, <4>1
      <4>3. s.count = Cardinality(s.from)
        BY <3>4, <4>2
      <4>4. QED BY <4>2, <4>3 DEF ReplyType
    <3>6. replies' = [replies EXCEPT ![b] = s]
      BY <1>1, <2>2, <3>1, <3>3
    <3>7. r.from \cap request[b].left = {}
      <4>1. CASE r = NoReplies
        BY <4>1 DEF NoReplies
      <4>2. CASE r # NoReplies
        BY <1>1, <3>1, <4>2 DEF RepliesAreAsked
      <4>3. QED BY <4>1, <4>2
    <3>8. s.from \cap q.left = {}
      BY <1>4, <3>5, <3>7
    <3>9. /\ replies' \in [Broadcast -> ReplyType] /\ replies'[b] = s
          /\ \A c \in Broadcast \ {b} : replies'[c] = replies[c]
      BY <1>1, <3>5, <3>6
    <3>10. QED BY <3>8, <3>9
  <2>3. QED BY <2>1, <2>2 DEF ReceiveRecoveryReply
<1>9. RepliesAreAsked'
  BY <1>1, <1>4, <1>6, <1>8 DEF RepliesAreAsked, NoReplies, NoRequest
<1>10. RecoveryTypes'
  BY <1>6, <1>8 DEF RecoveryTypes
<1>11. OwnerTypes' /\ Known' \in KnownType' /\ EntryIsSeen(Known)'
  BY DEF ReceiveRecoveryReply, Inv, OwnerTypes, Known, KnownType, EntryIsSeen, ownerVars
<1>12. QED BY <1>9, <1>10, <1>11 DEF Inv

LEMMA ReceivePingStep ==
  ASSUME Inv, ReceivePing
  PROVE  Inv'
<1>1. /\ mn \in EntryType \cup {NoEntry} /\ seen \in SeenType /\ sent \in PingType
      /\ EntryIsSeen(Known) /\ Known.mn = mn /\ Known.seen = seen /\ Known.lost = lost
  BY KnownParts DEF Inv, OwnerTypes
<1>2. CASE UNCHANGED <<mn, seen>>
  BY <1>2 DEF ReceivePing, Inv, OwnerTypes, RecoveryTypes, RepliesAreAsked, Known, KnownType,
              EntryIsSeen, ownerVars
<1>3. CASE ~UNCHANGED <<mn, seen>>
  <2>1. PICK late : mn' = ForcedCheck([mn EXCEPT !.ping = sent], late)
    BY <1>3 DEF ReceivePing
  <2>2. Listed /\ seen' = WithPing(seen, mn.sig, sent)
    BY <1>3 DEF ReceivePing
  <2>3. mn \in EntryType /\ mn.sig \in Broadcast
    BY <1>1, <2>2, EntryIsListed DEF Listed
  <2>4. PICK e : e = [mn EXCEPT !.ping = sent]
    OBVIOUS
  <2>5. e \in EntryType /\ e.sig = mn.sig
    BY <1>1, <2>3, <2>4 DEF EntryType
  <2>6. mn' \in EntryType /\ mn'.sig = mn.sig
    BY <2>1, <2>4, <2>5, CheckKeeps
  <2>7. seen' \in SeenType /\ \A c \in Broadcast : seen'[c] = Unseen <=> seen[c] = Unseen
    BY <1>1, <2>2, <2>3, WithPingKeeps
  <2>8. Known' \in KnownType'
    BY <2>6, <2>7 DEF ReceivePing, Inv, Known, KnownType, SeenType
  <2>9. EntryIsSeen(Known)'
    <3>1. lost' = lost /\ mn # NoEntry
      BY <2>2 DEF ReceivePing, Listed
    <3>2. seen[mn.sig] # Unseen \/ \E b \in lost : b > mn.sig
      BY <1>1, <3>1 DEF EntryIsSeen
    <3>3. seen'[mn'.sig] # Unseen \/ \E b \in lost' : b > mn'.sig
      BY <2>3, <2>6, <2>7, <3>1, <3>2
    <3>4. Known'.mn = mn' /\ Known'.seen = seen' /\ Known'.lost = lost'
      BY DEF Known
    <3>5. QED BY <3>3, <3>4 DEF EntryIsSeen
  <2>10. (OwnerTypes /\ RecoveryTypes /\ RepliesAreAsked)'
    BY DEF ReceivePing, Inv, OwnerTypes, RecoveryTypes, RepliesAreAsked, ownerVars
  <2>11. QED BY <2>8, <2>9, <2>10 DEF Inv
<1>4. QED BY <1>2, <1>3

\* A step that changes what is known of the masternode only, not its broadcast.
LEMMA OnlyEntryChanges ==
  ASSUME Inv, OwnerTypes', mn' \in EntryType, Listed, mn'.sig = mn.sig, seen' = seen, lost' = lost,
         UNCHANGED <<request, replies>>
  PROVE  Inv'
<1>1. Known' \in KnownType' /\ EntryIsSeen(Known)'
  BY DEF Inv, Known, KnownType, SeenType, EntryIsSeen, Listed
<1>2. (RecoveryTypes /\ RepliesAreAsked)'
  BY DEF Inv, RecoveryTypes, RepliesAreAsked
<1>3. QED BY <1>1, <1>2 DEF Inv

LEMMA OwnerTypesStay ==
  ASSUME Inv, UNCHANGED <<ownerVars, collateral, sentSeen, sync, faults>>
  PROVE  OwnerTypes'
BY DEF Inv, OwnerTypes, ownerVars

LEMMA ListedEntry == Inv /\ Listed => mn \in EntryType /\ mn.sig \in Broadcast
<1>1. Inv => mn \in EntryType \cup {NoEntry}
  BY KnownParts DEF Inv
<1>2. QED BY <1>1, EntryIsListed DEF Listed

LEMMA AnswerListRequestStep ==
  ASSUME Inv, AnswerListRequest
  PROVE  Inv'
<1>1. mn \in EntryType /\ mn.sig \in Broadcast /\ seen \in SeenType /\ Known \in KnownType
  BY ListedEntry, KnownParts DEF AnswerListRequest, Inv
<1>2. PICK age : age = mn.ping.age
  OBVIOUS
<1>3. age \in 0 .. NEW_START
  BY <1>1, <1>2 DEF EntryType, PingType
<1>4. PICK sn : sn = [seen EXCEPT ![mn.sig] = age]
  OBVIOUS
<1>5. sn \in SeenType /\ sn[mn.sig] = age
  BY <1>1, <1>3, <1>4 DEF SeenType
<1>6. PICK k : k = [Known EXCEPT !.seen = sn]
  OBVIOUS
<1>7. k \in KnownType /\ k.mn = mn /\ k.seen = sn /\ k.lost = lost
  BY <1>1, <1>5, <1>6, KnownUpdates, KnownParts
<1>8. EntryIsSeen(k)
  BY <1>3, <1>5, <1>7, AgesAreSeen DEF EntryIsSeen
<1>9. Becomes(k)
  BY <1>2, <1>4, <1>7 DEF Becomes, AnswerListRequest
<1>10. QED BY <1>7, <1>8, <1>9, OnlyKnownChanges DEF AnswerListRequest

-----------------------------------------------------------------------------
(* The maintenance thread keeps the invariant *)

LEMMA CheckMasternodeStep ==
  ASSUME Inv, CheckMasternode
  PROVE  Inv'
<1>1. mn \in EntryType
  BY ListedEntry DEF CheckMasternode
<1>2. mn' \in EntryType /\ mn'.sig = mn.sig
  <2>1. CASE \E late \in LateVote : mn' = Check(mn, late)
    BY <1>1, <2>1, CheckKeeps
  <2>2. CASE mn' = [mn EXCEPT !.checked = TRUE]
    BY <1>1, <2>2 DEF EntryType
  <2>3. QED BY <2>1, <2>2 DEF CheckMasternode
<1>3. QED BY <1>2, OwnerTypesStay, OnlyEntryChanges DEF CheckMasternode

LEMMA CheckAgainSoonStep ==
  ASSUME Inv, CheckAgainSoon
  PROVE  Inv'
<1>1. mn \in EntryType
  BY ListedEntry DEF CheckAgainSoon
<1>2. mn' \in EntryType /\ mn'.sig = mn.sig
  BY <1>1 DEF EntryType, CheckAgainSoon
<1>3. QED BY <1>2, OwnerTypesStay, OnlyEntryChanges DEF CheckAgainSoon

\* The entry after the check and the removal of a spent one.
Kept(late) == RemoveSpent([Known EXCEPT !.mn = IF Listed THEN Check(@, late) ELSE @])

LEMMA KeptCases ==
  ASSUME Inv, NEW late
  PROVE  /\ Kept(late) \in KnownType /\ EntryIsSeen(Kept(late))
         /\ \/ mn = NoEntry /\ Kept(late).mn = NoEntry
            \/ mn \in EntryType /\ Check(mn, late).state = "OUTPOINT_SPENT"
               /\ Kept(late).mn = NoEntry
            \/ mn \in EntryType /\ Kept(late).mn = Check(mn, late)
<1>1. /\ Known \in KnownType /\ EntryIsSeen(Known)
      /\ Known.mn = mn /\ Known.seen = seen /\ Known.lost = lost /\ seen \in SeenType
  BY KnownParts DEF Inv
<1>2. CASE ~Listed
  <2>1. [Known EXCEPT !.mn = IF Listed THEN Check(@, late) ELSE @] = Known
    BY <1>1, <1>2 DEF KnownType
  <2>2. mn = NoEntry
    BY <1>2 DEF Listed
  <2>3. Kept(late) = Known
    BY <1>1, <2>1, <2>2 DEF Kept, RemoveSpent
  <2>4. QED BY <1>1, <2>2, <2>3
<1>3. CASE Listed
  <2>1. mn \in EntryType /\ mn.sig \in Broadcast
    BY <1>3, ListedEntry
  <2>2. PICK e : e = Check(mn, late)
    OBVIOUS
  <2>3. e \in EntryType /\ e.sig = mn.sig /\ e # NoEntry
    BY <2>1, <2>2, CheckKeeps, EntryIsListed
  <2>4. PICK k : k = [Known EXCEPT !.mn = e]
    OBVIOUS
  <2>5. k \in KnownType /\ k.mn = e /\ k.seen = seen /\ k.lost = lost
    BY <1>1, <2>3, <2>4, KnownUpdates
  <2>6. Kept(late) = RemoveSpent(k)
    BY <1>1, <1>3, <2>2, <2>4 DEF Kept, KnownType
  <2>7. CASE e.state = "OUTPOINT_SPENT"
    <3>1. PICK sn : sn = [seen EXCEPT ![mn.sig] = Unseen]
      OBVIOUS
    <3>2. sn \in SeenType
      BY <1>1, <2>1, <3>1, SeenUpdates
    <3>3. Kept(late) = [k EXCEPT !.mn = NoEntry, !.seen = sn]
      BY <2>3, <2>5, <2>6, <2>7, <3>1 DEF RemoveSpent, KnownType
    <3>4. Kept(late) \in KnownType /\ Kept(late).mn = NoEntry
      BY <2>5, <3>2, <3>3 DEF KnownType
    <3>5. QED BY <2>1, <2>2, <2>7, <3>4 DEF EntryIsSeen
  <2>8. CASE e.state # "OUTPOINT_SPENT"
    <3>1. Kept(late) = k
      BY <2>5, <2>6, <2>8 DEF RemoveSpent
    <3>2. EntryIsSeen(k)
      BY <1>1, <1>3, <2>3, <2>5 DEF EntryIsSeen, Listed
    <3>3. QED BY <2>1, <2>2, <2>5, <3>1, <3>2
  <2>9. QED BY <2>7, <2>8
<1>4. QED BY <1>2, <1>3

\* A request is new, or the one there was.
LEMMA AskedCases ==
  ASSUME Inv, NEW e \in EntryType \cup {NoEntry}, NEW peers \in SUBSET Peer
  PROVE  /\ Asked(e, peers) \in [Broadcast -> RequestType]
         /\ \A b \in Broadcast :
              Asked(e, peers)[b] = request[b] \/ request[b] = NoRequest
<1>1. request \in [Broadcast -> RequestType]
  BY DEF Inv, RecoveryTypes
<1>2. CASE ~AsksForRecovery(e)
  BY <1>1, <1>2 DEF Asked
<1>3. CASE AsksForRecovery(e)
  <2>1. e.sig \in Broadcast /\ request[e.sig] = NoRequest
    BY <1>3, EntryIsListed DEF AsksForRecovery
  <2>2. PICK r : r = [age |-> 0, left |-> peers]
    OBVIOUS
  <2>3. r \in RequestType
    BY <2>2, ConstantTypes DEF RequestType
  <2>4. Asked(e, peers) = [request EXCEPT ![e.sig] = r]
    BY <1>3, <2>2 DEF Asked
  <2>5. QED BY <1>1, <2>1, <2>3, <2>4
<1>4. QED BY <1>2, <1>3

LEMMA AnsweredIsFinite ==
  ASSUME NEW req
  PROVE  IsFiniteSet(Answered(req)) /\ Answered(req) \subseteq Broadcast
<1>1. IsFiniteSet(Broadcast)
  BY ConstantTypes, FS_Interval DEF Broadcast
<1>2. Answered(req) \subseteq Broadcast
  BY DEF Answered
<1>3. QED BY <1>1, <1>2, FS_Subset

\* What is known after the replies is what is known before them, or follows from
\* a broadcast that QUORUM_REQUIRED peers have sent.
LEMMA ReprocessCases ==
  ASSUME Inv, NEW l, NEW b \in Broadcast, NEW late
  PROVE  \/ Reprocess(l, b, late) = l
         \/ /\ replies[b].count >= QUORUM_REQUIRED /\ replies[b].first \in PingType
            /\ Reprocess(l, b, late) = ProcessBroadcast(l, b, replies[b].first, TRUE, late)
<1>1. replies[b].first \in PingType
  BY DEF Inv, RecoveryTypes, ReplyType
<1>2. QED BY <1>1 DEF Reprocess

LEMMA CheckAndRemoveStep ==
  ASSUME Inv, CheckAndRemove
  PROVE  Inv'
<1>1. PICK late \in LateVote, peers \in {S \in SUBSET Peer : Cardinality(S) <= QUORUM_TOTAL} :
        LET req == Asked(Kept(late).mn, peers)
        IN  /\ Becomes(ReprocessAll(Kept(late), Answered(req), late))
            /\ replies' = [b \in Broadcast |-> IF b \in Answered(req) THEN NoReplies ELSE replies[b]]
            /\ request' = [b \in Broadcast |-> IF req[b].age > RETRY THEN NoRequest ELSE req[b]]
  BY DEF CheckAndRemove, Kept
<1>2. PICK req : req = Asked(Kept(late).mn, peers)
  OBVIOUS
<1>3. Kept(late) \in KnownType /\ EntryIsSeen(Kept(late))
  BY KeptCases
<1>4. /\ req \in [Broadcast -> RequestType]
      /\ \A b \in Broadcast : req[b] = request[b] \/ request[b] = NoRequest
  BY <1>2, <1>3, AskedCases DEF KnownType
<1>5. PICK k : k = ReprocessAll(Kept(late), Answered(req), late)
  OBVIOUS
<1>6. k \in KnownType /\ EntryIsSeen(k)
  <2> DEFINE D == {l \in KnownType : EntryIsSeen(l)}
  <2>1. ASSUME NEW l \in D, NEW b \in Answered(req) PROVE Reprocess(l, b, late) \in D
    <3>1. b \in Broadcast /\ l \in KnownType /\ EntryIsSeen(l)
      BY AnsweredIsFinite
    <3>2. PICK ping : ping = replies[b].first
      OBVIOUS
    <3>3. CASE Reprocess(l, b, late) = l
      BY <3>3
    <3>4. CASE ping \in PingType /\ Reprocess(l, b, late) = ProcessBroadcast(l, b, ping, TRUE, late)
      BY <3>1, <3>4, ProcessBroadcastSeen
    <3>5. QED BY <3>1, <3>2, <3>3, <3>4, ReprocessCases
  <2>2. Kept(late) \in D
    BY <1>3
  <2> HIDE DEF D
  <2>3. k \in D
    BY <1>5, <2>1, <2>2, AnsweredIsFinite, ReprocessAllStays
  <2>4. QED BY <2>3 DEF D
<1>7. Becomes(k)
  BY <1>1, <1>2, <1>5
<1>8. Known' \in KnownType' /\ EntryIsSeen(Known)'
  <2>1. Known' = [mn |-> k.mn, seen |-> k.seen, lost |-> k.lost]
    BY <1>7 DEF Known, Becomes
  <2>2. [mn |-> k.mn, seen |-> k.seen, lost |-> k.lost] = k
    BY <1>6 DEF KnownType
  <2>3. QED BY <1>6, <2>1, <2>2 DEF KnownType, EntryIsSeen
<1>9. RecoveryTypes'
  <2>1. replies \in [Broadcast -> ReplyType]
    BY DEF Inv, RecoveryTypes
  <2>2. QED BY <1>1, <1>2, <1>4, <2>1, NothingAsked DEF RecoveryTypes
<1>10. RepliesAreAsked'
  <2> SUFFICES ASSUME NEW b \in Broadcast, replies'[b] # NoReplies
               PROVE  request'[b] # NoRequest /\ replies'[b].from \cap request'[b].left = {}
    BY DEF RepliesAreAsked, NoReplies, NoRequest
  <2>1. b \notin Answered(req) /\ replies'[b] = replies[b]
    BY <1>1, <1>2
  <2>2. replies[b] # NoReplies /\ req[b].age = 0
    BY <2>1 DEF Answered
  <2>3. request[b] # NoRequest /\ replies[b].from \cap request[b].left = {}
    BY <2>2 DEF Inv, RepliesAreAsked
  <2>4. request'[b] = req[b]
    BY <1>1, <1>2, <2>2, ConstantTypes
  <2>5. QED BY <1>4, <2>1, <2>3, <2>4
<1>11. OwnerTypes'
  BY OwnerTypesStay DEF CheckAndRemove
<1>12. QED BY <1>8, <1>9, <1>10, <1>11 DEF Inv

-----------------------------------------------------------------------------
(* Proof of service, restarts, the chain, the owner and time *)

LEMMA VerificationStep ==
  ASSUME Inv, FailVerification \/ PassVerification
  PROVE  Inv'
<1>1. mn \in EntryType /\ Listed
  BY ListedEntry DEF FailVerification, PassVerification
<1>2. mn.score \in -MAX_SCORE .. MAX_SCORE
  BY <1>1 DEF EntryType
<1>3. PICK sc : sc = IF FailVerification THEN IncreasePoSeBanScore(mn.score)
                                         ELSE DecreasePoSeBanScore(mn.score)
  OBVIOUS
<1>4. sc \in -MAX_SCORE .. MAX_SCORE
  BY <1>2, <1>3, ScoreTypes
<1>5. mn' = [mn EXCEPT !.score = sc]
  BY <1>1, <1>3 DEF FailVerification, PassVerification, EntryType
<1>6. mn' \in EntryType /\ mn'.sig = mn.sig
  BY <1>1, <1>4, <1>5 DEF EntryType
<1>7. OwnerTypes'
  BY ConstantTypes DEF Inv, OwnerTypes, ownerVars, FailVerification, PassVerification, Fault
<1>8. QED BY <1>1, <1>6, <1>7, OnlyEntryChanges DEF FailVerification, PassVerification

LEMMA RestartStep ==
  ASSUME Inv, Restart
  PROVE  Inv'
<1>1. OwnerTypes'
  <2>1. sentSeen' \in BOOLEAN
    <3>1. sentSeen \in BOOLEAN /\ (sentSeen' = sentSeen \/ sentSeen' = FALSE)
      BY DEF Inv, OwnerTypes, Restart
    <3>2. QED BY <3>1
  <2>2. QED BY <2>1, ConstantTypes DEF Inv, OwnerTypes, ownerVars, Restart, Fault
<1>2. CASE UNCHANGED <<mn, seen, request, replies, lost>>
  BY <1>1, <1>2 DEF Inv, Known, KnownType, EntryIsSeen, RecoveryTypes, RepliesAreAsked
<1>3. CASE /\ mn' = NoEntry /\ lost' = {}
           /\ seen' = [b \in Broadcast |-> Unseen]
           /\ request' = [b \in Broadcast |-> NoRequest]
           /\ replies' = [b \in Broadcast |-> NoReplies]
  <2>1. Known' \in KnownType' /\ EntryIsSeen(Known)'
    BY <1>3 DEF Known, KnownType, SeenType, EntryIsSeen
  <2>2. RecoveryTypes'
    BY <1>3, NothingAsked DEF RecoveryTypes
  <2>3. RepliesAreAsked'
    BY <1>3 DEF RepliesAreAsked
  <2>4. QED BY <1>1, <2>1, <2>2, <2>3 DEF Inv
<1>4. QED BY <1>2, <1>3 DEF Restart

LEMMA KnowledgeStays ==
  ASSUME Inv, OwnerTypes', UNCHANGED <<mn, seen, lost, request, replies>>
  PROVE  Inv'
BY DEF Inv, Known, KnownType, EntryIsSeen, RecoveryTypes, RepliesAreAsked

LEMMA BlockStep ==
  ASSUME Inv, Block
  PROVE  Inv'
<1>1. OwnerTypes'
  BY DEF Inv, OwnerTypes, ownerVars, Block
<1>2. CASE mn' = mn
  BY <1>1, <1>2, KnowledgeStays DEF Block
<1>3. CASE mn' # mn
  <2>1. Listed /\ mn.banLeft > 0 /\ mn' = [mn EXCEPT !.banLeft = @ - 1]
    BY <1>3 DEF Block
  <2>2. mn \in EntryType
    BY <2>1, ListedEntry
  <2>3. mn.banLeft - 1 \in 0 .. BAN
    BY <2>1, <2>2, ConstantTypes DEF EntryType
  <2>4. mn' \in EntryType /\ mn'.sig = mn.sig
    BY <2>1, <2>2, <2>3 DEF EntryType
  <2>5. QED BY <1>1, <2>1, <2>4, OnlyEntryChanges DEF Block
<1>4. QED BY <1>2, <1>3

\* The newest mature broadcast exists.
LEMMA MatureType ==
  ASSUME OwnerTypes
  PROVE  Mature \in 0 .. MaxBroadcasts
<1> DEFINE S == {0} \cup {b \in 1 .. published : bAge[b] >= MIN_MNP}
           T == {MaxBroadcasts - x : x \in S}
<1>1. published \in 0 .. MaxBroadcasts /\ MaxBroadcasts \in Nat
  BY ConstantTypes DEF OwnerTypes
<1>2. S \subseteq 0 .. MaxBroadcasts /\ 0 \in S
  BY <1>1
<1>3. Mature = (CHOOSE x \in S : \A y \in S : x >= y)
  BY DEF Mature, Max
<1> HIDE DEF S
<1>4. T \in SUBSET Nat /\ T # {}
  BY <1>1, <1>2
<1>5. PICK n \in T : \A k \in T : ~(k < n)
  <2> HIDE DEF T
  <2>1. QED BY <1>4, LeastNumber
<1>6. PICK x \in S : n = MaxBroadcasts - x
  OBVIOUS
<1>7. \A y \in S : x >= y
  <2> SUFFICES ASSUME NEW y \in S PROVE x >= y
    OBVIOUS
  <2>1. MaxBroadcasts - y \in T
    OBVIOUS
  <2>2. ~(MaxBroadcasts - y < n)
    BY <1>5, <2>1
  <2>3. QED BY <1>1, <1>2, <1>6, <2>2
<1>8. (CHOOSE z \in S : \A y \in S : z >= y) \in S
  BY <1>7
<1>9. QED BY <1>2, <1>3, <1>8

LEMMA SendStep ==
  ASSUME Inv, SendPing \/ SendBroadcast
  PROVE  Inv'
<1>1. OwnerTypes
  BY DEF Inv
<1>2. sent' = [age |-> 0, mature |-> Mature] /\ sentSeen' = FALSE
  BY DEF SendPing, SendBroadcast
<1>3. sent' \in PingType
  BY <1>1, <1>2, MatureType, ConstantTypes DEF PingType
<1>4. published' \in 0 .. MaxBroadcasts /\ bAge' \in [Broadcast -> 0 .. MIN_MNP]
  BY <1>1, ConstantTypes DEF SendPing, SendBroadcast, OwnerTypes
<1>5. OwnerTypes'
  BY <1>1, <1>2, <1>3, <1>4 DEF SendPing, SendBroadcast, OwnerTypes
<1>6. QED BY <1>5, KnowledgeStays DEF SendPing, SendBroadcast

LEMMA OlderType ==
  ASSUME NEW limit \in Nat, NEW age \in -1 .. limit
  PROVE  /\ Older(age, limit) \in 0 .. limit
         /\ age \in 0 .. limit => Older(age, limit) >= age
BY DEF Older

LEMMA TickStep ==
  ASSUME Inv, Tick
  PROVE  Inv'
<1>1. /\ OwnerTypes /\ mn \in EntryType \cup {NoEntry} /\ seen \in SeenType /\ lost \subseteq Broadcast
      /\ request \in [Broadcast -> RequestType] /\ replies \in [Broadcast -> ReplyType]
      /\ ListedIsSeen /\ RepliesAreAsked
  BY KnownParts DEF Inv, RecoveryTypes
<1>2. OwnerTypes'
  <2>1. bAge' \in [Broadcast -> 0 .. MIN_MNP]
    <3>1. \A b \in Broadcast : Older(bAge[b], MIN_MNP) \in 0 .. MIN_MNP /\ 0 \in 0 .. MIN_MNP
      BY <1>1, ConstantTypes, OlderType DEF OwnerTypes
    <3>2. QED BY <3>1 DEF Tick
  <2>2. sent' \in PingType
    <3>1. sent \in PingType /\ Older(sent.age, NEW_START) \in 0 .. NEW_START
      BY <1>1, ConstantTypes, OlderType DEF OwnerTypes, PingType
    <3>2. QED BY <3>1 DEF Tick, PingType
  <2>3. QED BY <1>1, <2>1, <2>2 DEF Tick, OwnerTypes
<1>3. /\ mn' \in EntryType \cup {NoEntry} /\ mn'.sig = mn.sig
      /\ mn' # NoEntry => mn # NoEntry
  <2>1. CASE Listed
    <3>1. mn \in EntryType
      BY <1>1, <2>1 DEF Listed
    <3>2. PICK ping : ping = [mn.ping EXCEPT !.age = Older(@, NEW_START)]
      OBVIOUS
    <3>3. mn.ping \in PingType /\ Older(mn.ping.age, NEW_START) \in 0 .. NEW_START
      <4>1. mn.ping \in PingType
        BY <3>1 DEF EntryType
      <4>2. mn.ping.age \in 0 .. NEW_START
        BY <4>1 DEF PingType
      <4>3. NEW_START \in Nat /\ mn.ping.age \in -1 .. NEW_START
        BY <4>2, ConstantTypes
      <4>4. QED BY <4>1, <4>2, <4>3, OlderType
    <3>4. ping \in PingType
      <4>1. /\ mn.ping = [age |-> mn.ping.age, mature |-> mn.ping.mature]
            /\ mn.ping.mature \in 0 .. MaxBroadcasts
        BY <3>3 DEF PingType
      <4>2. ping = [age |-> Older(mn.ping.age, NEW_START), mature |-> mn.ping.mature]
        BY <3>2, <4>1
      <4>3. QED BY <3>3, <4>1, <4>2 DEF PingType
    <3>5. mn' = [mn EXCEPT !.ping = ping, !.checked = FALSE]
      BY <2>1, <3>1, <3>2 DEF Tick, EntryType
    <3>6. mn' \in EntryType /\ mn'.sig = mn.sig
      BY <3>1, <3>4, <3>5 DEF EntryType
    <3>7. QED BY <2>1, <3>6 DEF Listed
  <2>2. CASE ~Listed
    BY <1>1, <2>2 DEF Tick, Listed
  <2>3. QED BY <2>1, <2>2
<1>4. seen' \in SeenType /\ \A b \in Broadcast : seen[b] # Unseen => seen'[b] # Unseen
  <2>1. \A b \in Broadcast : seen[b] # Unseen => Older(seen[b], NEW_START) \in 0 .. NEW_START
    BY <1>1, ConstantTypes, OlderType DEF SeenType
  <2>2. QED BY <1>1, <2>1, AgesAreSeen DEF Tick, SeenType
<1>5. Known' \in KnownType' /\ EntryIsSeen(Known)'
  <2>1. lost' = lost
    BY DEF Tick
  <2>2. mn' # NoEntry => mn.sig \in Broadcast /\ mn \in EntryType
    BY <1>1, <1>3, EntryIsListed
  <2>3. mn' # NoEntry => seen'[mn'.sig] # Unseen \/ \E b \in lost' : b > mn'.sig
    BY <1>1, <1>3, <1>4, <2>1, <2>2 DEF ListedIsSeen, Listed
  <2>4. Known'.mn = mn' /\ Known'.seen = seen' /\ Known'.lost = lost'
    BY DEF Known
  <2>5. Known' \in KnownType'
    BY <1>1, <1>3, <1>4, <2>1 DEF Known, KnownType, SeenType
  <2>6. QED BY <2>3, <2>4, <2>5 DEF EntryIsSeen
<1>6. /\ request' \in [Broadcast -> RequestType]
      /\ \A b \in Broadcast : /\ request'[b].left = request[b].left
                              /\ request[b] # NoRequest => request'[b] # NoRequest
  <2> DEFINE older(b) == [request[b] EXCEPT !.age = Older(@, RETRY + 1)]
  <2>1. ASSUME NEW b \in Broadcast
        PROVE  /\ older(b) \in RequestType /\ older(b).left = request[b].left
               /\ older(b) # NoRequest
    <3>1. request[b] \in RequestType /\ Older(request[b].age, RETRY + 1) \in 0 .. RETRY + 1
      BY <1>1, ConstantTypes, OlderType DEF RequestType
    <3>2. PICK r : r = request[b]
      OBVIOUS
    <3>3. PICK age : age = Older(request[b].age, RETRY + 1)
      OBVIOUS
    <3>4. older(b) = [r EXCEPT !.age = age]
      BY <3>1, <3>2, <3>3 DEF RequestType
    <3>5. age \in -1 .. RETRY + 1 /\ age # -1
      BY <3>1, <3>3, ConstantTypes
    <3>6. [r EXCEPT !.age = age] \in RequestType /\ [r EXCEPT !.age = age].left = r.left
          /\ [r EXCEPT !.age = age].age = age
      BY <3>1, <3>2, <3>5 DEF RequestType
    <3>7. NoRequest.age = -1
      BY DEF NoRequest
    <3>8. QED BY <3>2, <3>4, <3>5, <3>6, <3>7
  <2>2. request' = [b \in Broadcast |-> IF request[b] = NoRequest THEN NoRequest ELSE older(b)]
    BY DEF Tick
  <2> HIDE DEF older
  <2>3. QED BY <1>1, <2>1, <2>2, NothingAsked
<1>7. /\ replies' \in [Broadcast -> ReplyType]
      /\ \A b \in Broadcast : /\ replies'[b].from = replies[b].from
                              /\ replies[b] = NoReplies => replies'[b] = NoReplies
  <2> DEFINE older(b) == [replies[b] EXCEPT !.first.age = Older(@, NEW_START)]
  <2>1. ASSUME NEW b \in Broadcast
        PROVE  older(b) \in ReplyType /\ older(b).from = replies[b].from
    <3>1. PICK r : r = replies[b]
      OBVIOUS
    <3>2. r \in ReplyType /\ r.first \in PingType
          /\ r \in [count : Nat, first : PingType, from : SUBSET Peer]
      BY <1>1, <3>1 DEF ReplyType
    <3>3. PICK f : f = [r.first EXCEPT !.age = Older(@, NEW_START)]
      OBVIOUS
    <3>4. f \in PingType
      <4>1. Older(r.first.age, NEW_START) \in 0 .. NEW_START
        BY <3>2, ConstantTypes, OlderType DEF PingType
      <4>2. QED BY <3>2, <3>3, <4>1 DEF PingType
    <3>5. older(b) = [r EXCEPT !.first = f]
      BY <3>1, <3>2, <3>3
    <3>6. /\ [r EXCEPT !.first = f] \in [count : Nat, first : PingType, from : SUBSET Peer]
          /\ [r EXCEPT !.first = f].from = r.from /\ [r EXCEPT !.first = f].count = r.count
      BY <3>2, <3>4
    <3>7. QED BY <3>1, <3>2, <3>5, <3>6 DEF ReplyType
  <2>2. replies' = [b \in Broadcast |-> IF replies[b] = NoReplies THEN NoReplies ELSE older(b)]
    BY DEF Tick
  <2> HIDE DEF older
  <2>3. QED BY <1>1, <2>1, <2>2, NothingAsked
<1>8. RecoveryTypes' /\ RepliesAreAsked'
  BY <1>1, <1>6, <1>7 DEF RecoveryTypes, RepliesAreAsked, NoRequest, NoReplies
<1>9. QED BY <1>2, <1>5, <1>8 DEF Inv

LEMMA InitInv == Init => Inv
<1> SUFFICES ASSUME Init PROVE Inv
  OBVIOUS
<1>1. OwnerTypes
  <2>1. sent \in PingType
    BY ConstantTypes DEF Init, PingType
  <2>2. sentSeen \in BOOLEAN
    BY DEF Init
  <2>3. QED BY <2>1, <2>2, ConstantTypes DEF Init, OwnerTypes
<1>2. Known \in KnownType /\ EntryIsSeen(Known)
  BY DEF Init, Known, KnownType, SeenType, EntryIsSeen
<1>3. RecoveryTypes /\ RepliesAreAsked
  BY NothingAsked DEF Init, RecoveryTypes, RepliesAreAsked
<1>4. QED BY <1>1, <1>2, <1>3 DEF Inv

LEMMA NextInv ==
  ASSUME Inv, [Next]_vars
  PROVE  Inv'
<1>1. CASE Message
  BY <1>1, ReceiveBroadcastStep, ReceivePingStep, AnswerListRequestStep DEF Message
<1>2. CASE \E p \in Peer, b \in Broadcast : ReceiveRecoveryReply(p, b)
  BY <1>2, ReceiveRecoveryReplyStep
<1>3. CASE CheckMasternode \/ CheckAgainSoon \/ CheckAndRemove
  BY <1>3, CheckMasternodeStep, CheckAgainSoonStep, CheckAndRemoveStep
<1>4. CASE FailVerification \/ PassVerification
  BY <1>4, VerificationStep
<1>5. CASE Restart
  BY <1>5, RestartStep
<1>6. CASE SyncProgress \/ Disconnect
  <2>1. OwnerTypes'
    BY <1>6, ConstantTypes DEF Inv, OwnerTypes, ownerVars, SyncProgress, Disconnect, Fault
  <2>2. QED BY <1>6, <2>1, KnowledgeStays DEF SyncProgress, Disconnect
<1>7. CASE Block
  BY <1>7, BlockStep
<1>8. CASE SendPing \/ SendBroadcast
  BY <1>8, SendStep
<1>9. CASE Tick
  BY <1>9, TickStep
<1>10. CASE UNCHANGED vars
  BY <1>10 DEF vars, ownerVars, Inv, OwnerTypes, Known, KnownType, EntryIsSeen, RecoveryTypes,
               RepliesAreAsked
<1>11. QED
  BY <1>1, <1>2, <1>3, <1>4, <1>5, <1>6, <1>7, <1>8, <1>9, <1>10 DEF Next

LEMMA Invariant == Spec => []Inv
BY InitInv, NextInv, PTL DEF Spec

\* Every reachable state has its type, and the replies that the recovery counts come
\* from that many different peers, although a broadcast is asked for again and again.
THEOREM TypeCorrect == Spec => []TypeOK
BY Invariant, InvGives, PTL

\* A listed masternode can be fetched from this node, whatever is updated, removed,
\* reprocessed or erased in between, in any order of the replies.
THEOREM ListedStaysSeen == Spec => []ListedIsSeen
BY Invariant, InvGives, PTL

-----------------------------------------------------------------------------
(* Bans and recoveries *)

\* A check does not bring it back: the collateral is gone, or the ban is not served.
Settled(e) == e.state = "OUTPOINT_SPENT" \/ (e.state = "POSE_BAN" /\ e.banLeft > 0)

\* Nor this one: it was given up and there is no ping.
GivenUp(e) == Settled(e) \/ (e.state = "NEW_START_REQUIRED" /\ e.ping.age >= NEW_START)

LEMMA CheckAgainBringsNobodyBack ==
  ASSUME NEW e \in EntryType, NEW late
  PROVE  /\ Settled(e) => Settled(CheckAgain(e, late))
         /\ GivenUp(e) => GivenUp(CheckAgain(e, late))
         /\ GivenUp(e) /\ e.state # "OUTPOINT_SPENT" /\ collateral # "missing" =>
              CheckAgain(e, late).state # "OUTPOINT_SPENT"
<1>1. CASE e.state = "OUTPOINT_SPENT"
  BY <1>1 DEF CheckAgain, Settled, GivenUp
<1>2. CASE e.state # "OUTPOINT_SPENT" /\ collateral = "missing"
  <2>1. CheckAgain(e, late).state = "OUTPOINT_SPENT"
    BY <1>2 DEF CheckAgain, EntryType
  <2>2. QED BY <1>2, <2>1 DEF Settled, GivenUp
<1>3. CASE e.state = "POSE_BAN" /\ collateral # "missing"
  <2>1. CASE e.banLeft > 0
    BY <1>3, <2>1 DEF CheckAgain, Settled, GivenUp
  <2>2. CASE ~(e.banLeft > 0)
    BY <1>3, <2>2 DEF Settled, GivenUp
  <2>3. QED BY <2>1, <2>2
<1>4. CASE e.state = "NEW_START_REQUIRED" /\ e.ping.age >= NEW_START /\ collateral # "missing"
  <2>1. CASE e.score >= MAX_SCORE
    <3>1. CheckAgain(e, late) = [e EXCEPT !.state = "POSE_BAN", !.banLeft = BAN]
      BY <1>4, <2>1 DEF CheckAgain
    <3>2. CheckAgain(e, late).state = "POSE_BAN" /\ CheckAgain(e, late).banLeft = BAN
      BY <3>1 DEF EntryType
    <3>3. QED BY <1>4, <3>2, ConstantTypes DEF Settled, GivenUp
  <2>2. CASE ~(e.score >= MAX_SCORE)
    <3>1. CheckAgain(e, late) = [e EXCEPT !.state = StateByPing(e, late)]
      BY <1>4, <2>2 DEF CheckAgain
    <3>2. ~PingedWithin(e.ping, NEW_START)
      <4>1. e.ping.age \in Nat
        BY DEF EntryType, PingType
      <4>2. QED BY <1>4, <4>1, ConstantTypes DEF PingedWithin
    <3>3. StateByPing(e, late) = "NEW_START_REQUIRED"
      BY <1>4, <3>2 DEF StateByPing
    <3>4. CheckAgain(e, late).state = "NEW_START_REQUIRED" /\ CheckAgain(e, late).ping = e.ping
      BY <3>1, <3>3 DEF EntryType
    <3>5. QED BY <1>4, <3>4 DEF Settled, GivenUp
  <2>3. QED BY <2>1, <2>2
<1>5. QED BY <1>1, <1>2, <1>3, <1>4 DEF Settled, GivenUp

LEMMA CheckBringsNobodyBack ==
  ASSUME NEW e \in EntryType, NEW late, NEW f \in {Check(e, late), ForcedCheck(e, late)}
  PROVE  /\ Settled(e) => Settled(f)
         /\ GivenUp(e) => GivenUp(f)
         /\ GivenUp(e) /\ e.state # "OUTPOINT_SPENT" /\ f.state = "OUTPOINT_SPENT" =>
              collateral = "missing"
<1>1. PICK a : a = CheckAgain(e, late)
  OBVIOUS
<1>2. f = e \/ (f.state = a.state /\ f.banLeft = a.banLeft /\ f.ping = a.ping)
  BY <1>1, CheckKeeps, CheckAgainKeeps DEF Check
<1>3. CASE f = e
  BY <1>3
<1>4. CASE f.state = a.state /\ f.banLeft = a.banLeft /\ f.ping = a.ping
  BY <1>1, <1>4, CheckAgainBringsNobodyBack DEF Settled, GivenUp
<1>5. QED BY <1>2, <1>3, <1>4

\* What a broadcast does to a masternode that is spent, or banned for some blocks.
LEMMA BroadcastEndsNoBan ==
  ASSUME NEW l \in KnownType, NEW b \in Broadcast,
         NEW ping \in PingType, NEW recovery \in BOOLEAN, NEW late,
         \/ l.mn = NoEntry /\ collateral = "missing"
         \/ l.mn \in EntryType /\ Settled(l.mn)
  PROVE  LET k == ProcessBroadcast(l, b, ping, recovery, late)
         IN  \/ k.mn = NoEntry /\ collateral = "missing"
             \/ k.mn \in EntryType /\ Settled(k.mn)
<1>1. PICK k : k = ProcessBroadcast(l, b, ping, recovery, late)
  OBVIOUS
<1> SUFFICES \/ k.mn = NoEntry /\ collateral = "missing"
             \/ k.mn \in EntryType /\ Settled(k.mn)
  BY <1>1
<1>2. ~Added(l, b, k)
  BY EntryIsListed DEF Added
<1>3. CASE NotAdded(l, k)
  BY <1>3, EntryIsListed DEF NotAdded
<1>4. CASE NotNewer(l, b, recovery, k)
  BY <1>4, EntryIsListed DEF NotNewer
<1>5. CASE OnlyChecked(l, b, recovery, late, k)
  BY <1>5, EntryIsListed, CheckKeeps, CheckBringsNobodyBack DEF OnlyChecked
<1>6. CASE Updated(l, b, recovery, late, k)
  <2>1. l.mn \in EntryType /\ Settled(l.mn)
    BY <1>6, EntryIsListed DEF Updated
  <2>2. Check(l.mn, late).state = "OUTPOINT_SPENT"
    BY <1>6, <2>1, CheckBringsNobodyBack DEF Updated, Settled
  <2>3. PICK e \in EntryType : e.state = "OUTPOINT_SPENT" /\ k.mn = ForcedCheck(e, late)
    BY <1>6, <2>2 DEF Updated
  <2>4. Settled(e)
    BY <2>3 DEF Settled
  <2>5. QED BY <2>3, <2>4, CheckKeeps, CheckBringsNobodyBack
<1>7. QED BY <1>1, <1>2, <1>3, <1>4, <1>5, <1>6, ProcessBroadcastCases

\* The masternode was given up with broadcast s and is still, or it came back as it should.
Quorum(s) == Cardinality(replies[s].from) >= QUORUM_REQUIRED

ComesBackRightly(s, l) ==
  \/ l.mn = NoEntry /\ collateral = "missing"
  \/ /\ l.mn \in EntryType
     /\ l.mn.sig > s \/ (l.mn.sig = s /\ (Quorum(s) \/ GivenUp(l.mn)))

LEMMA BroadcastNeedsQuorum ==
  ASSUME NEW l \in KnownType, NEW s \in Broadcast, ComesBackRightly(s, l), NEW b \in Broadcast,
         NEW ping \in PingType, NEW recovery \in BOOLEAN, NEW late,
         b = s /\ recovery => Quorum(s)
  PROVE  ComesBackRightly(s, ProcessBroadcast(l, b, ping, recovery, late))
<1>1. PICK k : k = ProcessBroadcast(l, b, ping, recovery, late)
  OBVIOUS
<1>2. Broadcast \subseteq Nat
  BY ConstantTypes DEF Broadcast
<1> SUFFICES ComesBackRightly(s, k)
  BY <1>1
<1>3. ~Added(l, b, k)
  BY EntryIsListed DEF Added, ComesBackRightly
<1>4. CASE NotAdded(l, k)
  BY <1>4, EntryIsListed DEF NotAdded, ComesBackRightly
<1>5. CASE NotNewer(l, b, recovery, k)
  BY <1>5, EntryIsListed DEF NotNewer, ComesBackRightly
<1>6. CASE OnlyChecked(l, b, recovery, late, k)
  <2>1. /\ l.mn \in EntryType /\ k.mn \in EntryType /\ k.mn.sig = l.mn.sig
        /\ GivenUp(l.mn) => GivenUp(k.mn)
    BY <1>6, CheckKeeps, CheckBringsNobodyBack DEF OnlyChecked
  <2>2. QED BY <2>1, EntryIsListed DEF ComesBackRightly
<1>7. CASE Updated(l, b, recovery, late, k)
  <2>1. /\ l.mn \in EntryType /\ k.mn \in EntryType /\ k.mn.sig = b
        /\ b > l.mn.sig \/ (b = l.mn.sig /\ recovery)
    BY <1>7, CheckKeeps DEF Updated
  <2>2. l.mn.sig \in Broadcast /\ l.mn.sig >= s
    BY <1>2, <2>1, EntryIsListed DEF ComesBackRightly
  <2>3. b > s \/ (b = s /\ Quorum(s))
    BY <1>2, <2>1, <2>2
  <2>4. QED BY <2>1, <2>3 DEF ComesBackRightly
<1>8. QED BY <1>1, <1>3, <1>4, <1>5, <1>6, <1>7, ProcessBroadcastCases

\* What a step does to a listed masternode that stays listed: its state and broadcast
\* stay, it is checked (after a ping, unless it was given up), or broadcasts come.
LEMMA EntryAfterStep ==
  ASSUME Inv, [Next]_vars, Listed, mn' # NoEntry
  PROVE  \/ mn'.state = mn.state /\ mn'.sig = mn.sig
         \/ \E late : \E e \in EntryType :
              /\ e.sig = mn.sig /\ e.state = mn.state /\ e.banLeft = mn.banLeft
              /\ e.ping = mn.ping \/ mn.state # "NEW_START_REQUIRED"
              /\ mn' \in {Check(e, late), ForcedCheck(e, late)}
         \/ \E b \in Broadcast : ReceiveBroadcast(b)
         \/ CheckAndRemove
<1>1. mn \in EntryType
  BY ListedEntry
<1>2. CASE ReceivePing
  <2>1. CASE mn' = mn
    BY <2>1
  <2>2. CASE mn' # mn
    <3>1. PICK late : mn' = ForcedCheck([mn EXCEPT !.ping = sent], late)
      BY <1>2, <2>2 DEF ReceivePing
    <3>2. mn.state # "NEW_START_REQUIRED" /\ sent \in PingType
      BY <1>2, <2>2 DEF ReceivePing, RefusesPing, Inv, OwnerTypes
    <3>3. PICK e : e = [mn EXCEPT !.ping = sent]
      OBVIOUS
    <3>4. e \in EntryType /\ e.sig = mn.sig /\ e.state = mn.state /\ e.banLeft = mn.banLeft
      BY <1>1, <3>2, <3>3 DEF EntryType
    <3>5. QED BY <3>1, <3>2, <3>3, <3>4
  <2>3. QED BY <2>1, <2>2
<1>3. CASE CheckMasternode
  <2>1. CASE \E late \in LateVote : mn' = Check(mn, late)
    BY <1>1, <2>1
  <2>2. CASE mn' = [mn EXCEPT !.checked = TRUE]
    BY <1>1, <2>2 DEF EntryType
  <2>3. QED BY <1>3, <2>1, <2>2 DEF CheckMasternode
<1>4. CASE CheckAgainSoon \/ FailVerification \/ PassVerification \/ Block \/ Tick
  BY <1>1, <1>4 DEF CheckAgainSoon, FailVerification, PassVerification, Block, Tick, EntryType
<1>5. CASE Restart
  BY <1>5 DEF Restart
<1>6. CASE \/ AnswerListRequest \/ SyncProgress \/ Disconnect \/ SendPing \/ SendBroadcast
           \/ \E p \in Peer, b \in Broadcast : ReceiveRecoveryReply(p, b)
  BY <1>6 DEF AnswerListRequest, SyncProgress, Disconnect, SendPing, SendBroadcast,
              ReceiveRecoveryReply
<1>7. CASE UNCHANGED vars
  BY <1>7 DEF vars
<1>8. QED
  BY <1>2, <1>3, <1>4, <1>5, <1>6, <1>7 DEF Next, Message

\* What CheckAndRemove makes of what is known: anything that holds of it before the
\* replies and that no broadcast with a quorum takes away.
LEMMA CheckAndRemoveStays ==
  ASSUME Inv, CheckAndRemove, NEW D,
         \A late : Kept(late) \in D,
         \A late : \A l \in D, b \in Broadcast, ping \in PingType :
           replies[b].count >= QUORUM_REQUIRED =>
             ProcessBroadcast(l, b, ping, TRUE, late) \in D
  PROVE  \E k \in D : mn' = k.mn
<1>1. PICK late \in LateVote, peers \in {S \in SUBSET Peer : Cardinality(S) <= QUORUM_TOTAL} :
        Becomes(ReprocessAll(Kept(late), Answered(Asked(Kept(late).mn, peers)), late))
  BY DEF CheckAndRemove, Kept
<1>2. PICK bs : bs = Answered(Asked(Kept(late).mn, peers))
  OBVIOUS
<1>3. IsFiniteSet(bs) /\ bs \subseteq Broadcast
  BY <1>2, AnsweredIsFinite
<1>4. ASSUME NEW l \in D, NEW b \in bs PROVE Reprocess(l, b, late) \in D
  <2>1. PICK ping : ping = replies[b].first
    OBVIOUS
  <2>2. CASE Reprocess(l, b, late) = l
    BY <2>2
  <2>3. CASE /\ replies[b].count >= QUORUM_REQUIRED /\ ping \in PingType
             /\ Reprocess(l, b, late) = ProcessBroadcast(l, b, ping, TRUE, late)
    BY <1>3, <2>3
  <2>4. QED BY <1>3, <2>1, <2>2, <2>3, ReprocessCases
<1>5. ReprocessAll(Kept(late), bs, late) \in D
  BY <1>3, <1>4, ReprocessAllStays
<1>6. QED BY <1>1, <1>2, <1>5 DEF Becomes

LEMMA BanStays ==
  ASSUME Inv, [Next]_vars, Listed, mn.state = "POSE_BAN", mn.banLeft > 0, mn' # NoEntry
  PROVE  mn'.state \in {"POSE_BAN", "OUTPOINT_SPENT"}
<1>1. mn \in EntryType /\ Settled(mn)
  BY ListedEntry DEF Settled
<1>2. CASE mn'.state = mn.state /\ mn'.sig = mn.sig
  BY <1>2
<1>3. CASE \E late : \E e \in EntryType :
             /\ e.sig = mn.sig /\ e.state = mn.state /\ e.banLeft = mn.banLeft
             /\ e.ping = mn.ping \/ mn.state # "NEW_START_REQUIRED"
             /\ mn' \in {Check(e, late), ForcedCheck(e, late)}
  <2>0. PICK late : \E e \in EntryType : /\ e.state = mn.state /\ e.banLeft = mn.banLeft
                                         /\ mn' \in {Check(e, late), ForcedCheck(e, late)}
    BY <1>3
  <2>1. PICK e \in EntryType : /\ e.state = mn.state /\ e.banLeft = mn.banLeft
                               /\ mn' \in {Check(e, late), ForcedCheck(e, late)}
    BY <2>0
  <2>2. Settled(e)
    BY <2>1 DEF Settled
  <2>3. Settled(mn')
    BY <2>1, <2>2, CheckBringsNobodyBack
  <2>4. QED BY <2>3 DEF Settled
<1>4. CASE \E b \in Broadcast : ReceiveBroadcast(b)
  <2>1. PICK b \in Broadcast, late \in LateVote : Becomes(ProcessBroadcast(Known, b, sent, FALSE, late))
    BY <1>4 DEF ReceiveBroadcast
  <2>2. Known \in KnownType /\ Known.mn = mn /\ sent \in PingType
    BY KnownParts DEF Inv, OwnerTypes
  <2>3. mn' \in EntryType /\ Settled(mn')
    BY <1>1, <2>1, <2>2, BroadcastEndsNoBan DEF Becomes
  <2>4. QED BY <2>3 DEF Settled
<1>5. CASE CheckAndRemove
  <2> DEFINE D == {l \in KnownType : \/ l.mn = NoEntry /\ collateral = "missing"
                                     \/ l.mn \in EntryType /\ Settled(l.mn)}
  <2>1. ASSUME NEW late PROVE Kept(late) \in D
    <3>1. CASE Check(mn, late).state = "OUTPOINT_SPENT" /\ Kept(late).mn = NoEntry
      <4>1. collateral = "missing"
        BY <1>1, <3>1, CheckBringsNobodyBack DEF GivenUp
      <4>2. QED BY <3>1, <4>1, KeptCases
    <3>2. CASE Kept(late).mn = Check(mn, late)
      <4>1. Settled(Check(mn, late)) /\ Check(mn, late) \in EntryType
        BY <1>1, CheckKeeps, CheckBringsNobodyBack
      <4>2. QED BY <3>2, <4>1, KeptCases
    <3>3. QED BY <1>1, <3>1, <3>2, KeptCases, EntryIsListed
  <2>2. ASSUME NEW l \in D, NEW b \in Broadcast, NEW ping \in PingType, NEW late
        PROVE  ProcessBroadcast(l, b, ping, TRUE, late) \in D
    BY BroadcastEndsNoBan, ProcessBroadcastCases
  <2> HIDE DEF D
  <2>3. PICK k \in D : mn' = k.mn
    BY <1>5, <2>1, <2>2, CheckAndRemoveStays
  <2>4. mn' \in EntryType /\ Settled(mn')
    BY <2>3 DEF D
  <2>5. QED BY <2>4 DEF Settled
<1>6. QED BY <1>2, <1>3, <1>4, <1>5, EntryAfterStep

\* As long as blocks of a ban are left, nothing ends it: no ping, check, newer broadcast,
\* verification, recovery with its quorum or restart that keeps the list.
THEOREM BansAreServed == Spec => BanIsServed
<1>1. Inv /\ [Next]_vars =>
        [ (Listed /\ mn.state = "POSE_BAN" /\ mn.banLeft > 0 /\ mn' # NoEntry)
            => mn'.state \in {"POSE_BAN", "OUTPOINT_SPENT"} ]_vars
  BY BanStays
<1>2. QED BY <1>1, Invariant, PTL DEF Spec, BanIsServed

LEMMA ComesBackByQuorum ==
  ASSUME Inv, [Next]_vars, Listed, mn.state = "NEW_START_REQUIRED", mn.ping.age >= NEW_START,
         mn' # NoEntry, mn'.state \in Active \cup {"EXPIRED", "WATCHDOG_EXPIRED"}
  PROVE  mn'.sig > mn.sig \/ Quorum(mn.sig)
<1>1. mn \in EntryType /\ mn.sig \in Broadcast /\ GivenUp(mn)
  BY ListedEntry DEF GivenUp
<1>2. mn'.state \notin {"NEW_START_REQUIRED", "POSE_BAN", "OUTPOINT_SPENT"}
  BY DEF Active
<1>3. ~GivenUp(mn)'
  BY <1>2 DEF GivenUp, Settled
<1>4. PICK s : s = mn.sig
  OBVIOUS
<1>5. CASE mn'.state = mn.state /\ mn'.sig = mn.sig
  BY <1>2, <1>5
<1>6. CASE \E late : \E e \in EntryType :
             /\ e.sig = mn.sig /\ e.state = mn.state /\ e.banLeft = mn.banLeft
             /\ e.ping = mn.ping \/ mn.state # "NEW_START_REQUIRED"
             /\ mn' \in {Check(e, late), ForcedCheck(e, late)}
  <2>0. PICK late : \E e \in EntryType : /\ e.state = mn.state /\ e.ping = mn.ping
                                         /\ mn' \in {Check(e, late), ForcedCheck(e, late)}
    BY <1>6
  <2>1. PICK e \in EntryType : /\ e.state = mn.state /\ e.ping = mn.ping
                               /\ mn' \in {Check(e, late), ForcedCheck(e, late)}
    BY <2>0
  <2>2. GivenUp(e)
    BY <2>1 DEF GivenUp
  <2>3. GivenUp(mn')
    BY <2>1, <2>2, CheckBringsNobodyBack
  <2>4. QED BY <1>2, <2>3 DEF GivenUp, Settled
<1>7. CASE \E b \in Broadcast : ReceiveBroadcast(b)
  <2>1. PICK b \in Broadcast, late \in LateVote : Becomes(ProcessBroadcast(Known, b, sent, FALSE, late))
    BY <1>7 DEF ReceiveBroadcast
  <2>2. Known \in KnownType /\ Known.mn = mn /\ sent \in PingType
    BY KnownParts DEF Inv, OwnerTypes
  <2>3. ComesBackRightly(s, Known)
    BY <1>1, <1>4, <2>2 DEF ComesBackRightly
  <2>4. PICK k : k = ProcessBroadcast(Known, b, sent, FALSE, late)
    OBVIOUS
  <2>5. ComesBackRightly(s, k) /\ mn' = k.mn
    BY <1>1, <1>4, <2>1, <2>2, <2>3, <2>4, BroadcastNeedsQuorum DEF Becomes
  <2>6. QED BY <1>2, <1>4, <2>5 DEF ComesBackRightly, GivenUp, Settled
<1>8. CASE CheckAndRemove
  <2> DEFINE D == {l \in KnownType : ComesBackRightly(s, l)}
  <2>1. ASSUME NEW late PROVE Kept(late) \in D
    <3>1. CASE Check(mn, late).state = "OUTPOINT_SPENT" /\ Kept(late).mn = NoEntry
      <4>1. collateral = "missing"
        BY <1>1, <3>1, CheckBringsNobodyBack
      <4>2. QED BY <3>1, <4>1, KeptCases DEF ComesBackRightly
    <3>2. CASE Kept(late).mn = Check(mn, late)
      <4>1. /\ GivenUp(Check(mn, late)) /\ Check(mn, late) \in EntryType
            /\ Check(mn, late).sig = s
        BY <1>1, <1>4, CheckKeeps, CheckBringsNobodyBack
      <4>2. QED BY <3>2, <4>1, KeptCases DEF ComesBackRightly
    <3>3. QED BY <1>1, <3>1, <3>2, KeptCases, EntryIsListed
  <2>2. ASSUME NEW l \in D, NEW b \in Broadcast, NEW ping \in PingType, NEW late,
               replies[b].count >= QUORUM_REQUIRED
        PROVE  ProcessBroadcast(l, b, ping, TRUE, late) \in D
    <3>1. replies[b].count = Cardinality(replies[b].from)
      BY DEF Inv, RecoveryTypes, ReplyType
    <3>2. b = s => Quorum(s)
      BY <2>2, <3>1 DEF Quorum
    <3>3. QED BY <1>1, <1>4, <3>2, BroadcastNeedsQuorum, ProcessBroadcastCases
  <2> HIDE DEF D
  <2>3. PICK k \in D : mn' = k.mn
    BY <1>8, <2>1, <2>2, CheckAndRemoveStays
  <2>4. ComesBackRightly(s, k)
    BY <2>3 DEF D
  <2>5. QED BY <1>2, <1>4, <2>3, <2>4 DEF ComesBackRightly, GivenUp, Settled
<1>9. QED BY <1>5, <1>6, <1>7, <1>8, EntryAfterStep

\* A masternode that was given up comes back without a ping only by a newer broadcast or
\* by the answers of QUORUM_REQUIRED different peers: no order of broadcasts, replies
\* for several broadcasts, checks, removals and restarts is a shortcut.
THEOREM RecoveryNeedsQuorum == Spec => NewStartNeedsQuorum
<1>1. Inv /\ [Next]_vars =>
        [ (/\ Listed /\ mn.state = "NEW_START_REQUIRED" /\ mn.ping.age >= NEW_START
           /\ mn' # NoEntry /\ mn'.state \in Active \cup {"EXPIRED", "WATCHDOG_EXPIRED"})
          => \/ mn'.sig > mn.sig
             \/ Cardinality(replies[mn.sig].from) >= QUORUM_REQUIRED ]_vars
  BY ComesBackByQuorum DEF Quorum
<1>2. QED BY <1>1, Invariant, PTL DEF Spec, NewStartNeedsQuorum
=============================================================================
