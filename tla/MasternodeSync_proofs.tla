------------------------- MODULE MasternodeSync_proofs -------------------------
(***************************************************************************)
(* What the synchronisation guarantees for any set of peers and any        *)
(* timeouts, although its three threads have no lock: the variables keep   *)
(* their types, the maintenance thread does not run into the exception of  *)
(* SwitchToNextAsset, and the races of the tick with the block             *)
(* notification cost at most one asset its request.                        *)
(***************************************************************************)
EXTENDS MasternodeSync, WellFoundedInduction, NaturalsInduction, TLAPS

-----------------------------------------------------------------------------
(* Induction over numbers, with a set in place of a predicate *)

LEMMA LeastNumber ==
  ASSUME NEW S \in SUBSET Nat, S # {}
  PROVE  \E n \in S : \A k \in S : ~(k < n)
<1> DEFINE R == OpToRel(<, Nat)
<1>1. \A x, y \in Nat : y < x => <<y, x>> \in R
  BY DEF OpToRel
<1>2. IsWellFoundedOn(R, Nat)
  BY NatLessThanWellFounded
<1> HIDE DEF R
<1>3. PICK n \in S : \A k \in S : ~(<<k, n>> \in R)
  BY <1>2, WFMin
<1>4. QED BY <1>1, <1>3

LEMMA NumberInduction ==
  ASSUME NEW S \in SUBSET Nat, 0 \in S, \A n \in S : n + 1 \in S
  PROVE  \A n \in Nat : n \in S
<1> SUFFICES ASSUME Nat \ S # {} PROVE FALSE
  OBVIOUS
<1> DEFINE T == Nat \ S
<1>1. PICK n \in T : \A k \in T : ~(k < n)
  <2>1. T \in SUBSET Nat /\ T # {}
    OBVIOUS
  <2> HIDE DEF T
  <2>2. QED BY <2>1, LeastNumber
<1>2. n - 1 \in S
  BY <1>1
<1>3. (n - 1) + 1 = n
  BY <1>1
<1>4. n \in S
  BY <1>2, <1>3
<1>5. QED BY <1>1, <1>4

\* A set of positions has a last one.
LEMMA LastPosition ==
  ASSUME NEW n \in Nat, NEW s \in SUBSET (1 .. n), s # {}
  PROVE  Max(s) \in s /\ \A i \in s : i <= Max(s)
<1> DEFINE Back == {n - i : i \in s}
<1>0. \A i \in s : i \in Nat /\ n - i \in Nat
  OBVIOUS
<1>1. Back \in SUBSET Nat /\ Back # {}
  BY <1>0
<1>2. PICK b \in Back : \A k \in Back : ~(k < b)
  <2> HIDE DEF Back
  <2>1. QED BY <1>1, LeastNumber
<1>3. PICK i \in s : b = n - i
  BY <1>2
<1>4. \A j \in s : n - j \in Back
  OBVIOUS
<1>5. \A j \in s : i >= j
  <2> SUFFICES ASSUME NEW j \in s PROVE i >= j
    OBVIOUS
  <2>1. ~(n - j < n - i)
    BY <1>2, <1>3, <1>4
  <2>2. i \in Int /\ j \in Int
    BY <1>0
  <2>3. QED BY <2>1, <2>2
<1>6. \E x \in s : \A y \in s : x >= y
  BY <1>5
<1>7. Max(s) \in s /\ \A y \in s : Max(s) >= y
  BY <1>6 DEF Max
<1>8. QED BY <1>7

-----------------------------------------------------------------------------
(* The list of peers *)

\* What is kept of a list of peers is a list of peers.
LEMMA KeptArePeers ==
  ASSUME NEW nodes \in Seq(Peer), NEW S
  PROVE  Keep(nodes, S) \in Seq(Peer)
<1> DEFINE All == 1 .. Len(nodes)
           Take(kept, p) == IF p \in S THEN Append(kept, p) ELSE kept
           Fold(f, s) == IF s = {} THEN <<>> ELSE Take(f[s \ {Max(s)}], nodes[Max(s)])
           UpTo(n) == {s \in SUBSET All : \A i \in s : i <= n}
           F == CHOOSE f : f = [s \in SUBSET All |-> Fold(f, s)]
<1>1. DOMAIN nodes = All /\ Len(nodes) \in Nat /\ \A i \in All : nodes[i] \in Peer
  OBVIOUS
<1>2. Keep(nodes, S) = F[All]
  BY <1>1 DEF Keep, FoldLeft, MapThenFoldSet
<1>3. \A kept \in Seq(Peer), p \in Peer : Take(kept, p) \in Seq(Peer)
  OBVIOUS
<1> HIDE DEF Take
<1>4. ASSUME NEW s \in SUBSET All, s # {}
      PROVE  /\ nodes[Max(s)] \in Peer
             /\ \A n \in Nat : s \in UpTo(n + 1) => s \ {Max(s)} \in UpTo(n)
  <2>1. Max(s) \in s /\ \A i \in s : i <= Max(s)
    BY <1>1, <1>4, LastPosition
  <2>2. nodes[Max(s)] \in Peer
    BY <1>1, <2>1
  <2>3. ASSUME NEW n \in Nat, s \in UpTo(n + 1) PROVE s \ {Max(s)} \in UpTo(n)
    <3>1. ASSUME NEW i \in s \ {Max(s)} PROVE i <= n
      <4> DEFINE last == Max(s)
      <4>1. last \in s /\ i \in s /\ i <= last /\ i # last
        BY <2>1
      <4> HIDE DEF last
      <4>2. last \in Int /\ i \in Int /\ last <= n + 1
        BY <2>3, <4>1
      <4>3. QED BY <4>1, <4>2
    <3>2. QED BY <3>1
  <2>4. QED BY <2>2, <2>3
<1>5. \A s \in UpTo(0) : s = {}
  OBVIOUS
<1>6. \A n \in Nat : UpTo(n) \subseteq UpTo(n + 1) /\ UpTo(n) \subseteq SUBSET All
  OBVIOUS
<1>7. UpTo(Len(nodes)) = SUBSET All
  BY <1>1
<1> HIDE DEF UpTo, All
<1>8. \A n \in Nat : \E f \in [UpTo(n) -> Seq(Peer)] : \A s \in UpTo(n) : f[s] = Fold(f, s)
  <2> DEFINE Good == {n \in Nat :
        \E f \in [UpTo(n) -> Seq(Peer)] : \A s \in UpTo(n) : f[s] = Fold(f, s)}
  <2>1. 0 \in Good
    <3> DEFINE e == [s \in UpTo(0) |-> <<>>]
    <3>1. e \in [UpTo(0) -> Seq(Peer)] /\ \A s \in UpTo(0) : e[s] = Fold(e, s)
      BY <1>5
    <3> HIDE DEF e
    <3>2. QED BY <3>1
  <2>2. ASSUME NEW n \in Good PROVE n + 1 \in Good
    <3>1. PICK h \in [UpTo(n) -> Seq(Peer)] : \A s \in UpTo(n) : h[s] = Fold(h, s)
      OBVIOUS
    <3> DEFINE g == [s \in UpTo(n + 1) |-> Fold(h, s)]
    <3>2. \A s \in UpTo(n + 1) : s # {} => s \ {Max(s)} \in UpTo(n) /\ nodes[Max(s)] \in Peer
      BY <1>4, <1>6
    <3>3. UpTo(n) \subseteq UpTo(n + 1)
      BY <1>6
    <3>4. ASSUME NEW s \in UpTo(n + 1) PROVE Fold(h, s) \in Seq(Peer)
      <4>1. CASE s = {}
        BY <4>1
      <4>2. CASE s # {}
        <5>1. s \ {Max(s)} \in UpTo(n) /\ nodes[Max(s)] \in Peer
          BY <3>2, <4>2
        <5>2. h[s \ {Max(s)}] \in Seq(Peer)
          BY <5>1
        <5>3. Take(h[s \ {Max(s)}], nodes[Max(s)]) \in Seq(Peer)
          BY <1>3, <5>1, <5>2
        <5>4. QED BY <4>2, <5>3
      <4>3. QED BY <4>1, <4>2
    <3>5. \A s \in UpTo(n) : g[s] = h[s]
      <4> HIDE DEF Fold
      <4>1. QED BY <3>1, <3>3
    <3>6. g \in [UpTo(n + 1) -> Seq(Peer)]
      <4> HIDE DEF Fold
      <4>1. QED BY <3>4
    <3>7. ASSUME NEW s \in UpTo(n + 1) PROVE g[s] = Fold(g, s)
      <4>1. g[s] = Fold(h, s)
        OBVIOUS
      <4> HIDE DEF g
      <4>2. CASE s = {}
        BY <4>1, <4>2
      <4>3. CASE s # {}
        BY <3>2, <3>5, <4>1, <4>3
      <4>4. QED BY <4>2, <4>3
    <3> HIDE DEF g
    <3>8. \E f \in [UpTo(n + 1) -> Seq(Peer)] : \A s \in UpTo(n + 1) : f[s] = Fold(f, s)
      BY <3>6, <3>7
    <3>9. n + 1 \in Nat
      OBVIOUS
    <3> HIDE DEF Fold
    <3>10. QED BY <3>8, <3>9
  <2>3. Good \in SUBSET Nat
    OBVIOUS
  <2> HIDE DEF Good
  <2>4. \A n \in Nat : n \in Good
    BY <2>1, <2>2, <2>3, NumberInduction
  <2>5. QED BY <2>4 DEF Good
<1>9. F = [s \in SUBSET All |-> Fold(F, s)]
  <2>1. PICK h \in [SUBSET All -> Seq(Peer)] : \A s \in SUBSET All : h[s] = Fold(h, s)
    <3> HIDE DEF Fold, F
    <3>1. QED BY <1>1, <1>7, <1>8
  <2>2. h = [s \in SUBSET All |-> Fold(h, s)]
    BY <2>1
  <2> HIDE DEF Fold
  <2>3. QED BY <2>2
<1> HIDE DEF F
<1>10. \A n \in Nat : \A s \in UpTo(n) : F[s] \in Seq(Peer)
  <2> DEFINE Good == {n \in Nat : \A s \in UpTo(n) : F[s] \in Seq(Peer)}
  <2>1. 0 \in Good
    <3>1. F[{}] = <<>>
      BY <1>9
    <3>2. F[{}] \in Seq(Peer)
      BY <3>1
    <3>3. \A s \in UpTo(0) : F[s] \in Seq(Peer)
      BY <1>5, <3>2
    <3>4. QED BY <3>3
  <2>2. ASSUME NEW n \in Good PROVE n + 1 \in Good
    <3>1. ASSUME NEW s \in UpTo(n + 1) PROVE F[s] \in Seq(Peer)
      <4>1. s \in SUBSET All
        BY <1>6
      <4>2. CASE s = {}
        BY <1>9, <4>2
      <4>3. CASE s # {}
        <5>1. s \ {Max(s)} \in UpTo(n) /\ nodes[Max(s)] \in Peer
          BY <1>4, <4>1, <4>3
        <5>2. F[s] = Take(F[s \ {Max(s)}], nodes[Max(s)])
          BY <1>9, <4>1, <4>3
        <5>3. F[s \ {Max(s)}] \in Seq(Peer)
          BY <5>1
        <5>4. QED BY <1>3, <5>1, <5>2, <5>3
      <4>4. QED BY <4>2, <4>3
    <3>2. QED BY <3>1
  <2>3. Good \in SUBSET Nat
    OBVIOUS
  <2> HIDE DEF Good
  <2>4. \A n \in Nat : n \in Good
    BY <2>1, <2>2, <2>3, NumberInduction
  <2>5. QED BY <2>4 DEF Good
<1>11. QED BY <1>1, <1>2, <1>7, <1>10
-----------------------------------------------------------------------------
(* Types *)

LEMMA ConstantTypes ==
  /\ TIMEOUT \in Nat \ {0} /\ COOLDOWN \in Nat /\ MaxDisturbances \in Nat
BY SyncAssumption

PcType == [Thread -> Pc]

\* What SwitchToNextAsset, Reset and Fail change.
StateTypes ==
  /\ asset \in Asset /\ attempt \in 0 .. 2
  /\ bumped \in 0 .. TIMEOUT + 1 /\ failed \in 0 .. COOLDOWN + 1
  /\ asked \in SUBSET {"LIST", "MNW"}

OtherTypes ==
  /\ slept \in BOOLEAN /\ due \in BOOLEAN
  /\ noObjects \in -1 .. TIMEOUT + 1
  /\ vNodes \in Seq(Peer)
  /\ pc \in PcType
  /\ disturbances \in 0 .. MaxDisturbances
  /\ commanded \in BOOLEAN

FulfilledType == [Peer -> SUBSET Request]

LEMMA TypeParts ==
  TypeOK <=> StateTypes /\ OtherTypes /\ fulfilled \in FulfilledType /\ crashed \in BOOLEAN
BY Zenon DEF TypeOK, StateTypes, OtherTypes, FulfilledType, PcType

\* The same of the next state.
LEMMA TypePartsNext ==
  ASSUME StateTypes', OtherTypes', fulfilled' \in FulfilledType, crashed' \in BOOLEAN
  PROVE  TypeOK'
BY Zenon DEF TypeOK, StateTypes, OtherTypes, FulfilledType, PcType

LEMMA StateKept ==
  ASSUME StateTypes, UNCHANGED stateVars
  PROVE  StateTypes'
BY Zenon DEF StateTypes, stateVars

LEMMA BumpTypes ==
  ASSUME NEW a, bumped \in 0 .. TIMEOUT + 1, BumpAssetLastTime(a)
  PROVE  bumped' \in 0 .. TIMEOUT + 1
BY ConstantTypes DEF BumpAssetLastTime

LEMMA SwitchTypes ==
  ASSUME StateTypes, crashed \in BOOLEAN, fulfilled \in FulfilledType,
         NEW thread, SwitchToNextAsset(thread)
  PROVE  StateTypes' /\ fulfilled' \in FulfilledType /\ crashed' \in BOOLEAN
<1>1. failed' = failed /\ asked' = asked
  BY DEF SwitchToNextAsset
<1>2. CASE IsFailed
  <2>1. /\ crashed' = (crashed \/ thread = "tick")
        /\ UNCHANGED <<asset, attempt, bumped, fulfilled>>
    BY <1>2 DEF SwitchToNextAsset
  <2>2. StateTypes'
    BY <1>1, <2>1 DEF StateTypes
  <2>3. crashed' \in BOOLEAN
    BY <2>1
  <2>4. QED BY <2>1, <2>2, <2>3
<1>3. CASE ~IsFailed
  <2>1. /\ asset' = Successor(asset) /\ attempt' = 0
        /\ BumpAssetLastTime(asset')
        /\ fulfilled' = FulfilledBySwitch
        /\ crashed' = crashed
    BY <1>3 DEF SwitchToNextAsset
  <2>2. asset' \in Asset
    BY <2>1 DEF Successor, Asset, Data
  <2>3. bumped' \in 0 .. TIMEOUT + 1
    BY <2>1, BumpTypes DEF StateTypes
  <2>4. attempt' \in 0 .. 2
    BY <2>1
  <2>5. StateTypes'
    BY <1>1, <2>2, <2>3, <2>4 DEF StateTypes
  <2>6. fulfilled' \in FulfilledType
    BY <2>1 DEF FulfilledBySwitch, ClearFulfilledRequests, FulfilledType, Request
  <2>7. QED BY <2>1, <2>5, <2>6
<1>4. QED BY <1>2, <1>3

LEMMA ResetTypes ==
  ASSUME Reset
  PROVE  StateTypes'
BY ConstantTypes DEF Reset, Asset, StateTypes

LEMMA FailTypes ==
  ASSUME StateTypes, Fail
  PROVE  StateTypes'
BY ConstantTypes DEF Fail, StateTypes, Asset

LEMMA NotedTypes ==
  ASSUME fulfilled \in FulfilledType, NEW k
  PROVE  Noted(k) \in FulfilledType
BY DEF Noted, FulfilledType, Request

LEMMA NoObjectsTypes ==
  ASSUME noObjects \in -1 .. TIMEOUT + 1, NEW k, NEW e
  PROVE  NoObjectsAfter(k, e) \in -1 .. TIMEOUT + 1 /\ Unset \in -1 .. TIMEOUT + 1
BY ConstantTypes DEF NoObjectsAfter, Unset

\* The loop of ProcessTick ends: at a peer that ends it, or behind the last one.
LEMMA LoopEnds ==
  ASSUME vNodes \in Seq(Peer), NEW e, NEW enough, NEW few
  PROVE  LET k == LoopEnd(e, enough, few)
         IN  k \in 1 .. Len(vNodes) + 1
             /\ (k \in DOMAIN vNodes => EndsAt(vNodes[k], e, enough, few))
<1> DEFINE Ends(k) == k \in DOMAIN vNodes => EndsAt(vNodes[k], e, enough, few)
           Stops == {k \in 1 .. Len(vNodes) + 1 : Ends(k)}
<1>1. DOMAIN vNodes = 1 .. Len(vNodes) /\ Len(vNodes) \in Nat
  OBVIOUS
<1>2. Stops \in SUBSET Nat /\ Len(vNodes) + 1 \in Stops
  BY <1>1
<1>3. PICK k \in Stops : \A i \in Stops : ~(i < k)
  <2> HIDE DEF Stops
  <2>1. QED BY <1>2, LeastNumber
<1>4. \A i \in 1 .. k - 1 : ~EndsAt(vNodes[i], e, enough, few)
  <2> SUFFICES ASSUME NEW i \in 1 .. k - 1 PROVE i \notin Stops /\ i \in 1 .. Len(vNodes) + 1
    OBVIOUS
  <2>1. k \in 1 .. Len(vNodes) + 1
    OBVIOUS
  <2>2. i < k /\ i \in 1 .. Len(vNodes) + 1
    BY <1>1, <2>1
  <2> HIDE DEF Stops
  <2>3. QED BY <1>3, <2>2
<1>5. \E j \in 1 .. Len(vNodes) + 1 :
        /\ \A i \in 1 .. j - 1 : ~EndsAt(vNodes[i], e, enough, few)
        /\ Ends(j)
  BY <1>4
<1> HIDE DEF Stops
<1>6. QED BY <1>5 DEF LoopEnd

\* Where the loop of ProcessTick leads: nowhere, to a call of SwitchToNextAsset or Fail
\* for an asset with or without an attempt, or to the request for the asset.
LEMMA LoopLeads ==
  ASSUME TypeOK, TickLoop
  PROVE  /\ UNCHANGED <<stateVars, commanded, crashed, slept, disturbances>>
         /\ due' = FALSE /\ vNodes' \in Seq(Peer) /\ fulfilled' \in FulfilledType
         /\ noObjects' \in -1 .. TIMEOUT + 1
         /\ pc["tick"] = "idle" /\ ~IsFailed /\ ~IsSynced
         /\ \/ pc' = pc
            \/ /\ asset \in Data
               /\ \/ pc' = [pc EXCEPT !["tick"] = "fail"]
                  \/ pc' = [pc EXCEPT !["tick"] = asset]
                  \/ /\ attempt > 0 \/ asset = "GOVERNANCE"
                     /\ pc' = [pc EXCEPT !["tick"] = "switch"]
<1>1. StateTypes /\ OtherTypes /\ fulfilled \in FulfilledType /\ crashed \in BOOLEAN
  BY TypeParts
<1>2. PICK e \in {{}} \cup {{p} : p \in {q \in ToSet(vNodes) : CanBeExhausted(q)}},
           enough \in BOOLEAN, few \in BOOLEAN :
        LET k == LoopEnd(e, enough, few)
        IN  /\ \/ LoopThrough(k, e)
               \/ TimeOut(k)
               \/ FoundEnoughData(k, e, enough, few)
               \/ ChoosePeer(k, e, enough)
            /\ vNodes' = Remaining(k)
  BY DEF TickLoop
<1> DEFINE k == LoopEnd(e, enough, few)
<1>3. vNodes' \in Seq(Peer)
  BY <1>1, <1>2, KeptArePeers DEF Remaining, OtherTypes
<1>4. Noted(k) \in FulfilledType
  BY <1>1, NotedTypes
<1>5. k \in 1 .. Len(vNodes) + 1 /\ (k \in DOMAIN vNodes => EndsAt(vNodes[k], e, enough, few))
  BY <1>1, LoopEnds DEF OtherTypes
<1>6. NoObjectsAfter(k, e) \in -1 .. TIMEOUT + 1 /\ Unset \in -1 .. TIMEOUT + 1
      /\ noObjects \in -1 .. TIMEOUT + 1
  BY <1>1, NoObjectsTypes DEF OtherTypes
<1>7. \A p \in e : asset = "GOVERNANCE"
  BY DEF CanBeExhausted
<1>8. attempt \in 0 .. 2
  BY <1>1 DEF StateTypes
<1> HIDE DEF k
<1>9. CASE LoopThrough(k, e)
  BY <1>3, <1>4, <1>6, <1>9 DEF LoopThrough, TickLoop, BeginTick
<1>10. CASE TimeOut(k)
  <2>1. asset \in Data
    BY <1>5, <1>10 DEF TimeOut, EndsAt
  <2>2. CASE attempt = 0 /\ asset # "GOVERNANCE"
    <3>1. pc' = [pc EXCEPT !["tick"] = "fail"]
      BY <1>10, <2>2 DEF TimeOut, TickGoesTo
    <3>2. QED BY <1>3, <1>4, <1>6, <1>10, <2>1, <3>1 DEF TimeOut, TickLoop, BeginTick
  <2>3. CASE ~(attempt = 0 /\ asset # "GOVERNANCE")
    <3>1. pc' = [pc EXCEPT !["tick"] = "switch"]
      BY <1>10, <2>3 DEF TimeOut, TickGoesTo
    <3>2. attempt > 0 \/ asset = "GOVERNANCE"
      BY <1>8, <2>3
    <3>3. QED BY <1>3, <1>4, <1>6, <1>10, <2>1, <3>1, <3>2 DEF TimeOut, TickLoop, BeginTick
  <2>4. QED BY <2>2, <2>3
<1>11. CASE FoundEnoughData(k, e, enough, few)
  <2>1. asset \in Data /\ pc' = [pc EXCEPT !["tick"] = "switch"]
    BY <1>5, <1>11 DEF FoundEnoughData, EndsAt, TickGoesTo
  <2>2. attempt > 0 \/ asset = "GOVERNANCE"
    BY <1>7, <1>8, <1>11 DEF FoundEnoughData
  <2>3. noObjects' \in -1 .. TIMEOUT + 1 /\ fulfilled' \in FulfilledType
    BY <1>4, <1>6, <1>11 DEF FoundEnoughData
  <2>4. QED BY <1>3, <2>1, <2>2, <2>3 DEF TickLoop, BeginTick
<1>12. CASE ChoosePeer(k, e, enough)
  <2>1. k \in DOMAIN vNodes
        /\ fulfilled' = [Noted(k) EXCEPT ![vNodes[k]] = @ \cup {asset}]
        /\ noObjects' = NoObjectsAfter(k, e) /\ pc' = [pc EXCEPT !["tick"] = asset]
    BY <1>12 DEF ChoosePeer, TickGoesTo
  <2>2. asset \in Data
    BY <1>5, <2>1 DEF EndsAt
  <2>3. fulfilled' \in FulfilledType
    BY <1>4, <2>1, <2>2 DEF FulfilledType, Request
  <2>4. QED BY <1>3, <1>6, <2>1, <2>2, <2>3 DEF TickLoop, BeginTick
<1>13. QED BY <1>2, <1>9, <1>10, <1>11, <1>12 DEF k

LEMMA TickLoopTypes ==
  ASSUME TypeOK, TickLoop
  PROVE  TypeOK'
<1>1. StateTypes /\ OtherTypes /\ fulfilled \in FulfilledType /\ crashed \in BOOLEAN
  BY TypeParts
<1>2. pc' \in PcType
  BY <1>1, LoopLeads DEF OtherTypes, PcType, Pc, Data
<1>3. StateTypes' /\ crashed' \in BOOLEAN /\ fulfilled' \in FulfilledType
  BY <1>1, LoopLeads, StateKept
<1>4. OtherTypes'
  BY <1>1, <1>2, LoopLeads DEF OtherTypes
<1>5. QED BY <1>3, <1>4, TypePartsNext

LEMMA TickTypes ==
  ASSUME TypeOK, ProcessTick
  PROVE  TypeOK'
<1>1. StateTypes /\ OtherTypes /\ fulfilled \in FulfilledType /\ crashed \in BOOLEAN
  BY TypeParts
<1>2. CASE BeginTick /\ ResetByTick
  <2>1. StateTypes'
    BY <1>2, ResetTypes DEF ResetByTick
  <2>2. /\ due' = FALSE /\ pc' = [pc EXCEPT !["tick"] = "reset"]
        /\ UNCHANGED <<slept, disturbances, noObjects, fulfilled, vNodes, crashed>>
    BY <1>2 DEF ResetByTick, BeginTick
  <2>3. commanded' \in BOOLEAN
    BY <1>2 DEF ResetByTick
  <2>4. OtherTypes'
    BY <1>1, <2>2, <2>3 DEF OtherTypes, PcType, Pc
  <2>5. QED BY <1>1, <2>1, <2>2, <2>4, TypePartsNext
<1>3. CASE BeginTick /\ UNCHANGED <<stateVars, noObjects, fulfilled, vNodes, pc, commanded, crashed>>
  <2>1. /\ due' = FALSE
        /\ UNCHANGED <<slept, disturbances, noObjects, fulfilled, vNodes, pc, commanded, crashed>>
    BY <1>3 DEF BeginTick
  <2>2. StateTypes'
    BY <1>1, <1>3, StateKept
  <2>3. OtherTypes'
    BY <1>1, <2>1 DEF OtherTypes
  <2>4. QED BY <1>1, <2>1, <2>2, <2>3, TypePartsNext
<1>4. CASE TickLoop
  BY <1>4, TickLoopTypes
<1>5. QED BY <1>2, <1>3, <1>4 DEF ProcessTick, TickAfterSleep, TickFailed, TickSynced

\* A thread that goes on after its call.
LEMMA GoOnTypes ==
  ASSUME OtherTypes, NEW thread, GoOn(thread)
  PROVE  OtherTypes'
<1>1. pc' \in PcType
  BY DEF OtherTypes, PcType, Pc, GoOn
<1>2. QED BY <1>1 DEF OtherTypes, GoOn

\* A thread that calls SwitchToNextAsset.
LEMMA CallTypes ==
  ASSUME TypeOK, NEW thread, SwitchToNextAsset(thread), GoOn(thread)
  PROVE  TypeOK'
BY TypeParts, SwitchTypes, GoOnTypes, TypePartsNext

LEMMA TickCallTypes ==
  ASSUME TypeOK, TickSwitches \/ TickFails \/ RequestFromPeer \/ SwitchAfterReset("tick")
  PROVE  TypeOK'
<1>1. StateTypes /\ OtherTypes /\ fulfilled \in FulfilledType /\ crashed \in BOOLEAN
  BY TypeParts
<1>2. CASE TickSwitches \/ SwitchAfterReset("tick")
  BY <1>2, CallTypes DEF TickSwitches, SwitchAfterReset
<1>3. CASE TickFails
  BY <1>1, <1>3, FailTypes, GoOnTypes, TypePartsNext DEF TickFails
<1>4. CASE RequestFromPeer
  <2>1. /\ attempt' = (IF attempt = 2 THEN 2 ELSE attempt + 1)
        /\ asked' = asked \cup ({pc["tick"]} \cap {"LIST", "MNW"})
        /\ UNCHANGED <<asset, bumped, failed, fulfilled, crashed>> /\ GoOn("tick")
    BY <1>4 DEF RequestFromPeer
  <2>2. attempt' \in 0 .. 2
    BY <1>1, <2>1 DEF StateTypes
  <2>3. asked' \in SUBSET {"LIST", "MNW"}
    BY <1>1, <2>1 DEF StateTypes
  <2>4. StateTypes'
    BY <1>1, <2>1, <2>2, <2>3 DEF StateTypes
  <2>5. QED BY <1>1, <2>1, <2>4, GoOnTypes, TypePartsNext
<1>5. QED BY <1>2, <1>3, <1>4

LEMMA ThreadTypes ==
  ASSUME TypeOK, TipThread \/ RpcThread
  PROVE  TypeOK'
<1>1. StateTypes /\ OtherTypes /\ fulfilled \in FulfilledType /\ crashed \in BOOLEAN
  BY TypeParts
<1>2. CASE UpdatedBlockTip
  <2>1. StateTypes'
    BY <1>1, <1>2, StateKept DEF UpdatedBlockTip
  <2>2. /\ pc' = [pc EXCEPT !["tip"] = "notFailed"]
        /\ UNCHANGED <<slept, noObjects, fulfilled, vNodes, due, disturbances, commanded, crashed>>
    BY <1>2 DEF UpdatedBlockTip
  <2>3. OtherTypes'
    BY <1>1, <2>2 DEF OtherTypes, PcType, Pc
  <2>4. QED BY <1>1, <2>1, <2>2, <2>3, TypePartsNext
<1>3. CASE UpdatedBlockTipTested
  <2>1. /\ UNCHANGED <<asset, attempt, failed, slept, noObjects, fulfilled, vNodes, due,
                       disturbances, asked, commanded, crashed>>
        /\ bumped' = bumped \/ BumpAssetLastTime(asset)
        /\ \E to \in {"idle", "initial"} : pc' = [pc EXCEPT !["tip"] = to]
    BY <1>3 DEF UpdatedBlockTipTested
  <2>2. bumped' \in 0 .. TIMEOUT + 1
    BY <1>1, <2>1, BumpTypes DEF StateTypes
  <2>3. StateTypes'
    BY <1>1, <2>1, <2>2 DEF StateTypes
  <2>4. OtherTypes'
    BY <1>1, <2>1 DEF OtherTypes, PcType, Pc
  <2>5. QED BY <1>1, <2>1, <2>3, <2>4, TypePartsNext
<1>4. CASE UpdatedBlockTipSwitches
  BY <1>4, CallTypes DEF UpdatedBlockTipSwitches
<1>5. CASE MnsyncNext
  <2>1. /\ SwitchToNextAsset("rpc") /\ commanded' = TRUE
        /\ UNCHANGED <<slept, noObjects, vNodes, due, pc>>
        /\ disturbances < MaxDisturbances /\ disturbances' = disturbances + 1
    BY <1>5 DEF MnsyncNext, Disturb
  <2>2. StateTypes' /\ fulfilled' \in FulfilledType /\ crashed' \in BOOLEAN
    BY <1>1, <2>1, SwitchTypes
  <2>3. disturbances' \in 0 .. MaxDisturbances
    BY <1>1, <2>1, ConstantTypes DEF OtherTypes
  <2>4. commanded' \in BOOLEAN
    BY <2>1
  <2>5. OtherTypes'
    BY <1>1, <2>1, <2>3, <2>4 DEF OtherTypes
  <2>6. QED BY <2>2, <2>5, TypePartsNext
<1>6. CASE MnsyncReset
  <2>1. StateTypes'
    BY <1>6, ResetTypes DEF MnsyncReset
  <2>2. /\ pc' = [pc EXCEPT !["rpc"] = "reset"]
        /\ UNCHANGED <<slept, noObjects, fulfilled, vNodes, due, crashed>>
        /\ disturbances < MaxDisturbances /\ disturbances' = disturbances + 1
    BY <1>6 DEF MnsyncReset, Disturb
  <2>3. disturbances' \in 0 .. MaxDisturbances
    BY <1>1, <2>2, ConstantTypes DEF OtherTypes
  <2>4. commanded' \in BOOLEAN
    BY <1>6 DEF MnsyncReset
  <2>5. OtherTypes'
    BY <1>1, <2>2, <2>3, <2>4 DEF OtherTypes, PcType, Pc
  <2>6. QED BY <1>1, <2>1, <2>2, <2>5, TypePartsNext
<1>7. CASE SwitchAfterReset("rpc")
  BY <1>7, CallTypes DEF SwitchAfterReset
<1>8. QED BY <1>2, <1>3, <1>4, <1>5, <1>6, <1>7 DEF TipThread, RpcThread

LEMMA EnvironmentTypes ==
  ASSUME TypeOK, Environment
  PROVE  TypeOK'
<1>1. StateTypes /\ OtherTypes /\ fulfilled \in FulfilledType /\ crashed \in BOOLEAN
  BY TypeParts
<1>2. CASE Elapse
  <2>1. /\ due' = TRUE
        /\ bumped' = Older(bumped, TIMEOUT) /\ failed' = Older(failed, COOLDOWN)
        /\ noObjects' = (IF noObjects = Unset THEN Unset ELSE Older(noObjects, TIMEOUT))
        /\ UNCHANGED <<asset, attempt, slept, fulfilled, vNodes, pc, disturbances,
                       asked, commanded, crashed>>
    BY <1>2 DEF Elapse
  <2>2. bumped' \in 0 .. TIMEOUT + 1 /\ failed' \in 0 .. COOLDOWN + 1
    BY <1>1, <2>1, ConstantTypes DEF Older, StateTypes
  <2>3. noObjects' \in -1 .. TIMEOUT + 1
    BY <1>1, <2>1, ConstantTypes DEF Older, OtherTypes, Unset
  <2>4. StateTypes'
    BY <1>1, <2>1, <2>2 DEF StateTypes
  <2>5. OtherTypes'
    BY <1>1, <2>1, <2>3 DEF OtherTypes
  <2>6. QED BY <1>1, <2>1, <2>4, <2>5, TypePartsNext
<1>3. CASE DataReceived
  <2>1. /\ BumpAssetLastTime(asset)
        /\ UNCHANGED <<asset, attempt, failed, slept, noObjects, fulfilled, vNodes, due,
                       pc, disturbances, asked, commanded, crashed>>
    BY <1>3 DEF DataReceived
  <2>2. bumped' \in 0 .. TIMEOUT + 1
    BY <1>1, <2>1, BumpTypes DEF StateTypes
  <2>3. StateTypes'
    BY <1>1, <2>1, <2>2 DEF StateTypes
  <2>4. OtherTypes'
    BY <1>1, <2>1 DEF OtherTypes
  <2>5. QED BY <1>1, <2>1, <2>3, <2>4, TypePartsNext
<1>4. CASE NetworkOnly /\ vNodes' \in Seq(Peer) /\ fulfilled' \in FulfilledType
  <2>1. UNCHANGED <<stateVars, slept, noObjects, due, pc, disturbances, commanded, crashed>>
    BY <1>4 DEF NetworkOnly
  <2>2. StateTypes'
    BY <1>1, <2>1, StateKept
  <2>3. OtherTypes'
    BY <1>1, <1>4, <2>1 DEF OtherTypes
  <2>4. QED BY <1>1, <1>4, <2>1, <2>2, <2>3, TypePartsNext
<1>5. ASSUME NEW p \in Peer, Connect(p) PROVE TypeOK'
  BY <1>1, <1>4, <1>5 DEF Connect, OtherTypes
<1>6. ASSUME NEW p \in Peer, Disconnect(p) PROVE TypeOK'
  <2>1. vNodes' \in Seq(Peer)
    BY <1>1, <1>6, KeptArePeers DEF Disconnect, OtherTypes
  <2>2. QED BY <1>1, <1>4, <1>6, <2>1 DEF Disconnect
<1>7. ASSUME NEW p \in Peer, NEW r \in Request, Expire(p, r) PROVE TypeOK'
  <2>1. fulfilled' \in FulfilledType
    BY <1>1, <1>7 DEF Expire, FulfilledType
  <2>2. QED BY <1>1, <1>4, <1>7, <2>1 DEF Expire, OtherTypes
<1>8. ASSUME NEW hour \in BOOLEAN, Sleep(hour) PROVE TypeOK'
  <2>1. /\ disturbances < MaxDisturbances /\ disturbances' = disturbances + 1
        /\ due' = TRUE
        /\ bumped' = TIMEOUT + 1 /\ failed' = COOLDOWN + 1
        /\ noObjects' = (IF noObjects = Unset THEN Unset ELSE TIMEOUT + 1)
        /\ slept' = (slept \/ hour)
        /\ fulfilled' = (IF hour THEN [p \in Peer |-> {}] ELSE fulfilled)
        /\ UNCHANGED <<asset, attempt, vNodes, pc, asked, commanded, crashed>>
    BY <1>8 DEF Sleep, Disturb
  <2>2. bumped' \in 0 .. TIMEOUT + 1 /\ failed' \in 0 .. COOLDOWN + 1
    BY <2>1, ConstantTypes
  <2>3. noObjects' \in -1 .. TIMEOUT + 1 /\ disturbances' \in 0 .. MaxDisturbances
    BY <1>1, <2>1, ConstantTypes DEF OtherTypes, Unset
  <2>4. slept' \in BOOLEAN
    BY <2>1
  <2>5. fulfilled' \in FulfilledType
    BY <1>1, <2>1 DEF FulfilledType
  <2>6. StateTypes'
    BY <1>1, <2>1, <2>2 DEF StateTypes
  <2>7. OtherTypes'
    BY <1>1, <2>1, <2>3, <2>4 DEF OtherTypes
  <2>8. QED BY <1>1, <2>1, <2>5, <2>6, <2>7, TypePartsNext
<1>9. CASE Restart
  <2>1. /\ disturbances < MaxDisturbances /\ disturbances' = disturbances + 1
        /\ asset' \in FirstAsset
        /\ attempt' = 0 /\ bumped' = 0 /\ failed' = COOLDOWN + 1
        /\ slept' = FALSE /\ noObjects' = Unset
        /\ vNodes' = <<>> /\ due' = FALSE /\ pc' = [t \in Thread |-> "idle"]
        /\ asked' = {} /\ commanded' = FALSE
        /\ UNCHANGED <<fulfilled, crashed>>
    BY <1>9 DEF Restart, Disturb
  <2>2. /\ asset' \in Asset /\ attempt' \in 0 .. 2
        /\ bumped' \in 0 .. TIMEOUT + 1 /\ failed' \in 0 .. COOLDOWN + 1
        /\ asked' \in SUBSET {"LIST", "MNW"}
    BY <2>1, ConstantTypes DEF FirstAsset, Asset, Data
  <2>3. noObjects' \in -1 .. TIMEOUT + 1 /\ disturbances' \in 0 .. MaxDisturbances
    BY <1>1, <2>1, ConstantTypes DEF OtherTypes, Unset
  <2>4. commanded' \in BOOLEAN /\ slept' \in BOOLEAN /\ due' \in BOOLEAN
    BY <2>1
  <2>5. vNodes' \in Seq(Peer) /\ pc' \in PcType
    BY <2>1 DEF PcType, Pc
  <2>6. StateTypes' /\ OtherTypes'
    BY <2>2, <2>3, <2>4, <2>5 DEF StateTypes, OtherTypes
  <2>7. QED BY <1>1, <2>1, <2>6, TypePartsNext
<1>10. QED BY <1>2, <1>3, <1>5, <1>6, <1>7, <1>8, <1>9 DEF Environment

\* The variables keep their types, for any peers, limits and number of disturbances.
THEOREM TypeCorrect == Spec => []TypeOK
<1>1. Init => TypeOK
  <2> SUFFICES ASSUME Init PROVE TypeOK
    OBVIOUS
  <2>1. /\ asset \in Asset /\ attempt \in 0 .. 2
        /\ bumped \in 0 .. TIMEOUT + 1 /\ failed \in 0 .. COOLDOWN + 1
        /\ asked \in SUBSET {"LIST", "MNW"}
    BY ConstantTypes DEF Init, FirstAsset, Asset, Data
  <2>2. noObjects \in -1 .. TIMEOUT + 1 /\ disturbances \in 0 .. MaxDisturbances
    BY ConstantTypes DEF Init, Unset
  <2>3. commanded \in BOOLEAN /\ slept \in BOOLEAN /\ due \in BOOLEAN /\ crashed \in BOOLEAN
    BY DEF Init
  <2>4. vNodes \in Seq(Peer) /\ pc \in PcType /\ fulfilled \in FulfilledType
    BY DEF Init, PcType, Pc, FulfilledType
  <2>5. StateTypes /\ OtherTypes
    BY <2>1, <2>2, <2>3, <2>4 DEF StateTypes, OtherTypes
  <2>6. QED BY <2>3, <2>4, <2>5, TypeParts
<1>2. TypeOK /\ [Next]_vars => TypeOK'
  <2> SUFFICES ASSUME TypeOK, [Next]_vars PROVE TypeOK'
    OBVIOUS
  <2>1. CASE Next
    BY <2>1, TickTypes, TickCallTypes, ThreadTypes, EnvironmentTypes DEF Next, MaintenanceThread
  <2>2. CASE UNCHANGED vars
    BY <2>2 DEF TypeOK, vars
  <2>3. QED BY <2>1, <2>2
<1>3. QED BY <1>1, <1>2, PTL DEF Spec

-----------------------------------------------------------------------------
(* The calls of the threads *)

\* Only the maintenance thread calls Fail, and it does so last.
TickInv ==
  /\ IsFailed => pc["tick"] = "idle"
  /\ TickNeverThrows

\* What SwitchToNextAsset does in the failed state, and in any other.
LEMMA Switched ==
  ASSUME NEW thread, SwitchToNextAsset(thread), asset \in Asset
  PROVE  /\ asked' = asked
         /\ IsFailed => /\ UNCHANGED <<asset, attempt>>
                        /\ crashed' = (crashed \/ thread = "tick")
         /\ ~IsFailed => /\ asset' = Successor(asset) /\ attempt' = 0 /\ ~IsFailed'
                         /\ crashed' = crashed
BY DEF SwitchToNextAsset, IsFailed, Successor, Asset, Data

LEMMA StepKeepsTick == TypeOK /\ TickInv /\ [Next]_vars => TickInv'
<1> SUFFICES ASSUME TypeOK, TickInv, [Next]_vars PROVE TickInv'
  OBVIOUS
<1>1. /\ pc \in [Thread -> Pc] /\ asset \in Asset /\ {"tick", "tip", "rpc"} = Thread
      /\ crashed = FALSE
  BY DEF TypeOK, Thread, TickInv, TickNeverThrows
<1>2. CASE UNCHANGED <<asset, crashed>> /\ (pc'["tick"] = pc["tick"] \/ ~IsFailed)
  BY <1>1, <1>2 DEF TickInv, TickNeverThrows, IsFailed
<1>3. CASE asset' # "FAILED" /\ crashed' = crashed
  BY <1>1, <1>3 DEF TickInv, TickNeverThrows, IsFailed
<1>4. CASE MaintenanceThread
  <2>1. CASE BeginTick /\ ResetByTick
    BY <1>3, <2>1 DEF ResetByTick, Reset
  <2>2. CASE BeginTick /\ UNCHANGED <<stateVars, pc, crashed>>
    BY <1>2, <2>2 DEF stateVars
  <2>3. CASE TickLoop
    BY <1>2, <2>3, LoopLeads DEF stateVars
  <2>4. CASE TickSwitches \/ SwitchAfterReset("tick")
    <3>1. SwitchToNextAsset("tick") /\ pc["tick"] # "idle"
      BY <2>4 DEF TickSwitches, SwitchAfterReset
    <3>2. ~IsFailed
      BY <3>1 DEF TickInv
    <3>3. QED BY <1>1, <1>3, <3>1, <3>2, Switched DEF IsFailed
  <2>5. CASE TickFails
    <3>1. pc'["tick"] = "idle" /\ crashed' = crashed
      BY <1>1, <2>5 DEF TickFails, GoOn
    <3>2. QED BY <1>1, <3>1 DEF TickInv, TickNeverThrows
  <2>6. CASE RequestFromPeer
    <3>1. pc["tick"] # "idle"
      BY <2>6 DEF RequestFromPeer, Data
    <3>2. QED BY <1>2, <2>6, <3>1 DEF RequestFromPeer, TickInv
  <2>7. QED BY <1>4, <2>1, <2>2, <2>3, <2>4, <2>5, <2>6
            DEF MaintenanceThread, ProcessTick, TickAfterSleep, TickFailed, TickSynced
<1>5. ASSUME NEW thread \in {"tip", "rpc"}, SwitchToNextAsset(thread),
             pc' = pc \/ pc' = [pc EXCEPT ![thread] = "idle"]
      PROVE  TickInv'
  <2>1. pc'["tick"] = pc["tick"] /\ thread # "tick"
    BY <1>1, <1>5
  <2>2. CASE IsFailed
    <3>1. UNCHANGED <<asset, crashed>>
      BY <1>1, <1>5, <2>1, <2>2, Switched
    <3>2. QED BY <1>2, <2>1, <3>1
  <2>3. CASE ~IsFailed
    BY <1>1, <1>3, <1>5, <2>3, Switched DEF IsFailed
  <2>4. QED BY <2>2, <2>3
<1>6. CASE TipThread
  <2>1. CASE UpdatedBlockTip
    BY <1>1, <1>2, <2>1 DEF UpdatedBlockTip, stateVars
  <2>2. CASE UpdatedBlockTipTested
    BY <1>1, <1>2, <2>2 DEF UpdatedBlockTipTested
  <2>3. CASE UpdatedBlockTipSwitches
    BY <1>5, <2>3 DEF UpdatedBlockTipSwitches, GoOn
  <2>4. QED BY <1>6, <2>1, <2>2, <2>3 DEF TipThread
<1>7. CASE RpcThread
  <2>1. CASE MnsyncNext
    BY <1>5, <2>1 DEF MnsyncNext
  <2>2. CASE MnsyncReset
    BY <1>3, <2>2 DEF MnsyncReset, Reset
  <2>3. CASE SwitchAfterReset("rpc")
    BY <1>5, <2>3 DEF SwitchAfterReset, GoOn
  <2>4. QED BY <1>7, <2>1, <2>2, <2>3 DEF RpcThread
<1>8. CASE Environment
  <2>1. CASE Restart
    BY <1>3, <2>1 DEF Restart, FirstAsset
  <2>2. CASE Environment /\ ~Restart
    BY <1>2, <2>2 DEF Environment, Elapse, DataReceived, Connect, Disconnect, Expire, Sleep,
                      NetworkOnly, stateVars
  <2>3. QED BY <1>8, <2>1, <2>2
<1>9. CASE UNCHANGED vars
  BY <1>2, <1>9 DEF vars
<1>10. QED BY <1>4, <1>6, <1>7, <1>8, <1>9 DEF Next

LEMMA TickInvHolds == Spec => []TickInv
<1>1. Init => TickInv
  BY DEF Init, TickInv, TickNeverThrows, FirstAsset, IsFailed
<1>2. QED BY <1>1, StepKeepsTick, TypeCorrect, PTL DEF Spec

\* The maintenance thread never runs into the exception of SwitchToNextAsset, whatever
\* the threads of the block notification and of RPC do between its steps.
THEOREM TheTickIsSafe == Spec => []TickNeverThrows
<1>1. TickInv => TickNeverThrows
  BY DEF TickInv
<1>2. QED BY <1>1, TickInvHolds, PTL

-----------------------------------------------------------------------------
(* How much the races cost *)

\* The present asset was not asked for, and the tick does not know: an attempt for
\* another asset is counted, or the tick is about to call SwitchToNextAsset.
Doomed ==
  {a \in {"LIST", "MNW"} \ asked : a = asset /\ (attempt > 0 \/ pc["tick"] = "switch")}

Slips == (Before(asset) \ asked) \cup Doomed

\* A call of a thread that takes the asset to be INITIAL is to come.
TipStrays == pc["tip"] = "initial"
Strays == TipStrays \/ pc["tick"] = "reset"

\* The tick is at the request for another asset than the present.
Astray == pc["tick"] \in Data \ {asset}

\* One slip at most, and none while a call may still cause it.  A tick that is astray has
\* been overtaken by the one call that took the asset to be INITIAL.
Balanced ==
  \/ commanded
  \/ /\ pc["rpc"] = "idle"
     /\ asset = "INITIAL" => attempt = 0 /\ pc["tick"] \in {"idle", "reset"}
     /\ asset \in Data \cup {"FINISHED"} /\ ~Astray
        => /\ \A a, b \in Slips : a = b
           /\ Strays => Slips = {} /\ ~(TipStrays /\ pc["tick"] = "reset")
     /\ Astray => /\ asset \in Data \cup {"FINISHED"} /\ ~TipStrays
                  /\ Doomed = {}
                  /\ Before(asset) \ asked \subseteq {pc["tick"]}

LEMMA BeforeSuccessor ==
  ASSUME NEW a \in Data \cup {"FINISHED"}
  PROVE  /\ Before(Successor(a)) = Before(a) \cup ({a} \cap {"LIST", "MNW"})
         /\ Successor(a) \in Data \cup {"FINISHED"}
BY DEF Before, Successor, Data

\* The tick calls SwitchToNextAsset for an asset that it has seen time out.
LEMMA TickSwitchesKeepsBalance ==
  ASSUME TypeOK, TickInv, Balanced, TickSwitches
  PROVE  Balanced'
<1>1. /\ pc \in [Thread -> Pc] /\ asset \in Asset /\ {"tick", "tip", "rpc"} = Thread
      /\ pc["tick"] = "switch" /\ pc' = [pc EXCEPT !["tick"] = "idle"]
      /\ commanded' = commanded /\ ~IsFailed
  BY DEF TypeOK, Thread, TickSwitches, GoOn, TickInv
<1>2. asset' = Successor(asset) /\ attempt' = 0 /\ asked' = asked
  BY <1>1, Switched DEF TickSwitches
<1>3. CASE commanded
  BY <1>1, <1>3 DEF Balanced
<1>4. CASE ~commanded
  <2>1. asset \in Data \cup {"FINISHED"} /\ ~Astray
    BY <1>1, <1>4 DEF Balanced, Asset, IsFailed, Astray, Data
  <2>2. Before(asset') = Before(asset) \cup ({asset} \cap {"LIST", "MNW"})
        /\ asset' \in Data \cup {"FINISHED"}
    BY <1>2, <2>1, BeforeSuccessor
  <2>3. pc'["tick"] = "idle" /\ pc'["tip"] = pc["tip"] /\ pc'["rpc"] = pc["rpc"]
    BY <1>1
  <2>4. Doomed' = {} /\ ~Astray'
    BY <1>2, <2>3 DEF Doomed, Astray, Data
  <2>5. Slips' = Slips
    BY <1>1, <1>2, <2>2, <2>4 DEF Slips, Doomed
  <2>6. /\ \A a, b \in Slips : a = b
        /\ Strays => Slips = {} /\ ~(TipStrays /\ pc["tick"] = "reset")
        /\ pc["rpc"] = "idle"
    BY <1>4, <2>1 DEF Balanced
  <2>7. asset' # "INITIAL" /\ (Strays' => Strays)
    BY <2>2, <2>3 DEF Strays, TipStrays, Data
  <2>8. QED BY <2>3, <2>4, <2>5, <2>6, <2>7 DEF Balanced
<1>5. QED BY <1>3, <1>4

\* The request counts as an attempt for the present asset, whatever it was sent for.
LEMMA RequestKeepsBalance ==
  ASSUME TypeOK, Balanced, RequestFromPeer
  PROVE  Balanced'
<1>1. /\ pc \in [Thread -> Pc] /\ {"tick", "tip", "rpc"} = Thread
      /\ pc["tick"] \in Data /\ pc' = [pc EXCEPT !["tick"] = "idle"]
      /\ asset' = asset /\ commanded' = commanded
      /\ asked' = asked \cup ({pc["tick"]} \cap {"LIST", "MNW"})
  BY DEF TypeOK, Thread, RequestFromPeer, GoOn
<1>2. CASE commanded
  BY <1>1, <1>2 DEF Balanced
<1>3. CASE ~commanded
  <2>1. asset # "INITIAL" /\ pc["rpc"] = "idle"
    BY <1>1, <1>3 DEF Balanced, Data
  <2>2. pc'["tick"] = "idle" /\ pc'["tip"] = pc["tip"] /\ pc'["rpc"] = pc["rpc"] /\ ~Astray'
    BY <1>1 DEF Astray, Data
  <2>3. Doomed' \subseteq {asset} /\ (pc["tick"] = asset => Doomed' = {})
    BY <1>1 DEF Doomed
  <2>4. pc["tick"] # "reset" /\ (Strays' <=> TipStrays)
    BY <1>1, <2>2 DEF Strays, TipStrays, Data
  <2>5. CASE Astray
    <3>1. ~TipStrays /\ Before(asset) \ asked \subseteq {pc["tick"]}
      BY <1>3, <2>5 DEF Balanced
    <3>2. Before(asset) \subseteq {"LIST", "MNW"}
      BY DEF Before
    <3>3. Before(asset') \ asked' = {}
      BY <1>1, <3>1, <3>2
    <3>4. \A a, b \in Slips' : a = b
      BY <2>3, <3>3 DEF Slips
    <3>5. QED BY <1>1, <2>1, <2>2, <2>4, <3>1, <3>4 DEF Balanced
  <2>6. CASE ~Astray
    <3>1. pc["tick"] = asset
      BY <1>1, <2>6 DEF Astray
    <3>2. Slips' \subseteq Slips
      BY <1>1, <2>3, <3>1 DEF Slips
    <3>3. /\ \A a, b \in Slips : a = b
          /\ TipStrays => Slips = {}
      BY <1>1, <1>3, <2>6, <3>1 DEF Balanced, Strays
    <3>4. Slips' = {} \/ ~TipStrays
      BY <3>2, <3>3
    <3>5. \A a, b \in Slips' : a = b
      BY <3>2, <3>3
    <3>6. QED BY <1>1, <2>1, <2>2, <2>4, <3>4, <3>5 DEF Balanced
  <2>7. QED BY <2>5, <2>6
<1>4. QED BY <1>2, <1>3

\* A call that takes the asset to be INITIAL: the first leaves it, the second passes over
\* whatever comes next.
LEMMA StrayKeepsBalance ==
  ASSUME TypeOK, TickInv, Balanced, ~commanded, commanded' = commanded,
         NEW thread \in {"tick", "tip"},
         pc[thread] = IF thread = "tick" THEN "reset" ELSE "initial",
         SwitchToNextAsset(thread), pc' = [pc EXCEPT ![thread] = "idle"]
  PROVE  Balanced'
<1>1. /\ pc \in [Thread -> Pc] /\ asset \in Asset /\ {"tick", "tip", "rpc"} = Thread
  BY DEF TypeOK, Thread
<1>2. /\ pc'[thread] = "idle" /\ pc'["rpc"] = pc["rpc"] /\ pc["rpc"] = "idle"
      /\ thread # "tick" => pc'["tick"] = pc["tick"]
      /\ thread # "tip" => pc'["tip"] = pc["tip"]
  BY <1>1 DEF Balanced
<1>3. Strays
  BY DEF Strays, TipStrays
<1>4. CASE IsFailed
  <2>1. thread = "tip" /\ asset' = asset /\ asset = "FAILED" /\ pc["tick"] = "idle"
    BY <1>1, <1>4, Switched DEF TickInv, IsFailed
  <2>2. ~Astray'
    BY <1>2, <2>1 DEF Astray, Data
  <2>3. QED BY <1>2, <2>1, <2>2 DEF Balanced, Data
<1>5. CASE ~IsFailed
  <2>1. asset' = Successor(asset) /\ attempt' = 0 /\ asked' = asked
    BY <1>1, <1>5, Switched
  <2>2. CASE asset = "INITIAL"
    <3>1. asset' = "LIST" /\ pc["tick"] \in {"idle", "reset"} /\ pc'["tick"] \in {"idle", "reset"}
      BY <1>2, <2>1, <2>2 DEF Successor, Balanced
    <3>2. Slips' = {} /\ ~Astray'
      BY <2>1, <3>1 DEF Slips, Doomed, Before, Astray, Data
    <3>3. ~(TipStrays' /\ pc'["tick"] = "reset")
      BY <1>2 DEF TipStrays
    <3>4. QED BY <1>2, <3>1, <3>2, <3>3 DEF Balanced
  <2>3. CASE asset \in Data \cup {"FINISHED"}
    <3>1. ~Astray
      BY DEF Balanced, Astray, TipStrays, Data
    <3>2. Slips = {} /\ ~(TipStrays /\ pc["tick"] = "reset")
      BY <1>3, <2>3, <3>1 DEF Balanced
    <3>3. ~Strays'
      BY <1>2, <3>2 DEF Strays, TipStrays
    <3>4. /\ Before(asset') = Before(asset) \cup ({asset} \cap {"LIST", "MNW"})
          /\ asset' \in Data \cup {"FINISHED"} /\ asset' # "INITIAL"
      BY <2>1, <2>3, BeforeSuccessor DEF Data
    <3>5. Before(asset') \ asked' \subseteq {asset}
      BY <2>1, <3>2, <3>4 DEF Slips
    <3>6. CASE Astray'
      <4>1. pc["tick"] \in Data /\ pc'["tick"] = pc["tick"]
        BY <1>2, <3>6 DEF Astray, Data
      <4>2. pc'["tick"] = asset
        BY <3>1, <4>1 DEF Astray
      <4>3. Doomed' = {}
        BY <2>1, <4>1 DEF Doomed, Data
      <4>4. QED BY <1>2, <3>3, <3>4, <3>5, <3>6, <4>2, <4>3 DEF Balanced, Strays
    <3>7. CASE ~Astray' /\ pc'["tick"] # "switch"
      <4>1. Doomed' = {}
        BY <2>1, <3>7 DEF Doomed
      <4>2. \A a, b \in Slips' : a = b
        BY <3>5, <4>1 DEF Slips
      <4>3. QED BY <1>2, <3>3, <3>4, <3>7, <4>2 DEF Balanced
    <3>8. CASE ~Astray' /\ pc'["tick"] = "switch"
      <4>1. pc["tick"] = "switch"
        BY <1>2, <3>8
      <4>2. asset \notin {"LIST", "MNW"} \ asked
        BY <3>2, <4>1 DEF Slips, Doomed
      <4>3. Before(asset') \ asked' = {}
        BY <2>1, <3>2, <3>4, <4>2 DEF Slips
      <4>4. \A a, b \in Slips' : a = b
        BY <4>3 DEF Slips, Doomed
      <4>5. QED BY <1>2, <3>3, <3>4, <3>8, <4>4 DEF Balanced
    <3>9. QED BY <3>6, <3>7, <3>8
  <2>4. QED BY <1>1, <1>5, <2>2, <2>3 DEF Asset, IsFailed
<1>6. QED BY <1>4, <1>5

\* A step of the tick that only looks.
LEMMA LoopKeepsBalance ==
  ASSUME TypeOK, Balanced, TickLoop
  PROVE  Balanced'
<1>1. /\ pc \in [Thread -> Pc] /\ {"tick", "tip", "rpc"} = Thread /\ attempt \in 0 .. 2
      /\ pc["tick"] = "idle"
      /\ UNCHANGED <<asset, attempt, asked, commanded>>
  BY LoopLeads DEF TypeOK, Thread, stateVars
<1>2. CASE pc' = pc
  BY <1>1, <1>2 DEF Balanced, Slips, Doomed, Strays, TipStrays, Astray
<1>3. CASE asset \in Data /\ \E to \in {"fail", "switch", asset} :
             /\ pc' = [pc EXCEPT !["tick"] = to]
             /\ to = "switch" => attempt > 0 \/ asset = "GOVERNANCE"
  <2>1. PICK to \in {"fail", "switch", asset} :
             /\ pc' = [pc EXCEPT !["tick"] = to]
             /\ to = "switch" => attempt > 0 \/ asset = "GOVERNANCE"
    BY <1>3
  <2>2. pc'["tick"] = to /\ pc'["tip"] = pc["tip"] /\ pc'["rpc"] = pc["rpc"]
    BY <1>1, <2>1
  <2>3. ~Astray /\ ~Astray' /\ to # "reset" /\ asset # "INITIAL"
    BY <1>1, <1>3, <2>2 DEF Astray, Data
  <2>4. Doomed' = Doomed
    BY <1>1, <1>3, <2>1, <2>2 DEF Doomed, Data
  <2>5. Slips' = Slips /\ (Strays' <=> Strays) /\ (TipStrays' <=> TipStrays)
    BY <1>1, <2>2, <2>3, <2>4 DEF Slips, Strays, TipStrays
  <2>6. CASE commanded
    BY <1>1, <2>6 DEF Balanced
  <2>7. CASE ~commanded
    <3>1. /\ \A a, b \in Slips : a = b
          /\ Strays => Slips = {} /\ ~(TipStrays /\ pc["tick"] = "reset")
          /\ pc["rpc"] = "idle"
      BY <1>3, <2>3, <2>7 DEF Balanced
    <3>2. asset' # "INITIAL" /\ pc'["tick"] # "reset" /\ pc'["rpc"] = "idle"
      BY <1>1, <2>2, <2>3, <3>1
    <3>3. QED BY <2>3, <2>5, <3>1, <3>2 DEF Balanced
  <2>8. QED BY <2>6, <2>7
<1>4. CASE asset \in Data /\ pc' = [pc EXCEPT !["tick"] = "fail"]
  BY <1>3, <1>4
<1>5. CASE asset \in Data /\ pc' = [pc EXCEPT !["tick"] = asset]
  BY <1>3, <1>5 DEF Data
<1>6. CASE /\ asset \in Data /\ pc' = [pc EXCEPT !["tick"] = "switch"]
           /\ attempt > 0 \/ asset = "GOVERNANCE"
  BY <1>3, <1>6
<1>7. QED BY <1>2, <1>4, <1>5, <1>6, LoopLeads

\* A step that leaves the asset alone, and the threads or one of UpdatedBlockTip's tests.
LEMMA OthersKeepBalance ==
  ASSUME TypeOK, TickInv, Balanced, UNCHANGED <<asset, attempt, asked, commanded>>,
         NEW to \in {"idle", "notFailed", "initial"},
         pc' = pc \/ pc' = [pc EXCEPT !["tip"] = to],
         to = "initial" => pc' = pc \/ asset \in {"INITIAL", "FAILED"}
  PROVE  Balanced'
<1>1. /\ pc \in [Thread -> Pc] /\ {"tick", "tip", "rpc"} = Thread
  BY DEF TypeOK, Thread
<1>2. pc'["tick"] = pc["tick"] /\ pc'["rpc"] = pc["rpc"]
  BY <1>1
<1>3. Doomed' = Doomed /\ Slips' = Slips /\ (Astray' <=> Astray)
  BY <1>2 DEF Slips, Doomed, Astray
<1>4. (TipStrays' => TipStrays) \/ asset \in {"INITIAL", "FAILED"}
  BY <1>1 DEF TipStrays
<1>5. asset \in {"INITIAL", "FAILED"} => ~Astray \/ commanded
  BY DEF Astray, Balanced, TickInv, IsFailed, Data
<1>6. QED BY <1>2, <1>3, <1>4, <1>5 DEF Balanced, Strays, Data

LEMMA StartIsBalanced ==
  ASSUME asset' \in FirstAsset, attempt' = 0,
         pc'["tick"] \in {"idle", "reset"}, pc'["rpc"] = "idle",
         asset' = "LIST" => pc'["tick"] = "idle"
  PROVE  Balanced'
BY DEF Balanced, FirstAsset, Slips, Doomed, Before, Strays, Astray, TipStrays, Data

\* The races between the tick and the block notification cost at most one asset before
\* governance its request, for any peers, timeouts and interleavings, unless mnsync is used.
THEOREM OneIsPassedOverAtMost == Spec => []OnePassedOverAtMost
<1>1. Init => Balanced
  BY DEF Init, Balanced, FirstAsset, Slips, Doomed, Before, Strays, Astray, TipStrays, Data, Thread
<1>2. TypeOK /\ TickInv /\ Balanced /\ [Next]_vars => Balanced'
  <2> SUFFICES ASSUME TypeOK, TickInv, Balanced, [Next]_vars PROVE Balanced'
    OBVIOUS
  <2>1. pc \in [Thread -> Pc] /\ {"tick", "tip", "rpc"} = Thread
    BY DEF TypeOK, Thread
  <2>2. CASE commanded' = TRUE
    BY <2>2 DEF Balanced
  <2>3. CASE MaintenanceThread
    <3>1. CASE BeginTick /\ ResetByTick
      <4>1. /\ asset' = "INITIAL" /\ attempt' = 0 /\ commanded' = (pc["rpc"] # "idle")
            /\ pc'["tick"] = "reset" /\ pc'["rpc"] = pc["rpc"]
        BY <2>1, <3>1 DEF ResetByTick, Reset
      <4>2. CASE pc["rpc"] = "idle"
        BY <4>1, <4>2, StartIsBalanced DEF FirstAsset
      <4>3. CASE pc["rpc"] # "idle"
        BY <2>2, <4>1, <4>3
      <4>4. QED BY <4>2, <4>3
    <3>2. CASE BeginTick /\ UNCHANGED <<stateVars, pc, commanded>>
      BY <3>2, OthersKeepBalance DEF stateVars
    <3>3. CASE TickLoop
      BY <3>3, LoopKeepsBalance
    <3>4. CASE TickSwitches
      BY <3>4, TickSwitchesKeepsBalance
    <3>5. CASE SwitchAfterReset("tick")
      <4>1. /\ pc["tick"] = "reset" /\ SwitchToNextAsset("tick")
            /\ pc' = [pc EXCEPT !["tick"] = "idle"] /\ commanded' = commanded
        BY <3>5 DEF SwitchAfterReset, GoOn
      <4>2. CASE commanded
        BY <4>1, <4>2 DEF Balanced
      <4>3. CASE ~commanded
        BY <4>1, <4>3, StrayKeepsBalance
      <4>4. QED BY <4>2, <4>3
    <3>6. CASE TickFails
      <4>1. /\ asset' = "FAILED" /\ commanded' = commanded
            /\ pc'["tick"] = "idle" /\ pc'["rpc"] = pc["rpc"]
        BY <2>1, <3>6 DEF TickFails, Fail, GoOn
      <4>2. QED BY <4>1 DEF Balanced, Astray, Data
    <3>7. CASE RequestFromPeer
      BY <3>7, RequestKeepsBalance
    <3>8. QED BY <2>3, <3>1, <3>2, <3>3, <3>4, <3>5, <3>6, <3>7
              DEF MaintenanceThread, ProcessTick, TickAfterSleep, TickFailed, TickSynced
  <2>4. CASE TipThread
    <3>1. CASE UpdatedBlockTip
      BY <3>1, OthersKeepBalance DEF UpdatedBlockTip, stateVars
    <3>2. CASE UpdatedBlockTipTested
      <4>1. /\ UNCHANGED <<asset, attempt, asked, commanded>>
            /\ \/ pc' = [pc EXCEPT !["tip"] = "idle"]
               \/ /\ pc' = [pc EXCEPT !["tip"] = "initial"]
                  /\ asset \in {"INITIAL", "FAILED"}
        BY <3>2 DEF UpdatedBlockTipTested, IsBlockchainSynced
      <4>2. QED BY <4>1, OthersKeepBalance
    <3>3. CASE UpdatedBlockTipSwitches
      <4>1. /\ pc["tip"] = "initial" /\ SwitchToNextAsset("tip")
            /\ pc' = [pc EXCEPT !["tip"] = "idle"] /\ commanded' = commanded
        BY <3>3 DEF UpdatedBlockTipSwitches, GoOn
      <4>2. CASE commanded
        BY <4>1, <4>2 DEF Balanced
      <4>3. CASE ~commanded
        BY <4>1, <4>3, StrayKeepsBalance
      <4>4. QED BY <4>2, <4>3
    <3>4. QED BY <2>4, <3>1, <3>2, <3>3 DEF TipThread
  <2>5. CASE RpcThread
    <3>1. CASE MnsyncNext \/ MnsyncReset
      BY <2>2, <3>1 DEF MnsyncNext, MnsyncReset
    <3>2. CASE SwitchAfterReset("rpc")
      BY <3>2 DEF SwitchAfterReset, GoOn, Balanced
    <3>3. QED BY <2>5, <3>1, <3>2 DEF RpcThread
  <2>6. CASE Environment
    <3>1. CASE Restart
      BY <2>1, <3>1, StartIsBalanced DEF Restart
    <3>2. CASE Environment /\ ~Restart
      <4>1. UNCHANGED <<asset, attempt, asked, commanded, pc>>
        BY <3>2 DEF Environment, Elapse, DataReceived, Connect, Disconnect, Expire, Sleep,
                    NetworkOnly, stateVars
      <4>2. QED BY <4>1, OthersKeepBalance
    <3>3. QED BY <2>6, <3>1, <3>2
  <2>7. CASE UNCHANGED vars
    BY <2>7, OthersKeepBalance DEF vars
  <2>8. QED BY <2>3, <2>4, <2>5, <2>6, <2>7 DEF Next
<1>3. Balanced /\ TypeOK => OnePassedOverAtMost
  <2> SUFFICES ASSUME Balanced, TypeOK, ~commanded, NEW a \in Before(asset) \ asked,
                      NEW b \in Before(asset) \ asked
               PROVE  a = b
    BY DEF OnePassedOverAtMost
  <2>1. asset \in Data \cup {"FINISHED"}
    BY DEF Before, Data
  <2>2. QED BY <2>1 DEF Balanced, Slips
<1>4. QED BY <1>1, <1>2, <1>3, TickInvHolds, TypeCorrect, PTL DEF Spec
=============================================================================
