----------------------- MODULE PrivatePaySessions_proofs -----------------------
(***************************************************************************)
(* What the mixing protocol guarantees across sessions, although a client  *)
(* and the masternode leave a session independently and the messages of    *)
(* the old one are still under way: whoever is bound to a final            *)
(* transaction is in the pool, every signature collected is for the        *)
(* transaction that will be committed, and what is committed mixes         *)
(* MaxPoolTransactions different clients.                                  *)
(*                                                                         *)
(* The argument rests on the order in which one connection delivers.  The  *)
(* entries of a client carry the number of its join, which only grows: a   *)
(* final transaction or a signature of an earlier session holds an older   *)
(* entry than anything the client sends now, and reaches the masternode    *)
(* before it.                                                              *)
(***************************************************************************)
EXTENDS PrivatePay_proofs

-----------------------------------------------------------------------------
(* The messages of one client *)

\* The requests of c that are under way, and the messages to it.
Asked(c, cmd) == {m \in ToSet(toServer[c]) : m.cmd = cmd}
Told(c, cmd) == {m \in ToSet(toClient[c]) : m.cmd = cmd}

\* The entries of c that the masternode has had in its pool, as far as they matter:
\* those that are there and those in a final transaction on its way to c.
Seen(c) ==
  {e \in Entry : /\ e.client = c
                 /\ \/ e \in ToSet(vecEntries)
                    \/ \E m \in Told(c, "PPFINALTX") : e \in m.tx}

Present(c) == \E e \in ToSet(vecEntries) : e.client = c

\* The signatures of c that are collected or under way.
SignaturesOf(c) ==
  {s \in Signature : \/ s \in scriptSigs /\ s.input.client = c
                     \/ \E m \in Asked(c, "PPSIGNFINALTX") : m.sig = s}

-----------------------------------------------------------------------------
(* The inductive invariant *)

\* A client does not send an entry and then a signature that overtakes it.
RequestsInOrder(q) ==
  \A i, j \in DOMAIN q : i < j /\ q[i].cmd = "PPVIN" =>
    /\ q[j].cmd # "PPSIGNFINALTX"
    /\ q[j].cmd = "PPVIN" => q[i].entry.join < q[j].entry.join

\* Once the final transaction of a session is sent, nobody is admitted to it.
MessagesInOrder(q) ==
  \A i, j \in DOMAIN q :
    i < j /\ q[i].cmd = "PPFINALTX" /\ q[j].cmd = "ACCEPTED" => q[i].id # q[j].id

\* e is of a join that c has entered, and of an earlier one while c is in the queue.
Made(c, e) == e.join <= joins[c] /\ (cState[c] = "QUEUE" => e.join < joins[c])

ClientEntriesInv(c) ==
  /\ \A e \in cEntries[c] : e.client = c /\ e.join = joins[c] /\ cEntries[c] = {e}
  /\ \A m \in Asked(c, "PPVIN") :
       /\ m.entry.client = c /\ Made(c, m.entry)
       /\ \A f \in Seen(c) : f.join < m.entry.join
  /\ \A f \in Seen(c) : Made(c, f)
  /\ RequestsInOrder(toServer[c])

EntriesInv == \A c \in Client : ClientEntriesInv(c)

\* Session identifiers are never given out twice.
IdsOf(c) ==
  /\ cSessionID[c] <= lastSession
  /\ \A m \in Told(c, "ACCEPTED") \cup Told(c, "PPFINALTX") : m.id \in 1 .. lastSession
  /\ MessagesInOrder(toClient[c])

IdsInv == nSessionID <= lastSession /\ \A c \in Client : IdsOf(c)

\* A final transaction is that of the session, or older than the client's entry in the pool.
FinalFits(c, m) ==
  IF m.id = nSessionID
  THEN nState = "SIGNING" /\ m.tx = ToSet(vecEntries)
  ELSE \A e \in m.tx, f \in ToSet(vecEntries) :
         e.client = c /\ f.client = c => e.join < f.join

FinalsInv == \A c \in Client : \A m \in Told(c, "PPFINALTX") : FinalFits(c, m)

\* A signature is under way for the current transaction, or its client is not in the pool.
SignatureFits(c, s) ==
  /\ s.input.client = c
  /\ Present(c) => nState = "SIGNING" /\ s.tx = ToSet(vecEntries)

SignaturesUnderWay ==
  \A c \in Client : \A m \in Asked(c, "PPSIGNFINALTX") : SignatureFits(c, m.sig)

NoEarlySignatures == nState # "SIGNING" => scriptSigs = {}

DifferentInputs ==
  \A i, j \in DOMAIN vecEntries : Prevout(vecEntries[i]) = Prevout(vecEntries[j]) => i = j

\* A client that has signed for the current transaction does not sign for another entry of it.
BoundTo(c, s) ==
  /\ \A m \in Told(c, "ACCEPTED") : m.id # nSessionID
  /\ cSessionID[c] = nSessionID =>
       cState[c] = "SIGNING" /\ \A e \in cEntries[c] : Prevout(e) = s.input
  /\ \A t \in SignaturesOf(c) : t.input = s.input

SignedOnce == \A c \in Client : Present(c) => \A s \in SignaturesOf(c) : BoundTo(c, s)

SignaturesInv ==
  /\ NoEarlySignatures /\ SignaturesFit /\ SignaturesUnderWay
  /\ DifferentInputs /\ SignedOnce

SessionInv == EntriesInv /\ IdsInv /\ FinalsInv /\ SignaturesInv /\ SignersAreInThePool

\* What is already known of every state.
KnownInv == TypeInv /\ PoolInv /\ ClientsConsistent

-----------------------------------------------------------------------------
(* Queues *)

LEMMA ToSetType ==
  ASSUME NEW S, NEW q \in Seq(S)
  PROVE  ToSet(q) \in SUBSET S
BY DEF ToSet

LEMMA ToSetOfConcat ==
  ASSUME NEW S, NEW q \in Seq(S), NEW w \in Seq(S)
  PROVE  ToSet(q \o w) \subseteq ToSet(q) \cup ToSet(w)
<1> SUFFICES ASSUME NEW i \in DOMAIN (q \o w)
             PROVE  (q \o w)[i] \in ToSet(q) \cup ToSet(w)
  BY DEF ToSet
<1>1. /\ Len(q \o w) = Len(q) + Len(w) /\ DOMAIN (q \o w) = 1 .. Len(q \o w)
      /\ Len(q) \in Nat /\ Len(w) \in Nat /\ DOMAIN q = 1 .. Len(q) /\ DOMAIN w = 1 .. Len(w)
      /\ (q \o w)[i] = IF i <= Len(q) THEN q[i] ELSE w[i - Len(q)]
  BY ConcatProperties
<1>2. CASE i <= Len(q)
  BY <1>1, <1>2 DEF ToSet
<1>3. CASE ~(i <= Len(q))
  <2>1. i - Len(q) \in DOMAIN w
    BY <1>1, <1>3
  <2> QED
    BY <1>1, <1>3, <2>1 DEF ToSet
<1> QED
  BY <1>2, <1>3

LEMMA ToSetOfTail ==
  ASSUME NEW S, NEW q \in Seq(S), q # <<>>
  PROVE  ToSet(Tail(q)) \subseteq ToSet(q) /\ Head(q) \in ToSet(q)
<1>1. \A i \in DOMAIN Tail(q) : i + 1 \in DOMAIN q /\ Tail(q)[i] = q[i + 1]
  BY HeadTailProperties
<1>2. 1 \in DOMAIN q /\ Head(q) = q[1]
  BY EmptySeq
<1> QED
  BY <1>1, <1>2 DEF ToSet

LEMMA ToSetOfAppend ==
  ASSUME NEW S, NEW q \in Seq(S), NEW m \in S
  PROVE  ToSet(Append(q, m)) = ToSet(q) \cup {m}
<1>1. /\ Len(Append(q, m)) = Len(q) + 1 /\ Len(q) \in Nat
      /\ DOMAIN q = 1 .. Len(q) /\ DOMAIN Append(q, m) = 1 .. Len(q) + 1
      /\ \A i \in 1 .. Len(q) : Append(q, m)[i] = q[i]
      /\ Append(q, m)[Len(q) + 1] = m
  BY AppendProperties
<1> QED
  BY <1>1 DEF ToSet

\* After a step, the queue q of requests has become r, and nothing was sent.
Shrinks(q, r) == ToSet(r) \subseteq ToSet(q) /\ (RequestsInOrder(q) => RequestsInOrder(r))

\* After a step, the queue q of messages has become r; those sent are from M.
Follows(q, M) ==
  \A m \in M : m.cmd = "ACCEPTED" =>
    \A f \in ToSet(q) \cup M : f.cmd = "PPFINALTX" => f.id # m.id

Grows(q, r, M) ==
  /\ ToSet(r) \subseteq ToSet(q) \cup M
  /\ MessagesInOrder(q) /\ Follows(q, M) => MessagesInOrder(r)

LEMMA RequestsShrink ==
  ASSUME NEW q \in Seq(Request)
  PROVE  /\ Shrinks(q, q) /\ Shrinks(q, <<>>)
         /\ q # <<>> => Shrinks(q, Tail(q)) /\ Shrinks(q, <<Head(q)>>)
<1>1. Shrinks(q, q) /\ Shrinks(q, <<>>)
  BY DEF Shrinks, RequestsInOrder, ToSet
<1>2. ASSUME q # <<>> PROVE Shrinks(q, Tail(q))
  <2>1. /\ Len(q) \in Nat \ {0} /\ DOMAIN q = 1 .. Len(q) /\ DOMAIN Tail(q) = 1 .. Len(q) - 1
        /\ \A i \in DOMAIN Tail(q) : Tail(q)[i] = q[i + 1]
    BY <1>2, HeadTailProperties, EmptySeq
  <2>2. \A i \in DOMAIN Tail(q) : i + 1 \in DOMAIN q
    BY <2>1
  <2>3. \A i, j \in DOMAIN Tail(q) : i < j => i + 1 < j + 1
    BY <2>1
  <2>4. RequestsInOrder(q) => RequestsInOrder(Tail(q))
    BY <2>1, <2>2, <2>3 DEF RequestsInOrder
  <2> QED
    BY <1>2, <2>4, ToSetOfTail DEF Shrinks
<1>3. ASSUME q # <<>> PROVE Shrinks(q, <<Head(q)>>)
  <2>1. DOMAIN <<Head(q)>> = {1} /\ <<Head(q)>>[1] = Head(q)
    OBVIOUS
  <2>2. RequestsInOrder(<<Head(q)>>)
    BY <2>1 DEF RequestsInOrder
  <2>3. ToSet(<<Head(q)>>) = {Head(q)}
    BY <2>1 DEF ToSet
  <2> QED
    BY <1>3, <2>2, <2>3, ToSetOfTail DEF Shrinks
<1> QED
  BY <1>1, <1>2, <1>3

LEMMA MessagesShrink ==
  ASSUME NEW q \in Seq(Message), NEW M
  PROVE  /\ Grows(q, q, M) /\ Grows(q, <<>>, M)
         /\ q # <<>> => Grows(q, Tail(q), M)
<1>1. Grows(q, q, M) /\ Grows(q, <<>>, M)
  BY DEF Grows, MessagesInOrder, ToSet
<1>2. ASSUME q # <<>> PROVE Grows(q, Tail(q), M)
  <2>1. /\ Len(q) \in Nat \ {0} /\ DOMAIN q = 1 .. Len(q) /\ DOMAIN Tail(q) = 1 .. Len(q) - 1
        /\ \A i \in DOMAIN Tail(q) : Tail(q)[i] = q[i + 1]
    BY <1>2, HeadTailProperties, EmptySeq
  <2>2. \A i \in DOMAIN Tail(q) : i + 1 \in DOMAIN q
    BY <2>1
  <2>3. \A i, j \in DOMAIN Tail(q) : i < j => i + 1 < j + 1
    BY <2>1
  <2>4. MessagesInOrder(q) => MessagesInOrder(Tail(q))
    BY <2>1, <2>2, <2>3 DEF MessagesInOrder
  <2> QED
    BY <1>2, <2>4, ToSetOfTail DEF Grows
<1> QED
  BY <1>1, <1>2

LEMMA MessagesGrow ==
  ASSUME NEW M \in SUBSET Message, NEW q \in Seq(Message), NEW w \in Seq(M)
  PROVE  Grows(q, q \o w, M)
<1> DEFINE r == q \o w
<1>0. w \in Seq(Message)
  OBVIOUS
<1>1. /\ Len(r) = Len(q) + Len(w) /\ DOMAIN r = 1 .. Len(r)
      /\ Len(q) \in Nat /\ Len(w) \in Nat /\ DOMAIN q = 1 .. Len(q) /\ DOMAIN w = 1 .. Len(w)
      /\ \A i \in DOMAIN r : r[i] = IF i <= Len(q) THEN q[i] ELSE w[i - Len(q)]
  BY <1>0, ConcatProperties
<1>2. ToSet(r) \subseteq ToSet(q) \cup M
  BY <1>0, ToSetOfConcat, ToSetType
<1>3. ASSUME MessagesInOrder(q), Follows(q, M),
             NEW i \in DOMAIN r, NEW j \in DOMAIN r, i < j,
             r[i].cmd = "PPFINALTX", r[j].cmd = "ACCEPTED"
      PROVE  r[i].id # r[j].id
  <2>1. CASE j <= Len(q)
    <3>1. i \in DOMAIN q /\ j \in DOMAIN q /\ r[i] = q[i] /\ r[j] = q[j]
      BY <1>1, <1>3, <2>1
    <3> QED
      BY <1>3, <3>1 DEF MessagesInOrder
  <2>2. CASE ~(j <= Len(q))
    <3>1. j - Len(q) \in DOMAIN w /\ r[j] = w[j - Len(q)]
      BY <1>1, <2>2
    <3>2. r[j] \in M
      BY <3>1
    <3>3. r[i] \in ToSet(q) \cup M
      BY <1>2 DEF ToSet
    <3> QED
      BY <1>3, <3>2, <3>3 DEF Follows
  <2> QED
    BY <2>1, <2>2
<1>4. MessagesInOrder(q) /\ Follows(q, M) => MessagesInOrder(r)
  BY <1>3 DEF MessagesInOrder
<1> QED
  BY <1>2, <1>4 DEF Grows

-----------------------------------------------------------------------------
(* What the relays send *)

\* Everybody's queue is extended with messages from M.
Sends(out, new, M) == \A c \in Client : \E w \in Seq(M) : new[c] = out[c] \o w

LEMMA SendsNothing ==
  ASSUME NEW out \in Outbox, NEW M
  PROVE  Sends(out, out, M)
<1>1. \A c \in Client : out[c] \in Seq(Message)
  BY DEF Outbox
<1>2. <<>> \in Seq(M)
  BY EmptySeq
<1> QED
  BY <1>1, <1>2, ConcatEmptySeq DEF Sends

LEMMA SendsBoth ==
  ASSUME NEW out \in Outbox, NEW mid, NEW new, NEW M \in SUBSET Message,
         Sends(out, mid, M), Sends(mid, new, M)
  PROVE  Sends(out, new, M)
<1> SUFFICES ASSUME NEW c \in Client PROVE \E w \in Seq(M) : new[c] = out[c] \o w
  BY DEF Sends
<1>1. PICK v \in Seq(M) : mid[c] = out[c] \o v
  BY DEF Sends
<1>2. PICK w \in Seq(M) : new[c] = mid[c] \o w
  BY DEF Sends
<1>3. out[c] \in Seq(Message) /\ v \in Seq(Message) /\ w \in Seq(Message)
  BY DEF Outbox
<1>4. new[c] = out[c] \o (v \o w)
  <2>1. (out[c] \o v) \o w = out[c] \o (v \o w)
    <3> DEFINE q == out[c]
    <3>1. q \in Seq(Message)
      BY <1>3
    <3> HIDE DEF q
    <3>2. (q \o v) \o w = q \o (v \o w)
      BY <1>3, <3>1
    <3> QED
      BY <3>2 DEF q
  <2> QED
    BY <1>1, <1>2, <2>1
<1>5. v \o w \in Seq(M)
  BY ConcatProperties
<1> QED
  BY <1>4, <1>5

LEMMA SendsMore ==
  ASSUME NEW out, NEW new, NEW M, NEW N, M \subseteq N, Sends(out, new, M)
  PROVE  Sends(out, new, N)
<1>1. \A w \in Seq(M) : w \in Seq(N)
  OBVIOUS
<1> QED
  BY <1>1 DEF Sends

LEMMA PushSends ==
  ASSUME NEW out \in Outbox, NEW c \in Client, NEW m \in Message
  PROVE  Sends(out, Push(out, c, m), {m})
<1> SUFFICES ASSUME NEW p \in Client
             PROVE  \E w \in Seq({m}) : Push(out, c, m)[p] = out[p] \o w
  BY DEF Sends
<1>1. out[p] \in Seq(Message)
  BY DEF Outbox
<1>2. <<>> \in Seq({m}) /\ <<m>> \in Seq({m})
  BY EmptySeq
<1>3. out[p] = out[p] \o <<>> /\ Append(out[p], m) = out[p] \o <<m>>
  BY <1>1, ConcatEmptySeq
<1>4. Push(out, c, m)[p] \in {out[p], Append(out[p], m)}
  BY DEF Push, Outbox
<1> QED
  BY <1>2, <1>3, <1>4

LEMMA MulticastSends ==
  ASSUME NEW out \in Outbox, NEW ents \in Seq(Entry),
         NEW I \in SUBSET DOMAIN ents, NEW m \in Message
  PROVE  /\ Sends(out, Multicast(out, ents, I, m), {m})
         /\ I = {} => Sends(out, Multicast(out, ents, I, m), {})
<1> DEFINE n(c) == Cardinality({i \in I : ents[i].client = c})
           copies(c) == [k \in 1 .. n(c) |-> m]
<1>1. \A c : n(c) \in Nat /\ (I = {} => n(c) = 0)
  <2> TAKE c
  <2>1. Len(ents) \in Nat /\ DOMAIN ents = 1 .. Len(ents)
    OBVIOUS
  <2>2. IsFiniteSet(1 .. Len(ents))
    BY <2>1, FS_Interval
  <2>3. {i \in I : ents[i].client = c} \in SUBSET (1 .. Len(ents))
    BY <2>1
  <2>4. IsFiniteSet({i \in I : ents[i].client = c})
    BY <2>2, <2>3, FS_Subset
  <2>5. I = {} => {i \in I : ents[i].client = c} = {}
    OBVIOUS
  <2> QED
    BY <2>4, <2>5, FS_CardinalityType, FS_EmptySet
<1>2. \A c : copies(c) \in Seq({m}) /\ (I = {} => copies(c) \in Seq({}))
  <2> TAKE c
  <2>1. n(c) \in Nat /\ (I = {} => n(c) = 0)
    BY <1>1
  <2> HIDE DEF n
  <2>2. copies(c) \in Seq({m})
    BY <2>1
  <2>3. n(c) = 0 => copies(c) \in Seq({})
    OBVIOUS
  <2> QED
    BY <2>1, <2>2, <2>3
<1>3. \A c \in Client : out[c] = out[c] \o <<>>
  BY ConcatEmptySeq DEF Outbox
<1>4. <<>> \in Seq({m}) /\ <<>> \in Seq({})
  BY EmptySeq
<1>5. Multicast(out, ents, I, m) =
        [c \in Client |-> IF c \in connected THEN out[c] \o copies(c) ELSE out[c]]
  BY DEF Multicast
<1> HIDE DEF copies
<1> QED
  BY <1>2, <1>3, <1>4, <1>5 DEF Sends

LEMMA TerminateIfGoneSends ==
  ASSUME NEW out \in Outbox, NEW ents \in Seq(Entry)
  PROVE  Sends(out, TerminateIfGone(out, ents), {Rejected})
<1>1. Sends(out, Multicast(out, ents, DOMAIN ents, Rejected), {Rejected})
  BY MulticastSends, Messages
<1> QED
  BY <1>1, SendsNothing DEF TerminateIfGone

LEMMA RelayRejectedSends ==
  ASSUME NEW out \in Outbox, NEW ents \in Seq(Entry)
  PROVE  Sends(out, RelayRejected(out, ents), {Rejected})
<1> DEFINE told == Multicast(out, ents, DOMAIN ents, Rejected)
<1>1. told \in Outbox /\ Sends(out, told, {Rejected})
  BY MulticastType, MulticastSends, Messages
<1>2. Sends(told, TerminateIfGone(told, ents), {Rejected})
  BY <1>1, TerminateIfGoneSends
<1>3. {Rejected} \in SUBSET Message
  BY Messages
<1> QED
  BY <1>1, <1>2, <1>3, SendsBoth DEF RelayRejected

\* Only a session in the queue admits anybody.
Admissions == IF nState = "QUEUE" THEN {Accepted(nSessionID)} ELSE {}

LEMMA AdmissionsAreMessages ==
  ASSUME nSessionID \in Nat
  PROVE  Admissions \in SUBSET Message
BY Messages DEF Admissions

LEMMA PushAcceptedSends ==
  ASSUME NEW out \in Outbox, NEW c \in Client, nSessionID \in Nat
  PROVE  Sends(out, PushAccepted(out, c), Admissions)
BY PushSends, SendsNothing, Messages DEF PushAccepted, Admissions

LEMMA RelayAcceptedSends ==
  ASSUME NEW out \in Outbox, NEW ents \in Seq(Entry), nSessionID \in Nat
  PROVE  Sends(out, RelayAccepted(out, ents), Admissions \cup {Rejected})
<1> DEFINE M == Admissions \cup {Rejected}
           told == IF nState = "QUEUE"
                   THEN Multicast(out, ents, DOMAIN ents, Accepted(nSessionID)) ELSE out
<1>1. told \in Outbox
  BY MulticastType, Messages
<1>2. Sends(out, told, Admissions)
  BY MulticastSends, SendsNothing, Messages DEF Admissions
<1>3. Sends(told, TerminateIfGone(told, ents), {Rejected})
  BY <1>1, TerminateIfGoneSends
<1>4. M \in SUBSET Message
  BY AdmissionsAreMessages, Messages
<1>5. RelayAccepted(out, ents) = TerminateIfGone(told, ents)
  BY DEF RelayAccepted
<1>6. Sends(out, told, M) /\ Sends(told, RelayAccepted(out, ents), M)
  <2> HIDE DEF told
  <2> QED
    BY <1>2, <1>3, <1>5, SendsMore
<1> HIDE DEF M, told
<1> QED
  BY <1>4, <1>6, SendsBoth DEF M

\* When everybody is gone, the message of RelayToAll reaches nobody.
LEMMA RelayToAllSends ==
  ASSUME NEW out \in Outbox, NEW ents \in Seq(Entry), NEW m \in Message
  PROVE  /\ Sends(out, RelayToAll(out, ents, m), {m, Rejected})
         /\ AllGone(ents) => Sends(out, RelayToAll(out, ents, m), {Rejected})
<1> DEFINE told == Multicast(out, ents, Served(ents), m)
<1>1. Served(ents) \in SUBSET DOMAIN ents
  BY DEF Served
<1>2. told \in Outbox /\ Sends(out, told, {m})
  BY <1>1, MulticastType, MulticastSends
<1>3. AllGone(ents) => Sends(out, told, {})
  <2>1. AllGone(ents) => Served(ents) = {}
    BY DEF AllGone, Served
  <2> QED
    BY <1>1, <2>1, MulticastSends
<1>4. Sends(told, RelayToAll(out, ents, m), {Rejected})
  BY <1>2, RelayRejectedSends, SendsNothing DEF RelayToAll
<1> HIDE DEF told
<1>5. {m, Rejected} \in SUBSET Message /\ {Rejected} \in SUBSET Message
  BY Messages
<1>6. Sends(out, RelayToAll(out, ents, m), {m, Rejected})
  <2>1. Sends(out, told, {m, Rejected}) /\ Sends(told, RelayToAll(out, ents, m), {m, Rejected})
    BY <1>2, <1>4, SendsMore
  <2> QED
    BY <1>5, <2>1, SendsBoth
<1>7. AllGone(ents) => Sends(out, RelayToAll(out, ents, m), {Rejected})
  <2>1. AllGone(ents) => Sends(out, told, {Rejected})
    BY <1>3, SendsMore
  <2> QED
    BY <1>4, <1>5, <2>1, SendsBoth
<1> QED
  BY <1>6, <1>7

-----------------------------------------------------------------------------
(* Steps of the masternode *)

\* A step that changes no client takes requests and sends messages from M.
ServerStep(M) ==
  /\ UNCHANGED clientVars
  /\ \A c \in Client : /\ Shrinks(toServer[c], toServer'[c])
                        /\ Grows(toClient[c], toClient'[c], M)

LEMMA ServerStepQueues ==
  ASSUME NEW M, ServerStep(M), NEW c \in Client
  PROVE  /\ \A cmd : Asked(c, cmd)' \subseteq Asked(c, cmd)
         /\ \A cmd : Told(c, cmd)' \subseteq Told(c, cmd) \cup {m \in M : m.cmd = cmd}
         /\ RequestsInOrder(toServer[c]) => RequestsInOrder(toServer[c])'
         /\ MessagesInOrder(toClient[c]) /\ Follows(toClient[c], M)
              => MessagesInOrder(toClient[c])'
<1>1. Shrinks(toServer[c], toServer'[c]) /\ Grows(toClient[c], toClient'[c], M)
  BY DEF ServerStep
<1>2. \A cmd : Asked(c, cmd)' \subseteq Asked(c, cmd)
  BY <1>1 DEF Shrinks, Asked
<1>3. \A cmd : Told(c, cmd)' \subseteq Told(c, cmd) \cup {m \in M : m.cmd = cmd}
  BY <1>1 DEF Grows, Told
<1>4. /\ RequestsInOrder(toServer[c])' <=> RequestsInOrder(toServer'[c])
      /\ MessagesInOrder(toClient[c])' <=> MessagesInOrder(toClient'[c])
  BY DEF RequestsInOrder, MessagesInOrder
<1> QED
  BY <1>1, <1>2, <1>3, <1>4 DEF Shrinks, Grows

\* Without a new final transaction, the client's entries are only forgotten.
LEMMA SeenShrinks ==
  ASSUME NEW M, ServerStep(M), NEW c \in Client,
         ToSet(vecEntries)' \subseteq ToSet(vecEntries), \A m \in M : m.cmd # "PPFINALTX"
  PROVE  Seen(c)' \subseteq Seen(c)
<1>1. Told(c, "PPFINALTX")' \subseteq Told(c, "PPFINALTX")
  BY ServerStepQueues
<1> QED
  BY <1>1 DEF Seen

LEMMA EntriesStep ==
  ASSUME EntriesInv, NEW M, ServerStep(M), \A c \in Client : Seen(c)' \subseteq Seen(c)
  PROVE  EntriesInv'
<1> SUFFICES ASSUME NEW c \in Client PROVE ClientEntriesInv(c)'
  BY DEF EntriesInv
<1>1. ClientEntriesInv(c) /\ UNCHANGED <<cEntries, joins, cState>>
  BY DEF EntriesInv, ServerStep, clientVars
<1>2. /\ Asked(c, "PPVIN")' \subseteq Asked(c, "PPVIN")
      /\ RequestsInOrder(toServer[c]) => RequestsInOrder(toServer[c])'
  BY ServerStepQueues
<1>3. \A e : Made(c, e)' <=> Made(c, e)
  BY <1>1 DEF Made
<1> QED
  BY <1>1, <1>2, <1>3 DEF ClientEntriesInv

LEMMA IdsStep ==
  ASSUME TypeOK, IdsInv, NEW M, ServerStep(M),
         lastSession' \in {lastSession, lastSession + 1}, nSessionID' <= lastSession',
         \A m \in M : m.cmd \in {"ACCEPTED", "PPFINALTX"} => m.id \in 1 .. lastSession',
         \A c \in Client : Follows(toClient[c], M)
  PROVE  IdsInv'
<1> SUFFICES ASSUME NEW c \in Client PROVE IdsOf(c)'
  BY DEF IdsInv
<1>1. IdsOf(c) /\ cSessionID'[c] = cSessionID[c] /\ cSessionID[c] \in Nat /\ lastSession \in Nat
  BY DEF IdsInv, ServerStep, clientVars, TypeOK
<1>2. /\ Told(c, "ACCEPTED")' \subseteq Told(c, "ACCEPTED") \cup {m \in M : m.cmd = "ACCEPTED"}
      /\ Told(c, "PPFINALTX")' \subseteq Told(c, "PPFINALTX") \cup {m \in M : m.cmd = "PPFINALTX"}
      /\ MessagesInOrder(toClient[c]) => MessagesInOrder(toClient[c])'
  BY ServerStepQueues
<1>3. \A i \in 1 .. lastSession : i \in 1 .. lastSession'
  BY <1>1
<1>4. cSessionID'[c] <= lastSession'
  BY <1>1 DEF IdsOf
<1>5. \A m \in Told(c, "ACCEPTED")' \cup Told(c, "PPFINALTX")' : m.id \in 1 .. lastSession'
  BY <1>1, <1>2, <1>3 DEF IdsOf
<1> QED
  BY <1>1, <1>2, <1>4, <1>5 DEF IdsOf

\* Nobody that is present has a signature under way or collected before the signing begins.
LEMMA NoSignatures ==
  ASSUME SignaturesInv, nState # "SIGNING", NEW c \in Client, Present(c)
  PROVE  SignaturesOf(c) = {}
BY DEF SignaturesInv, NoEarlySignatures, SignaturesUnderWay, SignatureFits, SignaturesOf

LEMMA SignaturesShrink ==
  ASSUME NEW M, ServerStep(M), NEW c \in Client, scriptSigs' \subseteq scriptSigs
  PROVE  SignaturesOf(c)' \subseteq SignaturesOf(c)
BY ServerStepQueues DEF SignaturesOf

\* The pool is left as it is, and may be opened for entries; clients may be admitted to it.
LEMMA PoolKept ==
  ASSUME KnownInv, SessionInv, NEW M, ServerStep(M),
         UNCHANGED <<nSessionID, vecEntries, scriptSigs, lastSession>>,
         nState' = nState \/ (nState = "QUEUE" /\ nState' = "ACCEPTING_ENTRIES"),
         \A m \in M : m.cmd # "PPFINALTX" /\ (m.cmd = "ACCEPTED" => m \in Admissions)
  PROVE  SessionInv'
<1>0. TypeOK /\ PoolConsistent /\ nSessionID \in Nat /\ lastSession \in Nat
  BY DEF KnownInv, TypeInv, PoolInv, TypeOK
<1>1. EntriesInv'
  BY SeenShrinks, EntriesStep DEF SessionInv
<1>2. \A m \in M : m.cmd = "ACCEPTED" => nState = "QUEUE" /\ m.id = nSessionID
  BY DEF Admissions, Accepted
<1>3. \A c \in Client : \A f \in Told(c, "PPFINALTX") : f.id = nSessionID => nState = "SIGNING"
  BY DEF SessionInv, FinalsInv, FinalFits
<1>4. IdsInv'
  <2>1. \A c \in Client : Follows(toClient[c], M)
    BY <1>2, <1>3 DEF Follows, Told
  <2>2. \A m \in M : m.cmd \in {"ACCEPTED", "PPFINALTX"} => m.id \in 1 .. lastSession'
    BY <1>0, <1>2 DEF PoolConsistent, SessionInv, IdsInv
  <2> QED
    BY <1>0, <2>1, <2>2, IdsStep DEF SessionInv, IdsInv
<1>5. nState' = "SIGNING" <=> nState = "SIGNING"
  OBVIOUS
<1>6. FinalsInv'
  <2> SUFFICES ASSUME NEW c \in Client, NEW m \in Told(c, "PPFINALTX")' PROVE FinalFits(c, m)'
    BY DEF FinalsInv
  <2>1. m \in Told(c, "PPFINALTX")
    BY ServerStepQueues
  <2> QED
    BY <1>5, <2>1 DEF SessionInv, FinalsInv, FinalFits
<1>7. \A c \in Client : Present(c)' <=> Present(c)
  BY DEF Present
<1>8. NoEarlySignatures' /\ SignaturesFit' /\ DifferentInputs'
  BY <1>5 DEF SessionInv, SignaturesInv, NoEarlySignatures, SignaturesFit, DifferentInputs
<1>9. SignaturesUnderWay'
  BY <1>5, <1>7, ServerStepQueues
     DEF SessionInv, SignaturesInv, SignaturesUnderWay, SignatureFits
<1>10. SignedOnce'
  <2> SUFFICES ASSUME NEW c \in Client, Present(c)', NEW s \in SignaturesOf(c)'
               PROVE  BoundTo(c, s)'
    BY DEF SignedOnce
  <2>1. Present(c) /\ s \in SignaturesOf(c)
    BY <1>7, SignaturesShrink
  <2>2. nState = "SIGNING" /\ BoundTo(c, s)
    BY <2>1, NoSignatures DEF SessionInv, SignaturesInv, SignedOnce
  <2>3. Told(c, "ACCEPTED")' \subseteq Told(c, "ACCEPTED")
    BY <1>2, <2>2, ServerStepQueues
  <2>4. UNCHANGED <<cSessionID, cState, cEntries>>
    BY DEF ServerStep, clientVars
  <2> QED
    BY <2>2, <2>3, <2>4, SignaturesShrink DEF BoundTo
<1>11. SignersAreInThePool'
  BY <1>5 DEF SessionInv, SignersAreInThePool, ServerStep, clientVars
<1> QED
  BY <1>1, <1>4, <1>6, <1>8, <1>9, <1>10, <1>11 DEF SessionInv, SignaturesInv

\* The pool is emptied, and its session forgotten.
LEMMA PoolCleared ==
  ASSUME KnownInv, SessionInv, NEW M, ServerStep(M), ClearSession, UNCHANGED lastSession,
         \A m \in M : m.cmd \notin {"PPFINALTX", "ACCEPTED"}
  PROVE  SessionInv'
<1>0. TypeOK /\ nSessionID \in Nat /\ lastSession \in Nat
  BY DEF KnownInv, TypeInv, TypeOK
<1>1. nSessionID' = 0 /\ vecEntries' = <<>> /\ scriptSigs' = {} /\ ToSet(vecEntries)' = {}
  BY DEF ClearSession, ToSet
<1>2. EntriesInv'
  BY <1>1, SeenShrinks, EntriesStep DEF SessionInv
<1>3. IdsInv'
  BY <1>0, <1>1, IdsStep DEF SessionInv, Follows
<1>4. FinalsInv'
  <2> SUFFICES ASSUME NEW c \in Client, NEW m \in Told(c, "PPFINALTX")' PROVE FinalFits(c, m)'
    BY DEF FinalsInv
  <2>1. m \in Told(c, "PPFINALTX")
    BY ServerStepQueues
  <2>2. m.id # 0
    BY <1>0, <2>1 DEF SessionInv, IdsInv, IdsOf
  <2> QED
    BY <1>1, <2>2 DEF FinalFits
<1>5. \A c \in Client : ~Present(c)'
  BY <1>1 DEF Present
<1>6. NoEarlySignatures' /\ SignaturesFit' /\ DifferentInputs'
  BY <1>1 DEF NoEarlySignatures, SignaturesFit, DifferentInputs
<1>7. SignaturesUnderWay'
  BY <1>5, ServerStepQueues DEF SessionInv, SignaturesInv, SignaturesUnderWay, SignatureFits
<1>8. SignedOnce'
  BY <1>5 DEF SignedOnce
<1>9. SignersAreInThePool'
  BY <1>1 DEF KnownInv, ClientsConsistent, SignersAreInThePool, ServerStep, clientVars
<1> QED
  BY <1>2, <1>3, <1>4, <1>6, <1>7, <1>8, <1>9 DEF SessionInv, SignaturesInv

\* A session that is opened has an identifier that nobody knows yet; an entry that was
\* carried over (AddEntry after SetNull) stays.
LEMMA SessionOpened ==
  ASSUME KnownInv, SessionInv, ServerStep({Accepted(lastSession + 1)}),
         nState = "IDLE", nState' = "QUEUE",
         nSessionID' = lastSession + 1, lastSession' = lastSession + 1,
         UNCHANGED <<vecEntries, scriptSigs>>
  PROVE  SessionInv'
<1> DEFINE M == {Accepted(lastSession + 1)}
<1>0. /\ TypeOK /\ PoolConsistent /\ lastSession \in Nat /\ nSessionID = 0
      /\ ServerStep(M)
  BY DEF KnownInv, TypeInv, PoolInv, TypeOK, PoolConsistent
<1>1. \A m \in M : m.cmd = "ACCEPTED" /\ m.id = lastSession + 1
  BY DEF Accepted
<1>2. \A c \in Client : \A m \in Told(c, "PPFINALTX") : m.id \in 1 .. lastSession
  BY DEF SessionInv, IdsInv, IdsOf
<1>3. \A c \in Client : Follows(toClient[c], M)
  BY <1>0, <1>1, <1>2 DEF Follows, Told
<1>4. lastSession + 1 \in 1 .. lastSession + 1 /\ \A i \in 1 .. lastSession : i # lastSession + 1
  BY <1>0
<1>5. \A m \in M : m.cmd # "PPFINALTX" /\ m.id \in 1 .. lastSession'
  BY <1>1, <1>4
<1> HIDE DEF M
<1>6. IdsInv'
  BY <1>0, <1>3, <1>5, IdsStep DEF SessionInv
<1>7. EntriesInv'
  BY <1>0, <1>5, SeenShrinks, EntriesStep DEF SessionInv
<1>8. FinalsInv'
  <2> SUFFICES ASSUME NEW c \in Client, NEW m \in Told(c, "PPFINALTX")' PROVE FinalFits(c, m)'
    BY DEF FinalsInv
  <2>1. m \in Told(c, "PPFINALTX")
    BY <1>0, <1>5, ServerStepQueues
  <2>2. m.id # 0 /\ m.id # lastSession + 1
    BY <1>2, <1>4, <2>1
  <2> QED
    BY <1>0, <2>1, <2>2 DEF SessionInv, FinalsInv, FinalFits
<1>9. \A c \in Client : Present(c)' => SignaturesOf(c)' = {}
  <2> SUFFICES ASSUME NEW c \in Client, Present(c)' PROVE SignaturesOf(c)' = {}
    OBVIOUS
  <2>1. Present(c)
    BY DEF Present
  <2>2. SignaturesOf(c) = {}
    BY <2>1, NoSignatures DEF SessionInv
  <2> QED
    BY <1>0, <2>2, SignaturesShrink
<1>10. NoEarlySignatures' /\ SignaturesFit' /\ DifferentInputs'
  BY DEF SessionInv, SignaturesInv, NoEarlySignatures, SignaturesFit, DifferentInputs
<1>11. SignaturesUnderWay'
  <2> SUFFICES ASSUME NEW c \in Client, NEW m \in Asked(c, "PPSIGNFINALTX")'
               PROVE  SignatureFits(c, m.sig)'
    BY DEF SignaturesUnderWay
  <2>1. m \in Asked(c, "PPSIGNFINALTX")
    BY <1>0, ServerStepQueues
  <2>2. SignatureFits(c, m.sig)
    BY <2>1 DEF SessionInv, SignaturesInv, SignaturesUnderWay
  <2> QED
    BY <2>2 DEF SignatureFits, Present
<1>12. SignedOnce'
  BY <1>9 DEF SignedOnce
<1>13. SignersAreInThePool'
  <2> SUFFICES ASSUME NEW c \in Client PROVE cSessionID'[c] # nSessionID'
    BY DEF SignersAreInThePool
  <2>1. cSessionID'[c] = cSessionID[c] /\ cSessionID[c] \in Nat /\ cSessionID[c] <= lastSession
    BY <1>0 DEF ServerStep, clientVars, TypeOK, SessionInv, IdsInv, IdsOf
  <2> QED
    BY <1>0, <2>1
<1> QED
  BY <1>6, <1>7, <1>8, <1>10, <1>11, <1>12, <1>13 DEF SessionInv, SignaturesInv

\* What comes after an entry in the queue is newer, and no signature.
LEMMA AfterAnEntry ==
  ASSUME NEW q \in Seq(Request), q # <<>>, RequestsInOrder(q), Head(q).cmd = "PPVIN"
  PROVE  /\ \A m \in ToSet(q) : m.cmd # "PPSIGNFINALTX"
         /\ \A m \in ToSet(Tail(q)) : m.cmd = "PPVIN" => Head(q).entry.join < m.entry.join
<1>1. /\ Len(q) \in Nat \ {0} /\ DOMAIN q = 1 .. Len(q) /\ Head(q) = q[1]
      /\ DOMAIN Tail(q) = 1 .. Len(q) - 1
      /\ \A i \in DOMAIN Tail(q) : Tail(q)[i] = q[i + 1]
  BY HeadTailProperties, EmptySeq
<1>2. 1 \in DOMAIN q /\ \A j \in DOMAIN q : j = 1 \/ 1 < j
  BY <1>1
<1>3. \A j \in DOMAIN q : j # 1 => /\ q[j].cmd # "PPSIGNFINALTX"
                                   /\ q[j].cmd = "PPVIN" => q[1].entry.join < q[j].entry.join
  BY <1>1, <1>2 DEF RequestsInOrder
<1>4. \A i \in DOMAIN Tail(q) : i + 1 \in DOMAIN q /\ i + 1 # 1
  BY <1>1
<1> QED
  BY <1>1, <1>2, <1>3, <1>4 DEF ToSet

\* The entry that c has sent is added to the pool, which may begin to sign.
TakesEntry(c, e, M) ==
  /\ toServer[c] # <<>> /\ Head(toServer[c]).cmd = "PPVIN" /\ Head(toServer[c]).entry = e
  /\ toServer' = [toServer EXCEPT ![c] = Tail(@)]
  /\ ServerStep(M)
  /\ nState # "SIGNING" /\ CanAddEntry(e)
  /\ vecEntries' = Append(vecEntries, e)
  /\ UNCHANGED <<scriptSigs, nSessionID, lastSession>>
  /\ \/ /\ nState' = nState
        /\ \A m \in M : m.cmd # "PPFINALTX" /\ (m.cmd = "ACCEPTED" => m \in Admissions)
     \/ /\ nState = "ACCEPTING_ENTRIES" /\ nState' = "SIGNING"
        /\ \A m \in M : /\ m.cmd # "ACCEPTED"
                        /\ m.cmd = "PPFINALTX" => m = FinalTx(nSessionID, ToSet(vecEntries'))

LEMMA TakenEntry ==
  ASSUME KnownInv, SessionInv, NEW c \in Client, NEW e, NEW M, TakesEntry(c, e, M)
  PROVE  /\ e \in Entry /\ e.client = c /\ Made(c, e)
         /\ \A f \in Seen(c) : f.join < e.join
         /\ ToSet(vecEntries)' = ToSet(vecEntries) \cup {e}
         /\ \A m \in Asked(c, "PPVIN")' : e.join < m.entry.join
         /\ Asked(c, "PPSIGNFINALTX") = {}
<1>0. /\ toServer \in Inbox /\ toServer[c] \in Seq(Request) /\ toServer[c] # <<>>
      /\ Head(toServer[c]).cmd = "PPVIN" /\ Head(toServer[c]).entry = e
      /\ toServer'[c] = Tail(toServer[c])
      /\ vecEntries \in Seq(Entry) /\ ClientEntriesInv(c)
  BY TypeParts DEF KnownInv, TypeInv, NetType, Inbox, ServerType, TakesEntry, SessionInv, EntriesInv
<1>1. Head(toServer[c]) \in Asked(c, "PPVIN")
  BY <1>0, ToSetOfTail DEF Asked
<1>2. e \in Entry
  BY <1>0, Requests
<1>3. e.client = c /\ Made(c, e) /\ \A f \in Seen(c) : f.join < e.join
  BY <1>0, <1>1 DEF ClientEntriesInv
<1>4. ToSet(vecEntries)' = ToSet(vecEntries) \cup {e}
  BY <1>0, <1>2, ToSetOfAppend DEF TakesEntry
<1>5. /\ \A m \in ToSet(toServer[c]) : m.cmd # "PPSIGNFINALTX"
      /\ \A m \in ToSet(Tail(toServer[c])) : m.cmd = "PPVIN" => e.join < m.entry.join
  <2> DEFINE q == toServer[c]
  <2>1. /\ q \in Seq(Request) /\ q # <<>> /\ RequestsInOrder(q)
        /\ Head(q).cmd = "PPVIN" /\ Head(q).entry = e
    BY <1>0 DEF ClientEntriesInv
  <2> HIDE DEF q
  <2>2. /\ \A m \in ToSet(q) : m.cmd # "PPSIGNFINALTX"
        /\ \A m \in ToSet(Tail(q)) : m.cmd = "PPVIN" => Head(q).entry.join < m.entry.join
    BY <2>1, AfterAnEntry
  <2> QED
    BY <2>1, <2>2 DEF q
<1> QED
  BY <1>0, <1>2, <1>3, <1>4, <1>5 DEF Asked

\* What is sent to p that concerns its entries is what p has sent.
LEMMA SeenGrows ==
  ASSUME KnownInv, SessionInv, NEW c \in Client, NEW e, NEW M, TakesEntry(c, e, M),
         NEW p \in Client, NEW f \in Seen(p)'
  PROVE  f \in Seen(p) \/ (p = c /\ f = e)
<1>1. e.client = c /\ ToSet(vecEntries)' = ToSet(vecEntries) \cup {e}
  BY TakenEntry
<1>2. f \in Entry /\ f.client = p
  BY DEF Seen
<1>3. CASE f \in ToSet(vecEntries)'
  BY <1>1, <1>2, <1>3 DEF Seen
<1>4. CASE \E m \in Told(p, "PPFINALTX")' : f \in m.tx
  <2>1. PICK m \in Told(p, "PPFINALTX")' : f \in m.tx
    BY <1>4
  <2>2. CASE m \in Told(p, "PPFINALTX")
    BY <1>2, <2>1, <2>2 DEF Seen
  <2>3. CASE m \in M /\ m.cmd = "PPFINALTX"
    <3>1. m = FinalTx(nSessionID, ToSet(vecEntries'))
      BY <2>3 DEF TakesEntry
    <3>2. m.tx = ToSet(vecEntries)'
      BY <3>1 DEF FinalTx
    <3> QED
      BY <1>3, <2>1, <3>2
  <2> QED
    BY <2>1, <2>2, <2>3, ServerStepQueues DEF TakesEntry
<1> QED
  BY <1>3, <1>4 DEF Seen

LEMMA TakesEntryEntries ==
  ASSUME KnownInv, SessionInv, NEW c \in Client, NEW e, NEW M, TakesEntry(c, e, M)
  PROVE  EntriesInv'
<1> SUFFICES ASSUME NEW p \in Client PROVE ClientEntriesInv(p)'
  BY DEF EntriesInv
<1>0. ServerStep(M) /\ ClientEntriesInv(p) /\ UNCHANGED <<cEntries, joins, cState>>
  BY DEF SessionInv, EntriesInv, TakesEntry, ServerStep, clientVars
<1>1. \A f : Made(p, f)' <=> Made(p, f)
  BY <1>0 DEF Made
<1>2. /\ Asked(p, "PPVIN")' \subseteq Asked(p, "PPVIN")
      /\ RequestsInOrder(toServer[p])'
  BY <1>0, ServerStepQueues DEF ClientEntriesInv
<1>3. Made(c, e) /\ \A m \in Asked(c, "PPVIN")' : e.join < m.entry.join
  BY TakenEntry
<1>4. \A f \in Seen(p)' : Made(p, f)
  BY <1>0, <1>3, SeenGrows DEF ClientEntriesInv
<1>5. \A m \in Asked(p, "PPVIN")' : \A f \in Seen(p)' : f.join < m.entry.join
  BY <1>0, <1>2, <1>3, SeenGrows DEF ClientEntriesInv
<1> QED
  BY <1>0, <1>1, <1>2, <1>4, <1>5 DEF ClientEntriesInv

LEMMA TakesEntryFinals ==
  ASSUME KnownInv, SessionInv, NEW c \in Client, NEW e, NEW M, TakesEntry(c, e, M)
  PROVE  FinalsInv'
<1> SUFFICES ASSUME NEW p \in Client, NEW m \in Told(p, "PPFINALTX")' PROVE FinalFits(p, m)'
  BY DEF FinalsInv
<1>0. ServerStep(M) /\ nState # "SIGNING" /\ nSessionID' = nSessionID
  BY DEF TakesEntry
<1>1. e.client = c /\ ToSet(vecEntries)' = ToSet(vecEntries) \cup {e}
  BY TakenEntry
<1>2. CASE m \in Told(p, "PPFINALTX")
  <2>1. m.id # nSessionID /\ FinalFits(p, m)
    BY <1>0, <1>2 DEF SessionInv, FinalsInv, FinalFits
  <2>2. m.tx \in SUBSET Entry
    <3>1. m \in Message /\ m.cmd = "PPFINALTX"
      BY <1>2, ToSetType DEF KnownInv, TypeInv, TypeOK, Told
    <3> QED
      BY <3>1 DEF Message
  <2>3. ASSUME NEW g \in m.tx, NEW f \in ToSet(vecEntries)', g.client = p, f.client = p
        PROVE  g.join < f.join
    <3>1. CASE f \in ToSet(vecEntries)
      BY <2>1, <2>3, <3>1 DEF FinalFits
    <3>2. CASE f = e
      <4>1. p = c /\ g \in Seen(c)
        BY <1>1, <1>2, <2>2, <2>3, <3>2 DEF Seen
      <4> QED
        BY <3>2, <4>1, TakenEntry
    <3> QED
      BY <1>1, <3>1, <3>2
  <2> QED
    BY <1>0, <2>1, <2>3 DEF FinalFits
<1>3. CASE m \in M /\ m.cmd = "PPFINALTX"
  <2>1. nState' = "SIGNING" /\ m = FinalTx(nSessionID, ToSet(vecEntries'))
    BY <1>3 DEF TakesEntry
  <2>2. m.id = nSessionID /\ m.tx = ToSet(vecEntries)'
    BY <2>1 DEF FinalTx
  <2> QED
    BY <1>0, <2>1, <2>2 DEF FinalFits
<1> QED
  BY <1>0, <1>2, <1>3, ServerStepQueues

LEMMA TakesEntryIds ==
  ASSUME KnownInv, SessionInv, NEW c \in Client, NEW e, NEW M, TakesEntry(c, e, M)
  PROVE  IdsInv'
<1>0. /\ TypeOK /\ PoolConsistent /\ nSessionID \in Nat /\ lastSession \in Nat
      /\ nSessionID <= lastSession /\ ServerStep(M)
      /\ nState # "SIGNING" /\ UNCHANGED <<nSessionID, lastSession>>
  BY DEF KnownInv, TypeInv, PoolInv, TypeOK, SessionInv, IdsInv, TakesEntry
<1>1. \A m \in M :
        /\ m.cmd = "ACCEPTED" =>
             m.id = nSessionID /\ nState = "QUEUE" /\ nState' # "SIGNING"
        /\ m.cmd = "PPFINALTX" =>
             m.id = nSessionID /\ nState = "ACCEPTING_ENTRIES" /\ nState' = "SIGNING"
  BY DEF TakesEntry, Admissions, Accepted, FinalTx
<1>2. \A m \in M : m.cmd \in {"ACCEPTED", "PPFINALTX"} => m.id \in 1 .. lastSession'
  <2>1. nState \in {"QUEUE", "ACCEPTING_ENTRIES"} => nSessionID \in 1 .. lastSession
    BY <1>0 DEF PoolConsistent
  <2>2. \A m \in M : m.cmd \in {"ACCEPTED", "PPFINALTX"} =>
          m.id = nSessionID /\ nState \in {"QUEUE", "ACCEPTING_ENTRIES"}
    BY <1>1
  <2> QED
    BY <1>0, <2>1, <2>2
<1>3. \A p \in Client : \A m \in Told(p, "PPFINALTX") : m.id # nSessionID
  BY <1>0 DEF SessionInv, FinalsInv, FinalFits
<1>4. ASSUME NEW p \in Client, NEW m \in M, m.cmd = "ACCEPTED",
             NEW f \in ToSet(toClient[p]) \cup M, f.cmd = "PPFINALTX"
      PROVE  f.id # m.id
  <2>1. m.id = nSessionID /\ f \notin M
    BY <1>1, <1>4
  <2>2. f \in Told(p, "PPFINALTX")
    BY <1>4, <2>1 DEF Told
  <2> QED
    BY <1>3, <2>1, <2>2
<1>5. \A p \in Client : Follows(toClient[p], M)
  BY <1>4 DEF Follows
<1> QED
  BY <1>0, <1>2, <1>5, IdsStep DEF SessionInv

LEMMA TakesEntrySignatures ==
  ASSUME KnownInv, SessionInv, NEW c \in Client, NEW e, NEW M, TakesEntry(c, e, M)
  PROVE  SignaturesInv'
<1>0. /\ ServerStep(M) /\ nState # "SIGNING" /\ scriptSigs' = scriptSigs /\ scriptSigs = {}
      /\ vecEntries \in Seq(Entry)
  BY DEF TakesEntry, SessionInv, SignaturesInv, NoEarlySignatures, KnownInv, TypeInv, TypeOK
<1>1. /\ e \in Entry /\ e.client = c /\ ToSet(vecEntries)' = ToSet(vecEntries) \cup {e}
      /\ Asked(c, "PPSIGNFINALTX") = {}
  BY TakenEntry
<1>2. \A p \in Client : Present(p)' => p = c \/ Present(p)
  BY <1>1 DEF Present
<1>3. \A p \in Client : Asked(p, "PPSIGNFINALTX")' \subseteq Asked(p, "PPSIGNFINALTX")
  BY <1>0, ServerStepQueues
<1>4. \A p \in Client : Present(p)' => Asked(p, "PPSIGNFINALTX")' = {}
  <2> SUFFICES ASSUME NEW p \in Client, Present(p)', NEW m \in Asked(p, "PPSIGNFINALTX")
               PROVE  FALSE
    BY <1>3
  <2>1. p # c /\ Present(p)
    BY <1>1, <1>2
  <2> QED
    BY <1>0, <2>1 DEF SessionInv, SignaturesInv, SignaturesUnderWay, SignatureFits
<1>5. NoEarlySignatures' /\ SignaturesFit'
  BY <1>0 DEF NoEarlySignatures, SignaturesFit
<1>6. SignaturesUnderWay'
  BY <1>3, <1>4 DEF SessionInv, SignaturesInv, SignaturesUnderWay, SignatureFits
<1>7. SignedOnce'
  BY <1>0, <1>4 DEF SignedOnce, SignaturesOf
<1>8. DifferentInputs'
  <2>1. /\ DifferentInputs /\ \A i \in DOMAIN vecEntries : Prevout(vecEntries[i]) # Prevout(e)
        /\ vecEntries' = Append(vecEntries, e)
    BY DEF SessionInv, SignaturesInv, TakesEntry, CanAddEntry
  <2>2. /\ Len(vecEntries) \in Nat /\ DOMAIN vecEntries = 1 .. Len(vecEntries)
        /\ DOMAIN vecEntries' = 1 .. Len(vecEntries) + 1
        /\ \A i \in 1 .. Len(vecEntries) : vecEntries'[i] = vecEntries[i]
        /\ vecEntries'[Len(vecEntries) + 1] = e
    BY <1>0, <1>1, <2>1, AppendProperties
  <2> SUFFICES ASSUME NEW i \in DOMAIN vecEntries', NEW j \in DOMAIN vecEntries',
                      Prevout(vecEntries'[i]) = Prevout(vecEntries'[j])
               PROVE  i = j
    BY DEF DifferentInputs
  <2>3. CASE i \in DOMAIN vecEntries /\ j \in DOMAIN vecEntries
    BY <2>1, <2>2, <2>3 DEF DifferentInputs
  <2>4. CASE i \notin DOMAIN vecEntries
    <3>1. vecEntries'[i] = e /\ i = Len(vecEntries) + 1
      BY <2>2, <2>4
    <3>2. j \notin DOMAIN vecEntries
      BY <2>1, <2>2, <3>1
    <3> QED
      BY <2>2, <3>1, <3>2
  <2>5. CASE j \notin DOMAIN vecEntries
    <3>1. vecEntries'[j] = e /\ j = Len(vecEntries) + 1
      BY <2>2, <2>5
    <3>2. i \notin DOMAIN vecEntries
      BY <2>1, <2>2, <3>1
    <3> QED
      BY <2>2, <3>1, <3>2
  <2> QED
    BY <2>3, <2>4, <2>5
<1> QED
  BY <1>5, <1>6, <1>7, <1>8 DEF SignaturesInv

LEMMA EntryTaken ==
  ASSUME KnownInv, SessionInv, NEW c \in Client, NEW e, NEW M, TakesEntry(c, e, M)
  PROVE  SessionInv'
<1>1. SignersAreInThePool'
  <2>1. /\ nState # "SIGNING" /\ nSessionID' = nSessionID
        /\ UNCHANGED <<cState, cSessionID, cEntries>>
    BY DEF TakesEntry, ServerStep, clientVars
  <2> QED
    BY <2>1 DEF SessionInv, SignersAreInThePool
<1> QED
  BY <1>1, TakesEntryEntries, TakesEntryIds, TakesEntryFinals, TakesEntrySignatures DEF SessionInv

\* A signature that AddScriptSig takes is for the current transaction.
LEMMA SignatureTaken ==
  ASSUME KnownInv, SessionInv, NEW c \in Client, NEW s,
         toServer[c] # <<>>, Head(toServer[c]).cmd = "PPSIGNFINALTX", Head(toServer[c]).sig = s,
         CanAddScriptSig(s)
  PROVE  /\ s \in Signature /\ s \in SignaturesOf(c) /\ s.input.client = c /\ Present(c)
         /\ nState = "SIGNING" /\ s.tx = ToSet(vecEntries)
<1>0. toServer \in Inbox /\ toServer[c] \in Seq(Request) /\ vecEntries \in Seq(Entry)
  BY TypeParts DEF KnownInv, TypeInv, NetType, Inbox, ServerType
<1>1. Head(toServer[c]) \in Asked(c, "PPSIGNFINALTX")
  BY <1>0, ToSetOfTail DEF Asked
<1>2. s \in Signature
  BY <1>0, Requests
<1>3. SignatureFits(c, s)
  BY <1>1 DEF SessionInv, SignaturesInv, SignaturesUnderWay
<1>4. Present(c)
  <2>1. PICK i \in DOMAIN vecEntries : Prevout(vecEntries[i]) = s.input
    BY DEF CanAddScriptSig
  <2>2. vecEntries[i].client = c
    BY <1>3, <2>1 DEF SignatureFits, Prevout
  <2> QED
    BY <2>2 DEF Present, ToSet
<1> QED
  BY <1>1, <1>2, <1>3, <1>4 DEF SignatureFits, SignaturesOf

LEMMA SignatureAdded ==
  ASSUME KnownInv, SessionInv, NEW c \in Client, NEW s,
         toServer[c] # <<>>, Head(toServer[c]).cmd = "PPSIGNFINALTX", Head(toServer[c]).sig = s,
         CanAddScriptSig(s), ServerStep({}), scriptSigs' = scriptSigs \cup {s},
         UNCHANGED <<nState, nSessionID, vecEntries, lastSession>>
  PROVE  SessionInv'
<1>0. /\ TypeOK /\ nSessionID \in Nat /\ lastSession \in Nat
  BY DEF KnownInv, TypeInv, TypeOK
<1>1. /\ s \in SignaturesOf(c) /\ s.input.client = c /\ nState = "SIGNING"
      /\ s.tx = ToSet(vecEntries)
  BY SignatureTaken
<1>2. EntriesInv'
  BY SeenShrinks, EntriesStep DEF SessionInv
<1>3. IdsInv'
  BY <1>0, IdsStep DEF SessionInv, IdsInv, Follows
<1>4. FinalsInv'
  <2> SUFFICES ASSUME NEW p \in Client, NEW m \in Told(p, "PPFINALTX")' PROVE FinalFits(p, m)'
    BY DEF FinalsInv
  <2>1. m \in Told(p, "PPFINALTX")
    BY ServerStepQueues
  <2> QED
    BY <2>1 DEF SessionInv, FinalsInv, FinalFits
<1>5. NoEarlySignatures' /\ SignaturesFit' /\ DifferentInputs'
  BY <1>1 DEF SessionInv, SignaturesInv, NoEarlySignatures, SignaturesFit, DifferentInputs
<1>6. SignaturesUnderWay'
  BY ServerStepQueues
     DEF SessionInv, SignaturesInv, SignaturesUnderWay, SignatureFits, Present
<1>7. \A p \in Client : SignaturesOf(p)' \subseteq SignaturesOf(p)
  BY <1>1, ServerStepQueues DEF SignaturesOf
<1>8. SignedOnce'
  <2> SUFFICES ASSUME NEW p \in Client, Present(p)', NEW t \in SignaturesOf(p)'
               PROVE  BoundTo(p, t)'
    BY DEF SignedOnce
  <2>1. Present(p) /\ t \in SignaturesOf(p)
    BY <1>7 DEF Present
  <2>2. BoundTo(p, t)
    BY <2>1 DEF SessionInv, SignaturesInv, SignedOnce
  <2>3. Told(p, "ACCEPTED")' \subseteq Told(p, "ACCEPTED")
    BY ServerStepQueues
  <2>4. UNCHANGED <<cSessionID, cState, cEntries>>
    BY DEF ServerStep, clientVars
  <2> QED
    BY <1>7, <2>2, <2>3, <2>4 DEF BoundTo
<1>9. SignersAreInThePool'
  BY DEF SessionInv, SignersAreInThePool, ServerStep, clientVars
<1> QED
  BY <1>2, <1>3, <1>4, <1>5, <1>6, <1>8, <1>9 DEF SessionInv, SignaturesInv

-----------------------------------------------------------------------------
(* The masternode's threads *)

\* What a handler takes and sends.
LEMMA HandlerStep ==
  ASSUME TypeOK, UNCHANGED clientVars, NEW M \in SUBSET Message, Sends(toClient, toClient', M),
         \/ UNCHANGED toServer
         \/ \E c \in Client : toServer[c] # <<>> /\ Done(c)
  PROVE  ServerStep(M)
<1>0. NetType
  BY TypeParts
<1> SUFFICES ASSUME NEW p \in Client
             PROVE  Shrinks(toServer[p], toServer'[p]) /\ Grows(toClient[p], toClient'[p], M)
  BY DEF ServerStep
<1>1. toServer[p] \in Seq(Request) /\ toClient[p] \in Seq(Message)
  BY <1>0 DEF NetType, Inbox, Outbox
<1>2. Grows(toClient[p], toClient'[p], M)
  <2>1. PICK w \in Seq(M) : toClient'[p] = toClient[p] \o w
    BY DEF Sends
  <2> QED
    BY <1>1, <2>1, MessagesGrow
<1>3. toServer'[p] = toServer[p] \/ (toServer[p] # <<>> /\ toServer'[p] = Tail(toServer[p]))
  BY <1>0 DEF Done, NetType, Inbox
<1>4. Shrinks(toServer[p], toServer'[p])
  BY <1>1, <1>3, RequestsShrink
<1> QED
  BY <1>2, <1>4

LEMMA KnownParts ==
  ASSUME KnownInv
  PROVE  /\ TypeOK /\ TypeInv /\ PoolInv /\ PoolConsistent
         /\ toClient \in Outbox /\ toServer \in Inbox /\ vecEntries \in Seq(Entry)
         /\ nSessionID \in Nat /\ lastSession \in Nat
BY TypeParts DEF KnownInv, TypeInv, PoolInv, NetType, ServerType, ThreadType

\* The pool is left alone, and nothing is sent, or something that does not matter.
LEMMA QuietStep ==
  ASSUME KnownInv, SessionInv, UNCHANGED <<serverVars, lastSession>>,
         ServerStep({}) \/ ServerStep({Rejected}) \/ ServerStep(Admissions)
  PROVE  SessionInv'
<1>1. UNCHANGED <<nState, nSessionID, vecEntries, scriptSigs, lastSession>>
  BY DEF serverVars
<1>2. \A m \in Admissions : m.cmd # "PPFINALTX"
  BY DEF Admissions, Accepted
<1>3. \A m \in {Rejected} : m.cmd # "PPFINALTX" /\ m.cmd # "ACCEPTED"
  BY DEF Rejected
<1> QED
  BY <1>1, <1>2, <1>3, PoolKept

LEMMA RejectStep ==
  ASSUME KnownInv, SessionInv, NEW c \in Client, toServer[c] # <<>>, Reject(c),
         UNCHANGED clientVars
  PROVE  SessionInv'
<1>1. Sends(toClient, toClient', {Rejected})
  BY KnownParts, PushSends, Messages DEF Reject
<1>2. ServerStep({Rejected})
  BY <1>1, KnownParts, Messages, HandlerStep DEF Reject
<1> QED
  BY <1>2, QuietStep DEF Reject

LEMMA RecvPPACCEPTSession ==
  ASSUME KnownInv, SessionInv, NEW c \in Client, RecvPPACCEPT(c)
  PROVE  SessionInv'
<1>0. UNCHANGED clientVars /\ toServer[c] # <<>>
  BY DEF RecvPPACCEPT, Receives
<1>1. CASE Reject(c)
  BY <1>0, <1>1, RejectStep
<1>2. CASE /\ toClient' = PushAccepted(toClient, c) /\ Done(c)
           /\ UNCHANGED <<serverVars, lastSession>>
  <2>1. Sends(toClient, toClient', Admissions) /\ Admissions \in SUBSET Message
    BY <1>2, KnownParts, PushAcceptedSends, AdmissionsAreMessages
  <2>2. ServerStep(Admissions)
    BY <1>0, <1>2, <2>1, KnownParts, HandlerStep
  <2> QED
    BY <1>2, <2>2, QuietStep
<1>3. CASE CreateNewSession(c) /\ ~Reject(c)
  <2>1. /\ nState = "IDLE" /\ nState' = "QUEUE"
        /\ nSessionID' = lastSession + 1 /\ lastSession' = lastSession + 1
        /\ toClient' = Push(toClient, c, Accepted(lastSession + 1))
        /\ Done(c) /\ UNCHANGED <<vecEntries, scriptSigs>>
    BY <1>3 DEF CreateNewSession
  <2>2. Accepted(lastSession + 1) \in Message
    BY KnownParts, Messages
  <2>3. Sends(toClient, toClient', {Accepted(lastSession + 1)})
    BY <2>1, <2>2, KnownParts, PushSends
  <2>4. ServerStep({Accepted(lastSession + 1)})
    BY <1>0, <2>1, <2>2, <2>3, KnownParts, HandlerStep
  <2> QED
    BY <2>1, <2>4, SessionOpened
<1>4. CASE UNCHANGED <<serverVars, lastSession, toServer, toClient>>
  <2>1. ServerStep({})
    BY <1>0, <1>4, KnownParts, SendsNothing, HandlerStep
  <2> QED
    BY <1>4, <2>1, QuietStep
<1> QED
  BY <1>1, <1>2, <1>3, <1>4 DEF RecvPPACCEPT

LEMMA AddUserToExistingSessionSession ==
  ASSUME KnownInv, SessionInv, NEW c \in Client, AddUserToExistingSession(c)
  PROVE  SessionInv'
<1>0. UNCHANGED clientVars /\ toServer[c] # <<>>
  BY PoolAssumption DEF AddUserToExistingSession, Resumes, KnownInv, TypeInv, WaitingIsServed
<1>1. CASE Reject(c)
  BY <1>0, <1>1, RejectStep
<1>2. CASE ~Reject(c)
  <2>1. /\ toClient' = PushAccepted(toClient, c) /\ Done(c)
        /\ UNCHANGED <<nState, nSessionID, vecEntries, scriptSigs, lastSession>>
    BY <1>2 DEF AddUserToExistingSession
  <2>2. Sends(toClient, toClient', Admissions) /\ Admissions \in SUBSET Message
    BY <2>1, KnownParts, PushAcceptedSends, AdmissionsAreMessages
  <2>3. ServerStep(Admissions)
    BY <1>0, <2>1, <2>2, KnownParts, HandlerStep
  <2>4. \A m \in Admissions : m.cmd # "PPFINALTX"
    BY DEF Admissions, Accepted
  <2> QED
    BY <2>1, <2>3, <2>4, PoolKept
<1> QED
  BY <1>1, <1>2

LEMMA RecvPPVINSession ==
  ASSUME KnownInv, SessionInv, NEW c \in Client, RecvPPVIN(c)
  PROVE  SessionInv'
<1>0. UNCHANGED clientVars /\ toServer[c] # <<>>
  BY DEF RecvPPVIN, Receives
<1>1. CASE Reject(c)
  BY <1>0, <1>1, RejectStep
<1>2. CASE UNCHANGED <<serverVars, lastSession, toServer, toClient>>
  <2>1. ServerStep({})
    BY <1>0, <1>2, KnownParts, SendsNothing, HandlerStep
  <2> QED
    BY <1>2, <2>1, QuietStep
<1> QED
  BY <1>1, <1>2 DEF RecvPPVIN

\* An emptied pool, and nothing sent that binds anybody.
LEMMA ClearedStep ==
  ASSUME KnownInv, SessionInv, ClearSession, UNCHANGED <<lastSession, clientVars>>,
         NEW M \in SUBSET Message, Sends(toClient, toClient', M),
         \A m \in M : m.cmd \notin {"PPFINALTX", "ACCEPTED"},
         \/ UNCHANGED toServer
         \/ \E c \in Client : toServer[c] # <<>> /\ Done(c)
  PROVE  SessionInv'
<1>1. ServerStep(M)
  BY KnownParts, HandlerStep
<1> QED
  BY <1>1, PoolCleared

LEMMA Harmless ==
  /\ {Rejected} \in SUBSET Message
  /\ \A m \in {Rejected} : m.cmd \notin {"PPFINALTX", "ACCEPTED"}
  /\ \A id \in Nat : /\ {Complete(id), Rejected} \in SUBSET Message
                     /\ \A m \in {Complete(id), Rejected} : m.cmd \notin {"PPFINALTX", "ACCEPTED"}
BY Messages DEF Rejected, Complete

\* What AddEntry finds: the pool is not full, so it does not sign.
LEMMA EntryComesEarly ==
  ASSUME KnownInv, NEW c \in Client, Resumes(c, "PPVIN"), CanAddEntry(Head(toServer[c]).entry)
  PROVE  toServer[c] # <<>> /\ nState # "SIGNING"
<1>1. waiting = c /\ waiting # NoClient /\ Head(toServer[c]).cmd = "PPVIN"
  BY PoolAssumption DEF Resumes
<1>2. Len(vecEntries) < MaxPoolTransactions /\ vecEntries \in Seq(Entry)
  BY KnownParts DEF CanAddEntry
<1>3. vecSessionCollaterals = <<>> => nState = "IDLE"
  BY <1>1, PoolAssumption DEF KnownInv, PoolInv, WaitingFits, IsSessionReady
<1>4. nState # "SIGNING"
  BY <1>2, <1>3, PoolAssumption DEF KnownInv, PoolInv, PoolConsistent
<1> QED
  BY <1>1, <1>4 DEF KnownInv, TypeInv, WaitingIsServed

LEMMA CheckPoolAfterEntry ==
  ASSUME KnownInv, SessionInv, NEW c \in Client, NEW e \in Entry,
         toServer[c] # <<>>, Head(toServer[c]).cmd = "PPVIN", Head(toServer[c]).entry = e,
         nState # "SIGNING", CanAddEntry(e), Done(c), UNCHANGED <<clientVars, lastSession>>,
         CheckPool(Append(vecEntries, e), scriptSigs, TRUE)
  PROVE  SessionInv'
<1> DEFINE ents == Append(vecEntries, e)
           final == FinalTx(nSessionID, ToSet(ents))
           told == RelayToAll(toClient, ents, final)
<1>0. /\ ents \in Seq(Entry) /\ TypeOK /\ toClient \in Outbox /\ nSessionID \in Nat
      /\ toServer \in Inbox
  BY KnownParts, AppendProperties
<1>1. final \in Message /\ {final, Rejected} \in SUBSET Message
  BY <1>0, EntrySet, Messages
<1>2. toServer' = [toServer EXCEPT ![c] = Tail(@)]
  BY DEF Done
<1>3. CheckPool(ents, scriptSigs, TRUE)
  OBVIOUS
<1>4. \A m \in {final, Rejected} : /\ m.cmd # "ACCEPTED"
                                   /\ m.cmd = "PPFINALTX" => m = final
  BY DEF FinalTx, Rejected
<1>5. CASE EntriesFull(ents) /\ CreateFinalTransaction(ents, scriptSigs, TRUE)
  <2>1. Sends(toClient, told, {final, Rejected}) /\ told \in Outbox
    BY <1>0, <1>1, RelayToAllSends, RelayToAllType
  <2>2. CASE AllGone(ents)
    <3>1. Sends(toClient, told, {Rejected})
      BY <1>0, <1>1, <2>2, RelayToAllSends
    <3>2. ClearSession /\ toClient' = told
      BY <1>5, <2>2 DEF CreateFinalTransaction
    <3>3. Sends(toClient, toClient', {Rejected})
      BY <3>1, <3>2
    <3> QED
      BY <3>2, <3>3, ClearedStep, Harmless
  <2>3. CASE ~AllGone(ents)
    <3>1. /\ vecEntries' = ents /\ toClient' = TerminateIfGone(told, ents)
          /\ nState = "ACCEPTING_ENTRIES" /\ nState' = "SIGNING"
          /\ UNCHANGED <<scriptSigs, nSessionID>>
      BY <1>5, <2>3 DEF CreateFinalTransaction, EntriesFull
    <3> HIDE DEF told
    <3>2. Sends(told, toClient', {Rejected})
      BY <1>0, <2>1, <3>1, TerminateIfGoneSends
    <3> HIDE DEF final
    <3>3. Sends(told, toClient', {final, Rejected})
      BY <3>2, SendsMore
    <3>4. Sends(toClient, toClient', {final, Rejected})
      BY <1>0, <1>1, <2>1, <3>3, SendsBoth
    <3>5. ServerStep({final, Rejected})
      BY <1>0, <1>1, <3>4, HandlerStep
    <3>6. ents = vecEntries'
      BY <3>1
    <3>7. final = FinalTx(nSessionID, ToSet(vecEntries'))
      BY <3>6 DEF final
    <3>8. TakesEntry(c, e, {final, Rejected})
      BY <1>2, <1>4, <3>1, <3>5, <3>7 DEF TakesEntry
    <3> QED
      BY <3>8, EntryTaken
  <2> QED
    BY <2>2, <2>3
<1>6. CASE SetNull /\ UNCHANGED toClient
  BY <1>0, <1>6, SendsNothing, ClearedStep, Harmless DEF SetNull
<1>7. CASE /\ vecEntries' = ents /\ scriptSigs' = scriptSigs
           /\ toClient' = RelayAccepted(toClient, ents)
           /\ UNCHANGED <<nState, nSessionID>>
  <2> DEFINE M == Admissions \cup {Rejected}
  <2>1. Sends(toClient, toClient', M)
    BY <1>0, <1>7, RelayAcceptedSends
  <2>2. M \in SUBSET Message
    BY <1>0, AdmissionsAreMessages, Messages
  <2>3. \A m \in M : m.cmd # "PPFINALTX" /\ (m.cmd = "ACCEPTED" => m \in Admissions)
    BY DEF Admissions, Accepted, Rejected
  <2> HIDE DEF M
  <2>4. ServerStep(M)
    BY <1>0, <2>1, <2>2, HandlerStep
  <2>5. TakesEntry(c, e, M)
    BY <1>2, <1>7, <2>3, <2>4 DEF TakesEntry
  <2> QED
    BY <2>5, EntryTaken
<1> HIDE DEF ents
<1> QED
  BY <1>3, <1>5, <1>6, <1>7 DEF CheckPool

LEMMA AddEntrySession ==
  ASSUME KnownInv, SessionInv, NEW c \in Client, AddEntry(c)
  PROVE  SessionInv'
<1> DEFINE e == Head(toServer[c]).entry
<1>0. UNCHANGED clientVars /\ toServer[c] # <<>> /\ Head(toServer[c]).cmd = "PPVIN"
  BY PoolAssumption DEF AddEntry, Resumes, KnownInv, TypeInv, WaitingIsServed
<1>1. CASE Reject(c)
  BY <1>0, <1>1, RejectStep
<1>2. CASE /\ toClient' = Push(toClient, c, Rejected) /\ SetNull /\ Done(c)
           /\ UNCHANGED lastSession
  <2>1. Sends(toClient, toClient', {Rejected})
    BY <1>2, KnownParts, PushSends, Messages
  <2> QED
    BY <1>0, <1>2, <2>1, ClearedStep, Harmless DEF SetNull
<1>3. CASE /\ CanAddEntry(e) /\ CheckPool(Append(vecEntries, e), scriptSigs, TRUE) /\ Done(c)
           /\ UNCHANGED lastSession
  <2>1. e \in Entry
    BY <1>0, KnownParts, Requests
  <2>2. nState # "SIGNING"
    BY <1>3, EntryComesEarly DEF AddEntry
  <2> QED
    BY <1>0, <1>3, <2>1, <2>2, CheckPoolAfterEntry
<1> QED
  BY <1>1, <1>2, <1>3 DEF AddEntry

LEMMA RecvPPSIGNFINALTXSession ==
  ASSUME KnownInv, SessionInv, NEW c \in Client, RecvPPSIGNFINALTX(c)
  PROVE  SessionInv'
<1> DEFINE s == Head(toServer[c]).sig
           sigs == scriptSigs \cup {s}
<1>0. /\ UNCHANGED <<clientVars, lastSession>> /\ toServer[c] # <<>> /\ Done(c)
      /\ Head(toServer[c]).cmd = "PPSIGNFINALTX"
  BY DEF RecvPPSIGNFINALTX, Receives
<1>1. /\ TypeOK /\ toClient \in Outbox /\ vecEntries \in Seq(Entry) /\ nSessionID \in Nat
  BY KnownParts
<1>2. CASE CanAddScriptSig(s)
  <2>1. nState = "SIGNING"
    BY <1>0, <1>2, SignatureTaken
  <2>2. CheckPool(vecEntries, sigs, FALSE)
    BY <1>2 DEF RecvPPSIGNFINALTX
  <2>3. CASE CommitFinalTransaction(vecEntries, sigs)
    <3>1. /\ ClearSession
          /\ \/ toClient' = RelayToAll(toClient, vecEntries, Complete(nSessionID))
             \/ UNCHANGED toClient
      BY <2>3 DEF CommitFinalTransaction, SetNull
    <3>2. Sends(toClient, toClient', {Complete(nSessionID), Rejected})
      BY <1>1, <3>1, Messages, RelayToAllSends, SendsNothing
    <3> QED
      BY <1>0, <1>1, <3>1, <3>2, ClearedStep, Harmless
  <2>4. CASE scriptSigs' = sigs /\ UNCHANGED <<vecEntries, toClient, nState, nSessionID>>
    <3>1. ServerStep({})
      BY <1>0, <1>1, <2>4, SendsNothing, HandlerStep
    <3> QED
      BY <1>0, <1>2, <2>4, <3>1, SignatureAdded
  <2> QED
    BY <2>1, <2>2, <2>3, <2>4 DEF CheckPool, EntriesFull
<1>3. CASE /\ toClient' = RelayRejected(toClient, vecEntries)
           /\ SetNull \/ UNCHANGED serverVars
  <2>1. Sends(toClient, toClient', {Rejected})
    BY <1>1, <1>3, RelayRejectedSends
  <2>2. CASE SetNull
    BY <1>0, <2>1, <2>2, ClearedStep, Harmless DEF SetNull
  <2>3. CASE UNCHANGED serverVars
    <3>1. ServerStep({Rejected})
      BY <1>0, <1>1, <2>1, Harmless, HandlerStep
    <3> QED
      BY <1>0, <2>3, <3>1, QuietStep
  <2> QED
    BY <1>3, <2>2, <2>3
<1> QED
  BY <1>2, <1>3 DEF RecvPPSIGNFINALTX

LEMMA TimerThreadSession ==
  ASSUME KnownInv, SessionInv, CheckTimeout \/ ChargeFees \/ CheckForCompleteQueue
  PROVE  SessionInv'
<1>0. UNCHANGED <<clientVars, lastSession, toServer>>
  BY DEF CheckTimeout, ChargeFees, CheckForCompleteQueue, netVars
<1>1. /\ TypeOK /\ toClient \in Outbox /\ toServer \in Inbox
  BY KnownParts
<1>2. CASE SetNull /\ UNCHANGED toClient
  BY <1>0, <1>1, <1>2, SendsNothing, ClearedStep, Harmless DEF SetNull
<1>3. CASE UNCHANGED <<serverVars, toClient>>
  <2>1. ServerStep({})
    BY <1>0, <1>1, <1>3, SendsNothing, HandlerStep
  <2> QED
    BY <1>0, <1>3, <2>1, QuietStep
<1>4. CASE CheckForCompleteQueue
  <2>1. /\ nState = "QUEUE" /\ nState' = "ACCEPTING_ENTRIES"
        /\ UNCHANGED <<nSessionID, vecEntries, scriptSigs, lastSession>>
        /\ \A c \in Client : toClient'[c] \in {toClient[c], Append(toClient[c], Ready)}
    BY <1>4 DEF CheckForCompleteQueue
  <2>2. \A c \in Client : \E w \in Seq({Ready}) : toClient'[c] = toClient[c] \o w
    <3> TAKE c \in Client
    <3>1. toClient[c] \in Seq(Message)
      BY <1>1 DEF Outbox
    <3>2. <<>> \in Seq({Ready}) /\ <<Ready>> \in Seq({Ready})
      BY EmptySeq
    <3>3. /\ toClient[c] = toClient[c] \o <<>>
          /\ Append(toClient[c], Ready) = toClient[c] \o <<Ready>>
      BY <3>1, ConcatEmptySeq
    <3> QED
      BY <2>1, <3>2, <3>3
  <2>3. Sends(toClient, toClient', {Ready}) /\ {Ready} \in SUBSET Message
    BY <2>2, Messages DEF Sends
  <2>4. ServerStep({Ready})
    BY <1>0, <1>1, <2>3, HandlerStep
  <2>5. \A m \in {Ready} : m.cmd # "PPFINALTX" /\ m.cmd # "ACCEPTED"
    BY DEF Ready
  <2> QED
    BY <2>1, <2>4, <2>5, PoolKept
<1> QED
  BY <1>2, <1>3, <1>4 DEF CheckTimeout, ChargeFees, netVars

\* A broken connection loses messages at the ends of the queues.
LEMMA DropSession ==
  ASSUME KnownInv, SessionInv, NEW c \in Client, Drop(c)
  PROVE  SessionInv'
<1>1. /\ toServer \in Inbox /\ toClient \in Outbox
      /\ UNCHANGED <<serverVars, lastSession, clientVars>>
  BY KnownParts DEF Drop
<1>2. ASSUME NEW p \in Client
      PROVE  Shrinks(toServer[p], toServer'[p]) /\ Grows(toClient[p], toClient'[p], {})
  <2>1. toServer[p] \in Seq(Request) /\ toClient[p] \in Seq(Message)
    BY <1>1 DEF Inbox, Outbox
  <2>2. waiting = c => toServer[c] # <<>>
    BY PoolAssumption DEF KnownInv, TypeInv, WaitingIsServed
  <2>3. toServer'[p] \in {toServer[p], <<>>}
          \/ (toServer[p] # <<>> /\ toServer'[p] = <<Head(toServer[p])>>)
    BY <1>1, <2>2 DEF Drop, Inbox
  <2>4. toClient'[p] \in {toClient[p], <<>>}
    BY <1>1 DEF Drop, Outbox
  <2> QED
    BY <2>1, <2>3, <2>4, RequestsShrink, MessagesShrink
<1>3. ServerStep({})
  BY <1>1, <1>2 DEF ServerStep
<1> QED
  BY <1>1, <1>3, QuietStep

LEMMA MineSession ==
  ASSUME KnownInv, SessionInv, Mine \/ UNCHANGED vars
  PROVE  SessionInv'
<1>1. UNCHANGED <<serverVars, lastSession, clientVars, toServer, toClient>>
  BY DEF Mine, vars, netVars, serverVars, clientVars
<1>2. ServerStep({})
  BY <1>1, KnownParts, SendsNothing, HandlerStep
<1> QED
  BY <1>1, <1>2, QuietStep

-----------------------------------------------------------------------------
(* The clients' threads *)

\* The part of the invariant that one client can disturb.
ClientPart(c) ==
  /\ ClientEntriesInv(c) /\ IdsOf(c)
  /\ \A m \in Told(c, "PPFINALTX") : FinalFits(c, m)
  /\ \A m \in Asked(c, "PPSIGNFINALTX") : SignatureFits(c, m.sig)
  /\ Present(c) => \A s \in SignaturesOf(c) : BoundTo(c, s)
  /\ cState[c] = "SIGNING" /\ cSessionID[c] = nSessionID =>
       nState = "SIGNING" /\ cEntries[c] \subseteq ToSet(vecEntries)

SamePool == UNCHANGED <<nState, nSessionID, vecEntries, scriptSigs, lastSession>>

SameClient(p) ==
  /\ cState'[p] = cState[p] /\ cSessionID'[p] = cSessionID[p]
  /\ cEntries'[p] = cEntries[p] /\ joins'[p] = joins[p]
  /\ toServer'[p] = toServer[p] /\ toClient'[p] = toClient[p]

LEMMA PartOfClient ==
  ASSUME SessionInv, NEW c \in Client
  PROVE  ClientPart(c)
BY DEF SessionInv, EntriesInv, IdsInv, FinalsInv, SignaturesInv, SignaturesUnderWay, SignedOnce,
       SignersAreInThePool, ClientPart

LEMMA SameClientPart ==
  ASSUME SamePool, NEW p \in Client, SameClient(p), ClientPart(p)
  PROVE  ClientPart(p)'
<1>1. /\ \A cmd : Asked(p, cmd)' = Asked(p, cmd) /\ Told(p, cmd)' = Told(p, cmd)
  BY DEF SameClient, Asked, Told
<1>2. Seen(p)' = Seen(p) /\ SignaturesOf(p)' = SignaturesOf(p) /\ (Present(p)' <=> Present(p))
  BY <1>1 DEF SamePool, Seen, SignaturesOf, Present
<1>3. \A e : Made(p, e)' <=> Made(p, e)
  BY DEF SameClient, Made
<1>4. ClientEntriesInv(p)'
  BY <1>1, <1>2, <1>3 DEF ClientPart, ClientEntriesInv, SameClient, RequestsInOrder
<1>5. IdsOf(p)'
  BY <1>1 DEF ClientPart, IdsOf, SamePool, SameClient, MessagesInOrder
<1>6. \A m \in Told(p, "PPFINALTX")' : FinalFits(p, m)'
  BY <1>1 DEF ClientPart, FinalFits, SamePool
<1>7. \A m \in Asked(p, "PPSIGNFINALTX")' : SignatureFits(p, m.sig)'
  BY <1>1, <1>2 DEF ClientPart, SignatureFits, SamePool
<1>8. Present(p)' => \A s \in SignaturesOf(p)' : BoundTo(p, s)'
  BY <1>1, <1>2 DEF ClientPart, BoundTo, SamePool, SameClient
<1>9. cState'[p] = "SIGNING" /\ cSessionID'[p] = nSessionID' =>
        nState' = "SIGNING" /\ cEntries'[p] \subseteq ToSet(vecEntries)'
  BY DEF ClientPart, SamePool, SameClient
<1> QED
  BY <1>4, <1>5, <1>6, <1>7, <1>8, <1>9 DEF ClientPart

\* A step of client c.
LEMMA OneClientStep ==
  ASSUME SessionInv, SamePool, NEW c \in Client, \A p \in Client \ {c} : SameClient(p),
         ClientPart(c)'
  PROVE  SessionInv'
<1>1. ASSUME NEW p \in Client PROVE ClientPart(p)'
  <2>1. CASE p = c
    BY <2>1
  <2>2. CASE p # c
    BY <2>2, PartOfClient, SameClientPart
  <2> QED
    BY <2>1, <2>2
<1>2. nSessionID' <= lastSession' /\ NoEarlySignatures' /\ SignaturesFit' /\ DifferentInputs'
  BY DEF SessionInv, IdsInv, SignaturesInv, SamePool, NoEarlySignatures, SignaturesFit,
         DifferentInputs
<1>3. EntriesInv' /\ IdsInv' /\ FinalsInv'
  BY <1>1, <1>2 DEF ClientPart, EntriesInv, IdsInv, FinalsInv
<1>4. SignaturesUnderWay' /\ SignedOnce'
  BY <1>1 DEF ClientPart, SignaturesUnderWay, SignedOnce
<1>5. SignersAreInThePool'
  BY <1>1 DEF ClientPart, SignersAreInThePool
<1> QED
  BY <1>2, <1>3, <1>4, <1>5 DEF SessionInv, SignaturesInv

\* A client takes at most the first message of its queue.
Takes(c) ==
  \/ toClient'[c] = toClient[c]
  \/ toClient[c] # <<>> /\ toClient'[c] = Tail(toClient[c])

LEMMA TakesShrinks ==
  ASSUME KnownInv, SamePool, NEW c \in Client, Takes(c)
  PROVE  /\ \A cmd : Told(c, cmd)' \subseteq Told(c, cmd)
         /\ MessagesInOrder(toClient[c]) => MessagesInOrder(toClient[c])'
         /\ Seen(c)' \subseteq Seen(c) /\ (Present(c)' <=> Present(c))
<1>1. toClient[c] \in Seq(Message)
  BY KnownParts DEF Outbox
<1>2. Grows(toClient[c], toClient'[c], {})
  BY <1>1, MessagesShrink DEF Takes
<1>3. ToSet(toClient'[c]) \subseteq ToSet(toClient[c])
  BY <1>2 DEF Grows
<1>4. \A cmd : Told(c, cmd)' \subseteq Told(c, cmd)
  BY <1>3 DEF Told
<1>5. MessagesInOrder(toClient[c]) => MessagesInOrder(toClient[c])'
  BY <1>2 DEF Grows, Follows, MessagesInOrder
<1> QED
  BY <1>4, <1>5 DEF Seen, Present, SamePool

LEMMA RequestsGrow ==
  ASSUME NEW q \in Seq(Request), NEW m \in Request, RequestsInOrder(q),
         \A x \in ToSet(q) : x.cmd = "PPVIN" =>
           m.cmd # "PPSIGNFINALTX" /\ (m.cmd = "PPVIN" => x.entry.join < m.entry.join)
  PROVE  RequestsInOrder(Append(q, m))
<1> DEFINE r == Append(q, m)
<1>1. /\ Len(q) \in Nat /\ DOMAIN q = 1 .. Len(q) /\ DOMAIN r = 1 .. Len(q) + 1
      /\ \A i \in 1 .. Len(q) : r[i] = q[i]
      /\ r[Len(q) + 1] = m
  BY AppendProperties
<1> HIDE DEF r
<1> SUFFICES ASSUME NEW i \in DOMAIN r, NEW j \in DOMAIN r, i < j, r[i].cmd = "PPVIN"
             PROVE  /\ r[j].cmd # "PPSIGNFINALTX"
                    /\ r[j].cmd = "PPVIN" => r[i].entry.join < r[j].entry.join
  BY DEF RequestsInOrder, r
<1>2. i \in DOMAIN q /\ r[i] = q[i]
  BY <1>1
<1>3. CASE j \in DOMAIN q
  BY <1>1, <1>2, <1>3 DEF RequestsInOrder
<1>4. CASE j \notin DOMAIN q
  <2>1. r[j] = m
    BY <1>1, <1>4
  <2> QED
    BY <1>2, <2>1 DEF ToSet
<1> QED
  BY <1>3, <1>4

\* A client in a session that signs has an identifier: without one, its signature is for no pool.
LEMMA SignedInASession ==
  ASSUME KnownInv, SessionInv, NEW c \in Client, Present(c), SignaturesOf(c) # {}
  PROVE  nState = "SIGNING" /\ nSessionID # 0
<1>1. nState = "SIGNING"
  BY NoSignatures DEF SessionInv
<1>2. vecEntries # <<>>
  BY DEF Present, ToSet
<1> QED
  BY <1>1, <1>2, KnownParts DEF PoolConsistent

\* A message of client c that is not taken in an order it must not be taken in.
ComesLast(c, m) ==
  \A x \in Asked(c, "PPVIN") :
    m.cmd # "PPSIGNFINALTX" /\ (m.cmd = "PPVIN" => x.entry.join < m.entry.join)

LEMMA ClientSends ==
  ASSUME KnownInv, NEW c \in Client, NEW m \in Request, SendToServer(c, m)
  PROVE  /\ \A cmd : Asked(c, cmd)' \subseteq Asked(c, cmd) \cup {x \in {m} : x.cmd = cmd}
         /\ RequestsInOrder(toServer[c]) /\ ComesLast(c, m) => RequestsInOrder(toServer[c])'
         /\ \A p \in Client \ {c} : toServer'[p] = toServer[p]
<1>0. toServer \in Inbox /\ toServer[c] \in Seq(Request)
  BY KnownParts DEF Inbox
<1>1. toServer'[c] = toServer[c] \/ toServer'[c] = Append(toServer[c], m)
  BY <1>0 DEF SendToServer, Inbox
<1>2. \A p \in Client \ {c} : toServer'[p] = toServer[p]
  BY <1>0 DEF SendToServer, Inbox
<1>3. ToSet(toServer'[c]) \subseteq ToSet(toServer[c]) \cup {m}
  <2>1. ToSet(Append(toServer[c], m)) = ToSet(toServer[c]) \cup {m}
    BY <1>0, ToSetOfAppend
  <2>2. CASE toServer'[c] = toServer[c]
    BY <2>2
  <2>3. CASE toServer'[c] = Append(toServer[c], m)
    BY <2>1, <2>3
  <2> QED
    BY <1>1, <2>2, <2>3
<1>4. \A cmd : Asked(c, cmd)' \subseteq Asked(c, cmd) \cup {x \in {m} : x.cmd = cmd}
  BY <1>3 DEF Asked
<1>5. ASSUME RequestsInOrder(toServer[c]), ComesLast(c, m)
      PROVE  RequestsInOrder(toServer'[c])
  <2>1. \A x \in ToSet(toServer[c]) : x.cmd = "PPVIN" =>
          m.cmd # "PPSIGNFINALTX" /\ (m.cmd = "PPVIN" => x.entry.join < m.entry.join)
    BY <1>5 DEF ComesLast, Asked
  <2>2. RequestsInOrder(Append(toServer[c], m))
    BY <1>0, <1>5, <2>1, RequestsGrow
  <2> QED
    BY <1>1, <1>5, <2>2
<1>6. RequestsInOrder(toServer[c])' <=> RequestsInOrder(toServer'[c])
  BY DEF RequestsInOrder
<1> QED
  BY <1>2, <1>4, <1>5, <1>6

\* What does not depend on the client's own state.
LEMMA ClientHears ==
  ASSUME KnownInv, SessionInv, SamePool, NEW c \in Client, Takes(c)
  PROVE  /\ \A m \in Told(c, "PPFINALTX")' : FinalFits(c, m)'
         /\ \A m \in Told(c, "ACCEPTED")' \cup Told(c, "PPFINALTX")' : m.id \in 1 .. lastSession'
         /\ MessagesInOrder(toClient[c])'
<1>1. ClientPart(c)
  BY PartOfClient
<1>2. \A m \in Told(c, "PPFINALTX")' : FinalFits(c, m)'
  BY <1>1, TakesShrinks DEF ClientPart, FinalFits, SamePool
<1>3. \A m \in Told(c, "ACCEPTED")' \cup Told(c, "PPFINALTX")' : m.id \in 1 .. lastSession'
  BY <1>1, TakesShrinks DEF ClientPart, IdsOf, SamePool
<1> QED
  BY <1>1, <1>2, <1>3, TakesShrinks DEF ClientPart, IdsOf

\* A client that sends no signature, and is not in the session of the pool if it has signed.
LEMMA QuietSigner ==
  ASSUME KnownInv, SessionInv, SamePool, NEW c \in Client, Takes(c),
         Asked(c, "PPSIGNFINALTX")' \subseteq Asked(c, "PPSIGNFINALTX"),
         Present(c) /\ SignaturesOf(c) # {} => cSessionID'[c] # nSessionID
  PROVE  /\ \A m \in Asked(c, "PPSIGNFINALTX")' : SignatureFits(c, m.sig)'
         /\ Present(c)' => \A s \in SignaturesOf(c)' : BoundTo(c, s)'
<1>1. ClientPart(c)
  BY PartOfClient
<1>2. (Present(c)' <=> Present(c)) /\ SignaturesOf(c)' \subseteq SignaturesOf(c)
  BY TakesShrinks DEF SignaturesOf, SamePool
<1>3. \A m \in Asked(c, "PPSIGNFINALTX")' : SignatureFits(c, m.sig)'
  BY <1>1, <1>2 DEF ClientPart, SignatureFits, SamePool
<1>4. ASSUME Present(c), NEW s \in SignaturesOf(c)' PROVE BoundTo(c, s)'
  <2>1. s \in SignaturesOf(c) /\ BoundTo(c, s) /\ cSessionID'[c] # nSessionID
    BY <1>1, <1>2, <1>4 DEF ClientPart
  <2> QED
    BY <1>2, <2>1, TakesShrinks DEF BoundTo, SamePool
<1> QED
  BY <1>2, <1>3, <1>4

LEMMA ClientSetNullSession ==
  ASSUME KnownInv, SessionInv, SamePool, NEW c \in Client, Takes(c),
         \A p \in Client \ {c} : toClient'[p] = toClient[p], UNCHANGED toServer,
         NEW st \in {"IDLE", "ERROR"}, ClientSetNull(c, st)
  PROVE  SessionInv'
<1>0. ClientPart(c) /\ ClientType /\ lastSession \in Nat
  BY PartOfClient, KnownParts, TypeParts
<1>1. /\ cState'[c] = st /\ cSessionID'[c] = 0 /\ cEntries'[c] = {} /\ joins'[c] = joins[c]
      /\ \A p \in Client \ {c} : SameClient(p)
  BY <1>0 DEF ClientSetNull, ClientType, SameClient
<1>2. \A cmd : Asked(c, cmd)' = Asked(c, cmd)
  BY DEF Asked
<1>3. \A e : Made(c, e) => Made(c, e)'
  BY <1>1 DEF Made
<1>4. ClientEntriesInv(c)'
  BY <1>0, <1>1, <1>2, <1>3, TakesShrinks DEF ClientPart, ClientEntriesInv, RequestsInOrder
<1>5. IdsOf(c)'
  BY <1>0, <1>1, ClientHears DEF IdsOf, SamePool
<1>6. Present(c) /\ SignaturesOf(c) # {} => cSessionID'[c] # nSessionID
  BY <1>1, SignedInASession
<1>7. ClientPart(c)'
  BY <1>1, <1>2, <1>4, <1>5, <1>6, ClientHears, QuietSigner DEF ClientPart
<1> QED
  BY <1>1, <1>7, OneClientStep

\* The client takes a message, and nothing else happens to it.
LEMMA MessageIgnored ==
  ASSUME KnownInv, SessionInv, UNCHANGED <<serverVars, lastSession, clientVars, toServer>>,
         \A p \in Client : Takes(p)
  PROVE  SessionInv'
<1>1. ASSUME NEW p \in Client
      PROVE  Shrinks(toServer[p], toServer'[p]) /\ Grows(toClient[p], toClient'[p], {})
  <2>1. toServer[p] \in Seq(Request) /\ toClient[p] \in Seq(Message)
    BY KnownParts DEF Inbox, Outbox
  <2> QED
    BY <2>1, RequestsShrink, MessagesShrink DEF Takes
<1>2. ServerStep({})
  BY <1>1 DEF ServerStep
<1> QED
  BY <1>2, QuietStep

LEMMA ReceivesTakes ==
  ASSUME KnownInv, NEW c \in Client, NEW cmd, ClientReceives(c, cmd)
  PROVE  /\ Takes(c) /\ \A p \in Client : Takes(p)
         /\ \A p \in Client \ {c} : toClient'[p] = toClient[p]
         /\ toClient[c] \in Seq(Message) /\ toClient[c] # <<>> /\ Head(toClient[c]).cmd = cmd
         /\ toClient'[c] = Tail(toClient[c]) /\ Head(toClient[c]) \in Told(c, cmd)
         /\ SamePool /\ UNCHANGED <<serverVars, lastSession>>
<1>1. toClient \in Outbox /\ toClient[c] \in Seq(Message)
  BY KnownParts DEF Outbox
<1>2. /\ toClient[c] # <<>> /\ Head(toClient[c]).cmd = cmd
      /\ toClient' = [toClient EXCEPT ![c] = Tail(@)]
      /\ UNCHANGED <<serverVars, lastSession>>
  BY DEF ClientReceives
<1>3. Head(toClient[c]) \in Told(c, cmd)
  BY <1>1, <1>2, ToSetOfTail DEF Told
<1>4. \A p \in Client : Takes(p)
  BY <1>1, <1>2 DEF Takes, Outbox
<1> QED
  BY <1>1, <1>2, <1>3, <1>4 DEF Outbox, SamePool, serverVars

LEMMA DoAutomaticDenominatingSession ==
  ASSUME KnownInv, SessionInv, NEW c \in Client, DoAutomaticDenominating(c)
  PROVE  SessionInv'
<1>0. ClientPart(c) /\ ClientType /\ ChainType /\ lastSession \in Nat
  BY PartOfClient, KnownParts, TypeParts
<1>1. PICK d \in Denom, n \in {cCollateral[c], charged[c]} :
        SendToServer(c, [cmd |-> "PPACCEPT", denom |-> d,
                         collateral |-> [client |-> c, nth |-> n]])
  BY DEF DoAutomaticDenominating
<1> DEFINE m == [cmd |-> "PPACCEPT", denom |-> d, collateral |-> [client |-> c, nth |-> n]]
<1>2. /\ cState'[c] = "QUEUE" /\ joins'[c] = joins[c] + 1 /\ cSessionID[c] = 0
      /\ cSessionID'[c] = 0 /\ cEntries'[c] = {}
      /\ UNCHANGED toClient /\ SamePool /\ Takes(c)
      /\ \A p \in Client \ {c} : /\ cState'[p] = cState[p] /\ cSessionID'[p] = cSessionID[p]
                                 /\ cEntries'[p] = cEntries[p] /\ joins'[p] = joins[p]
                                 /\ toClient'[p] = toClient[p]
  BY <1>0 DEF DoAutomaticDenominating, ClientType, SamePool, serverVars, Takes
<1>3. m \in Request /\ m.cmd = "PPACCEPT" /\ SendToServer(c, m)
  <2>1. n \in Nat
    BY <1>0 DEF ClientType, ChainType
  <2> QED
    BY <1>1, <2>1 DEF Request, Collateral
<1> HIDE DEF m
<1>4. ComesLast(c, m)
  BY <1>3 DEF ComesLast
<1>5. /\ Asked(c, "PPVIN")' \subseteq Asked(c, "PPVIN")
      /\ Asked(c, "PPSIGNFINALTX")' \subseteq Asked(c, "PPSIGNFINALTX")
      /\ RequestsInOrder(toServer[c])'
      /\ \A p \in Client \ {c} : SameClient(p)
  BY <1>0, <1>2, <1>3, <1>4, ClientSends DEF ClientPart, ClientEntriesInv, SameClient
<1>6. \A e \in Entry : Made(c, e) => Made(c, e)'
  <2> SUFFICES ASSUME NEW e \in Entry, e.join <= joins[c]
               PROVE  e.join <= joins[c] + 1 /\ e.join < joins[c] + 1
    BY <1>2 DEF Made
  <2>1. e.join \in Int /\ joins[c] \in Int
    BY <1>0, PoolAssumption DEF Entry, ClientType
  <2> QED
    BY <2>1
<1>7. ClientEntriesInv(c)'
  <2>1. \A f \in Seen(c)' : f \in Seen(c) /\ f \in Entry
    BY <1>2, TakesShrinks DEF Seen
  <2>2. \A x \in Asked(c, "PPVIN") : x.entry \in Entry
    <3>1. \A x \in Asked(c, "PPVIN") : x \in Request /\ x.cmd = "PPVIN"
      BY KnownParts, ToSetType DEF Inbox, Asked
    <3> QED
      BY <3>1 DEF Request
  <2> QED
    BY <1>0, <1>2, <1>5, <1>6, <2>1, <2>2 DEF ClientPart, ClientEntriesInv
<1>8. IdsOf(c)'
  BY <1>0, <1>2, ClientHears DEF IdsOf, SamePool
<1>9. Present(c) /\ SignaturesOf(c) # {} => cSessionID'[c] # nSessionID
  BY <1>2, SignedInASession
<1>10. ClientPart(c)'
  BY <1>2, <1>5, <1>7, <1>8, <1>9, ClientHears, QuietSigner DEF ClientPart
<1> QED
  BY <1>2, <1>5, <1>10, OneClientStep

LEMMA AskedEntries ==
  ASSUME KnownInv, NEW c \in Client
  PROVE  /\ \A x \in Asked(c, "PPVIN") : x.entry \in Entry
         /\ \A m \in Told(c, "PPFINALTX") : m.tx \in SUBSET Entry
         /\ \A e \in Entry : e.join \in Nat
<1>1. \A x \in Asked(c, "PPVIN") : x \in Request /\ x.cmd = "PPVIN"
  BY KnownParts, ToSetType DEF Inbox, Asked
<1>2. \A m \in Told(c, "PPFINALTX") : m \in Message /\ m.cmd = "PPFINALTX"
  BY KnownParts, ToSetType DEF Outbox, Told
<1>3. \A e \in Entry : e.join \in Nat
  BY PoolAssumption DEF Entry
<1> QED
  BY <1>1, <1>2, <1>3 DEF Request, Message

LEMMA SendDenominateSession ==
  ASSUME KnownInv, SessionInv, NEW c \in Client, NEW k \in Coin,
         ClientReceives(c, "PPQUEUE"), cState[c] = "QUEUE", cSessionID[c] # 0,
         cEntries' = [cEntries EXCEPT ![c] = {NewEntry(c, k)}],
         cState' = [cState EXCEPT ![c] = "ACCEPTING_ENTRIES"],
         SendToServer(c, [cmd |-> "PPVIN", entry |-> NewEntry(c, k)]),
         UNCHANGED <<cSessionID, joins>>
  PROVE  SessionInv'
<1> PICK e : e = NewEntry(c, k)
  OBVIOUS
<1> DEFINE m == [cmd |-> "PPVIN", entry |-> e]
<1>0. ClientPart(c) /\ ClientType /\ lastSession \in Nat
  BY PartOfClient, KnownParts, TypeParts
<1>1. /\ Takes(c) /\ SamePool /\ \A p \in Client \ {c} : toClient'[p] = toClient[p]
  BY ReceivesTakes
<1>2. e \in Entry /\ e.client = c /\ e.join = joins[c] /\ joins[c] \in Nat
  BY <1>0, NewEntryType DEF KnownInv, NewEntry, ClientType
<1>3. m \in Request /\ m.cmd = "PPVIN" /\ m.entry = e /\ SendToServer(c, m)
  BY <1>2 DEF Request
<1>4. /\ cState'[c] = "ACCEPTING_ENTRIES" /\ cEntries'[c] = {e}
      /\ cSessionID'[c] = cSessionID[c] /\ joins'[c] = joins[c]
      /\ \A p \in Client \ {c} : /\ cState'[p] = cState[p] /\ cSessionID'[p] = cSessionID[p]
                                 /\ cEntries'[p] = cEntries[p] /\ joins'[p] = joins[p]
  BY <1>0 DEF ClientType
<1> HIDE DEF m
<1>5. \A f : Made(c, f) => f.join < joins[c] /\ Made(c, f)'
  BY <1>4 DEF Made
<1>6. ComesLast(c, m)
  BY <1>0, <1>2, <1>3, <1>5 DEF ComesLast, ClientPart, ClientEntriesInv
<1>7. /\ Asked(c, "PPVIN")' \subseteq Asked(c, "PPVIN") \cup {m}
      /\ Asked(c, "PPSIGNFINALTX")' \subseteq Asked(c, "PPSIGNFINALTX")
      /\ RequestsInOrder(toServer[c])'
      /\ \A p \in Client \ {c} : SameClient(p)
  BY <1>0, <1>1, <1>3, <1>4, <1>6, ClientSends DEF ClientPart, ClientEntriesInv, SameClient
<1>8. ClientEntriesInv(c)'
  <2>1. \A f \in Seen(c)' : f \in Seen(c) /\ f.join < joins[c] /\ Made(c, f)'
    BY <1>0, <1>1, <1>5, TakesShrinks DEF ClientPart, ClientEntriesInv
  <2>2. Made(c, e)'
    BY <1>2, <1>4 DEF Made
  <2>3. \A x \in Asked(c, "PPVIN")' : /\ x.entry.client = c /\ Made(c, x.entry)'
                                      /\ \A f \in Seen(c)' : f.join < x.entry.join
    BY <1>0, <1>2, <1>3, <1>5, <1>7, <2>1, <2>2 DEF ClientPart, ClientEntriesInv
  <2> QED
    BY <1>2, <1>4, <1>7, <2>1, <2>3 DEF ClientEntriesInv
<1>9. IdsOf(c)'
  BY <1>0, <1>1, <1>4, ClientHears DEF ClientPart, IdsOf, SamePool
<1>10. Present(c) /\ SignaturesOf(c) # {} => cSessionID'[c] # nSessionID
  BY <1>0, <1>4 DEF ClientPart, BoundTo
<1>11. ClientPart(c)'
  BY <1>1, <1>4, <1>7, <1>8, <1>9, <1>10, ClientHears, QuietSigner DEF ClientPart
<1> QED
  BY <1>1, <1>7, <1>11, OneClientStep

LEMMA ClientRecvPPQUEUESession ==
  ASSUME KnownInv, SessionInv, NEW c \in Client, ClientRecvPPQUEUE(c)
  PROVE  SessionInv'
<1>1. ClientReceives(c, "PPQUEUE")
  BY DEF ClientRecvPPQUEUE
<1>2. /\ Takes(c) /\ SamePool /\ \A p \in Client \ {c} : toClient'[p] = toClient[p]
      /\ \A p \in Client : Takes(p)
      /\ UNCHANGED <<serverVars, lastSession>>
  BY <1>1, ReceivesTakes
<1>3. CASE UNCHANGED <<clientVars, toServer>>
  BY <1>2, <1>3, MessageIgnored
<1>4. CASE cState[c] = "QUEUE" /\ \E k \in Unspent(c, cDenom[c], mined) : SendDenominate(c, k)
  <2>1. PICK k \in Coin : SendDenominate(c, k)
    BY <1>4 DEF Unspent
  <2>2. CASE ClientSetNull(c, "IDLE") /\ UNCHANGED toServer
    BY <1>2, <2>2, ClientSetNullSession
  <2>3. CASE ~(ClientSetNull(c, "IDLE") /\ UNCHANGED toServer)
    BY <1>1, <1>4, <2>1, <2>3, SendDenominateSession DEF SendDenominate
  <2> QED
    BY <2>2, <2>3
<1> QED
  BY <1>3, <1>4 DEF ClientRecvPPQUEUE, SubmitDenominate

LEMMA ClientRecvAcceptedSession ==
  ASSUME KnownInv, SessionInv, NEW c \in Client, ClientRecvAccepted(c)
  PROVE  SessionInv'
<1> DEFINE id == Head(toClient[c]).id
<1>0. ClientPart(c) /\ ClientType /\ lastSession \in Nat
  BY PartOfClient, KnownParts, TypeParts
<1>1. ClientReceives(c, "ACCEPTED")
  BY DEF ClientRecvAccepted
<1>2. /\ Takes(c) /\ SamePool /\ \A p \in Client \ {c} : toClient'[p] = toClient[p]
      /\ \A p \in Client : Takes(p)
      /\ UNCHANGED <<serverVars, lastSession>>
      /\ Head(toClient[c]) \in Told(c, "ACCEPTED")
  BY <1>1, ReceivesTakes
<1>3. CASE UNCHANGED cSessionID
  <2>1. UNCHANGED <<clientVars, toServer>>
    BY <1>3 DEF ClientRecvAccepted, clientVars
  <2> QED
    BY <1>2, <2>1, MessageIgnored
<1>4. CASE cState[c] = "QUEUE" /\ cSessionID' = [cSessionID EXCEPT ![c] = id]
  <2>1. /\ cSessionID'[c] = id /\ UNCHANGED <<cState, cEntries, joins, toServer>>
        /\ \A p \in Client \ {c} : SameClient(p)
    BY <1>0, <1>2, <1>4 DEF ClientRecvAccepted, ClientType, SameClient
  <2>2. \A cmd : Asked(c, cmd)' = Asked(c, cmd)
    BY <2>1 DEF Asked
  <2>3. \A f : Made(c, f)' <=> Made(c, f)
    BY <2>1 DEF Made
  <2>4. ClientEntriesInv(c)'
    BY <1>0, <1>2, <2>1, <2>2, <2>3, TakesShrinks DEF ClientPart, ClientEntriesInv, RequestsInOrder
  <2>5. id \in 1 .. lastSession
    BY <1>0, <1>2 DEF ClientPart, IdsOf
  <2>6. id <= lastSession
    BY <1>0, <2>5
  <2>7. IdsOf(c)'
    BY <1>2, <2>1, <2>6, ClientHears DEF IdsOf, SamePool
  <2>8. Present(c) /\ SignaturesOf(c) # {} => cSessionID'[c] # nSessionID
    BY <1>0, <1>2, <2>1 DEF ClientPart, BoundTo
  <2>9. ClientPart(c)'
    BY <1>2, <1>4, <2>1, <2>2, <2>4, <2>7, <2>8, ClientHears, QuietSigner DEF ClientPart
  <2> QED
    BY <1>2, <2>1, <2>9, OneClientStep
<1> QED
  BY <1>3, <1>4 DEF ClientRecvAccepted

\* A client that signs is in the pool for this very transaction, or not at all.
LEMMA SignsWhatItSent ==
  ASSUME KnownInv, SessionInv, NEW c \in Client,
         NEW m \in Told(c, "PPFINALTX"), NEW e \in cEntries[c] \cap m.tx
  PROVE  /\ e.client = c /\ e \in Entry /\ e.join = joins[c] /\ Asked(c, "PPVIN") = {}
         /\ Present(c) \/ m.id = nSessionID =>
              m.id = nSessionID /\ nState = "SIGNING" /\ m.tx = ToSet(vecEntries)
<1>0. ClientPart(c) /\ ClientType /\ joins[c] \in Nat
  BY PartOfClient, KnownParts, TypeParts DEF ClientType
<1>1. e \in Entry /\ e.client = c /\ e.join = joins[c]
  BY <1>0, AskedEntries DEF ClientPart, ClientEntriesInv
<1>2. e \in Seen(c)
  BY <1>1 DEF Seen
<1>3. Asked(c, "PPVIN") = {}
  <2> SUFFICES ASSUME NEW x \in Asked(c, "PPVIN") PROVE FALSE
    OBVIOUS
  <2>1. x.entry \in Entry /\ x.entry.join \in Nat
    BY AskedEntries
  <2>2. e.join < x.entry.join /\ x.entry.join <= joins[c]
    BY <1>0, <1>2 DEF ClientPart, ClientEntriesInv, Made
  <2> QED
    BY <1>0, <1>1, <2>1, <2>2
<1>4. FinalFits(c, m)
  BY <1>0 DEF ClientPart
<1>5. ASSUME Present(c) PROVE m.id = nSessionID
  <2> SUFFICES ASSUME m.id # nSessionID PROVE FALSE
    OBVIOUS
  <2>1. PICK f \in ToSet(vecEntries) : f.client = c
    BY <1>5 DEF Present
  <2>2. e.join < f.join
    BY <1>1, <1>4, <2>1 DEF FinalFits
  <2>3. f \in Entry
    BY KnownParts, ToSetType
  <2>4. f.join <= joins[c] /\ f.join \in Nat
    BY <1>0, <2>1, <2>3, AskedEntries DEF ClientPart, ClientEntriesInv, Made, Seen
  <2> QED
    BY <1>0, <1>1, <2>2, <2>4
<1> QED
  BY <1>1, <1>3, <1>4, <1>5 DEF FinalFits

LEMMA HeadComesFirst ==
  ASSUME NEW q \in Seq(Message), q # <<>>, MessagesInOrder(q), Head(q).cmd = "PPFINALTX"
  PROVE  \A m \in ToSet(Tail(q)) : m.cmd = "ACCEPTED" => m.id # Head(q).id
<1>1. /\ Len(q) \in Nat \ {0} /\ DOMAIN q = 1 .. Len(q) /\ Head(q) = q[1]
      /\ DOMAIN Tail(q) = 1 .. Len(q) - 1
      /\ \A i \in DOMAIN Tail(q) : Tail(q)[i] = q[i + 1]
  BY HeadTailProperties, EmptySeq
<1>2. \A i \in DOMAIN Tail(q) : i + 1 \in DOMAIN q /\ 1 < i + 1 /\ 1 \in DOMAIN q
  BY <1>1
<1> QED
  BY <1>1, <1>2 DEF MessagesInOrder, ToSet

LEMMA ClientSignsSession ==
  ASSUME KnownInv, SessionInv, NEW c \in Client, ClientReceives(c, "PPFINALTX"),
         NEW m \in Told(c, "PPFINALTX"), m = Head(toClient[c]),
         cSessionID[c] = m.id, NEW e \in cEntries[c] \cap m.tx,
         cState' = [cState EXCEPT ![c] = "SIGNING"],
         SendToServer(c, [cmd |-> "PPSIGNFINALTX", sig |-> [input |-> Prevout(e), tx |-> m.tx]]),
         UNCHANGED <<cSessionID, cEntries, joins>>
  PROVE  SessionInv'
<1> DEFINE t == [input |-> Prevout(e), tx |-> m.tx]
           req == [cmd |-> "PPSIGNFINALTX", sig |-> t]
<1>0. ClientPart(c) /\ ClientType /\ toClient[c] \in Seq(Message) /\ m.cmd = "PPFINALTX"
  BY PartOfClient, KnownParts, TypeParts DEF Outbox, Told
<1>1. /\ Takes(c) /\ SamePool /\ \A p \in Client \ {c} : toClient'[p] = toClient[p]
      /\ toClient[c] # <<>> /\ toClient'[c] = Tail(toClient[c])
  BY ReceivesTakes
<1>2. /\ e.client = c /\ e \in Entry /\ Asked(c, "PPVIN") = {}
      /\ Present(c) \/ m.id = nSessionID =>
           m.id = nSessionID /\ nState = "SIGNING" /\ m.tx = ToSet(vecEntries)
  BY SignsWhatItSent
<1>3. cEntries[c] = {e}
  BY <1>0 DEF ClientPart, ClientEntriesInv
<1>4. /\ t \in Signature /\ t.input = Prevout(e) /\ t.tx = m.tx /\ t.input.client = c
      /\ req \in Request /\ req.cmd = "PPSIGNFINALTX" /\ req.sig = t
      /\ SendToServer(c, req)
  <2>1. m.tx \in SUBSET Entry
    BY AskedEntries
  <2>2. Prevout(e) \in [client : Client, denom : Denom, coin : Coin] /\ Prevout(e).client = c
    BY <1>2 DEF Prevout, Entry
  <2> QED
    BY <2>1, <2>2 DEF Request, Signature
<1>5. /\ cState'[c] = "SIGNING" /\ cEntries'[c] = {e}
      /\ cSessionID'[c] = m.id /\ joins'[c] = joins[c]
      /\ \A p \in Client \ {c} : /\ cState'[p] = cState[p] /\ cSessionID'[p] = cSessionID[p]
                                 /\ cEntries'[p] = cEntries[p] /\ joins'[p] = joins[p]
  BY <1>0, <1>3 DEF ClientType
<1> HIDE DEF req, t
<1>6. ComesLast(c, req)
  BY <1>2 DEF ComesLast
<1>7. /\ Asked(c, "PPVIN")' \subseteq Asked(c, "PPVIN")
      /\ Asked(c, "PPSIGNFINALTX")' \subseteq Asked(c, "PPSIGNFINALTX") \cup {req}
      /\ RequestsInOrder(toServer[c])'
      /\ \A p \in Client \ {c} : SameClient(p)
  BY <1>0, <1>1, <1>4, <1>5, <1>6, ClientSends DEF ClientPart, ClientEntriesInv, SameClient
<1>8. ClientEntriesInv(c)'
  <2>1. \A f : Made(c, f) => Made(c, f)'
    BY <1>5 DEF Made
  <2> QED
    BY <1>0, <1>1, <1>5, <1>7, <2>1, TakesShrinks DEF ClientPart, ClientEntriesInv
<1>9. IdsOf(c)'
  BY <1>0, <1>1, <1>5, ClientHears DEF ClientPart, IdsOf, SamePool
<1>10. Present(c)' <=> Present(c)
  BY <1>1, TakesShrinks
<1>11. \A x \in Asked(c, "PPSIGNFINALTX")' : SignatureFits(c, x.sig)'
  <2> SUFFICES ASSUME NEW x \in Asked(c, "PPSIGNFINALTX")' PROVE SignatureFits(c, x.sig)'
    OBVIOUS
  <2>1. CASE x \in Asked(c, "PPSIGNFINALTX")
    BY <1>0, <1>1, <1>10, <2>1 DEF ClientPart, SignatureFits, SamePool
  <2>2. CASE x = req
    <3>1. SignatureFits(c, t)
      BY <1>2, <1>4 DEF SignatureFits
    <3>2. x.sig = t
      BY <1>4, <2>2
    <3> QED
      BY <1>1, <1>10, <3>1, <3>2 DEF SignatureFits, SamePool
  <2> QED
    BY <1>7, <2>1, <2>2
<1>12. SignaturesOf(c)' \subseteq SignaturesOf(c) \cup {t}
  BY <1>1, <1>4, <1>7 DEF SignaturesOf, SamePool
<1>13. \A x \in Told(c, "ACCEPTED")' : x.id # m.id
  <2> DEFINE q == toClient[c]
  <2>1. q \in Seq(Message) /\ q # <<>> /\ MessagesInOrder(q) /\ Head(q) = m
    BY <1>0, <1>1 DEF ClientPart, IdsOf
  <2> HIDE DEF q
  <2>2. \A x \in ToSet(Tail(q)) : x.cmd = "ACCEPTED" => x.id # m.id
    BY <1>0, <2>1, HeadComesFirst
  <2>3. \A x \in Told(c, "ACCEPTED")' : x \in ToSet(Tail(q)) /\ x.cmd = "ACCEPTED"
    BY <1>1 DEF Told, q
  <2> QED
    BY <2>2, <2>3
<1>14. ASSUME Present(c), NEW s \in SignaturesOf(c)' PROVE BoundTo(c, s)'
  <2>1. m.id = nSessionID /\ nSessionID' = nSessionID
    BY <1>1, <1>2, <1>14 DEF SamePool
  <2>2. \A u \in SignaturesOf(c)' : u.input = Prevout(e)
    <3>1. \A u \in SignaturesOf(c) : BoundTo(c, u)
      BY <1>0, <1>14 DEF ClientPart
    <3>2. \A u \in SignaturesOf(c) : u.input = Prevout(e)
      BY <2>1, <3>1 DEF BoundTo
    <3> QED
      BY <1>4, <1>12, <3>2
  <2> QED
    BY <1>5, <1>13, <2>1, <2>2 DEF BoundTo
<1>15. cState'[c] = "SIGNING" /\ cSessionID'[c] = nSessionID' =>
         nState' = "SIGNING" /\ cEntries'[c] \subseteq ToSet(vecEntries)'
  BY <1>1, <1>2, <1>5 DEF SamePool
<1>16. ClientPart(c)'
  BY <1>1, <1>8, <1>9, <1>10, <1>11, <1>14, <1>15, ClientHears DEF ClientPart
<1> QED
  BY <1>1, <1>7, <1>16, OneClientStep

LEMMA ClientRecvPPFINALTXSession ==
  ASSUME KnownInv, SessionInv, NEW c \in Client, ClientRecvPPFINALTX(c)
  PROVE  SessionInv'
<1>1. ClientReceives(c, "PPFINALTX")
  BY DEF ClientRecvPPFINALTX
<1>2. /\ Takes(c) /\ SamePool /\ \A p \in Client \ {c} : toClient'[p] = toClient[p]
      /\ \A p \in Client : Takes(p)
      /\ UNCHANGED <<serverVars, lastSession>>
      /\ Head(toClient[c]) \in Told(c, "PPFINALTX")
  BY <1>1, ReceivesTakes
<1>3. PICK m \in Told(c, "PPFINALTX") : m = Head(toClient[c])
  BY <1>2
<1>4. CASE UNCHANGED <<clientVars, toServer>>
  BY <1>2, <1>4, MessageIgnored
<1>5. CASE InSession(c, m.id) /\ SignFinalTransaction(c, m.tx)
  <2>1. CASE cEntries[c] \cap m.tx # {}
    <3>1. PICK e \in cEntries[c] \cap m.tx :
            SendToServer(c, [cmd |-> "PPSIGNFINALTX",
                             sig |-> [input |-> Prevout(e), tx |-> m.tx]])
      BY <1>5, <2>1 DEF SignFinalTransaction
    <3>2. /\ cState' = [cState EXCEPT ![c] = "SIGNING"]
          /\ UNCHANGED <<cSessionID, cEntries, joins>>
      BY <1>5, <2>1 DEF SignFinalTransaction
    <3> QED
      BY <1>1, <1>3, <1>5, <3>1, <3>2, ClientSignsSession DEF InSession
  <2>2. CASE ClientSetNull(c, "IDLE") /\ UNCHANGED toServer
    BY <1>2, <2>2, ClientSetNullSession
  <2> QED
    BY <1>5, <2>1, <2>2 DEF SignFinalTransaction
<1> QED
  BY <1>3, <1>4, <1>5 DEF ClientRecvPPFINALTX

LEMMA ClientGivesUpSession ==
  ASSUME KnownInv, SessionInv, NEW c \in Client,
         ClientRecvRejected(c) \/ ClientRecvPPCOMPLETE(c)
  PROVE  SessionInv'
<1>1. /\ ClientReceives(c, "REJECTED") \/ ClientReceives(c, "PPCOMPLETE")
      /\ UNCHANGED toServer
      /\ UNCHANGED clientVars \/ \E st \in {"IDLE", "ERROR"} : ClientSetNull(c, st)
  BY DEF ClientRecvRejected, ClientRecvPPCOMPLETE
<1>2. /\ Takes(c) /\ SamePool /\ \A p \in Client \ {c} : toClient'[p] = toClient[p]
      /\ \A p \in Client : Takes(p)
      /\ UNCHANGED <<serverVars, lastSession>>
  BY <1>1, ReceivesTakes
<1>3. CASE UNCHANGED clientVars
  BY <1>1, <1>2, <1>3, MessageIgnored
<1>4. CASE \E st \in {"IDLE", "ERROR"} : ClientSetNull(c, st)
  BY <1>1, <1>2, <1>4, ClientSetNullSession
<1> QED
  BY <1>1, <1>3, <1>4

LEMMA ClientCheckTimeoutSession ==
  ASSUME KnownInv, SessionInv, NEW c \in Client, ClientCheckTimeout(c)
  PROVE  SessionInv'
<1>1. /\ SamePool /\ UNCHANGED <<toServer, toClient>>
      /\ \E st \in {"IDLE", "ERROR"} : ClientSetNull(c, st)
  BY DEF ClientCheckTimeout, SamePool, serverVars, netVars
<1>2. Takes(c)
  BY <1>1 DEF Takes
<1> QED
  BY <1>1, <1>2, ClientSetNullSession

-----------------------------------------------------------------------------
(* The theorems *)

LEMMA SessionStep == KnownInv /\ SessionInv /\ [Next]_vars => SessionInv'
<1> SUFFICES ASSUME KnownInv, SessionInv, [Next]_vars PROVE SessionInv'
  OBVIOUS
<1>1. CASE CheckTimeout \/ ChargeFees \/ CheckForCompleteQueue
  BY <1>1, TimerThreadSession
<1>2. CASE Mine \/ UNCHANGED vars
  BY <1>2, MineSession
<1>3. CASE \E c \in Client : MessageThread(c)
  BY <1>3, RecvPPACCEPTSession, AddUserToExistingSessionSession, RecvPPVINSession,
     AddEntrySession, RecvPPSIGNFINALTXSession DEF MessageThread
<1>4. CASE \E c \in Client : ClientMessageThread(c)
  BY <1>4, ClientRecvPPQUEUESession, ClientRecvAcceptedSession, ClientGivesUpSession,
     ClientRecvPPFINALTXSession DEF ClientMessageThread
<1>5. CASE \E c \in Client : DoAutomaticDenominating(c)
  BY <1>5, DoAutomaticDenominatingSession
<1>6. CASE \E c \in Client : ClientCheckTimeout(c)
  BY <1>6, ClientCheckTimeoutSession
<1>7. CASE \E c \in Client : Drop(c)
  BY <1>7, DropSession
<1> QED
  BY <1>1, <1>2, <1>3, <1>4, <1>5, <1>6, <1>7 DEF Next

LEMMA SessionInit == Init => SessionInv
<1> SUFFICES ASSUME Init PROVE SessionInv
  OBVIOUS
<1>1. /\ ToSet(vecEntries) = {} /\ scriptSigs = {} /\ nState = "IDLE" /\ nSessionID = 0
      /\ lastSession = 0 /\ DOMAIN vecEntries = {}
      /\ \A c \in Client : /\ cState[c] = "IDLE" /\ cSessionID[c] = 0 /\ cEntries[c] = {}
                           /\ toServer[c] = <<>> /\ toClient[c] = <<>>
  BY DEF Init, ToSet
<1>2. \A c \in Client : \A cmd : Asked(c, cmd) = {} /\ Told(c, cmd) = {}
  BY <1>1 DEF Asked, Told, ToSet
<1>3. \A c \in Client : Seen(c) = {} /\ SignaturesOf(c) = {} /\ ~Present(c)
  BY <1>1, <1>2 DEF Seen, SignaturesOf, Present
<1>4. EntriesInv
  BY <1>1, <1>2, <1>3 DEF EntriesInv, ClientEntriesInv, RequestsInOrder
<1>5. IdsInv
  BY <1>1, <1>2 DEF IdsInv, IdsOf, MessagesInOrder
<1>6. FinalsInv /\ SignersAreInThePool
  BY <1>1, <1>2 DEF FinalsInv, SignersAreInThePool
<1>7. SignaturesInv
  BY <1>1, <1>2, <1>3
     DEF SignaturesInv, NoEarlySignatures, SignaturesFit, SignaturesUnderWay, DifferentInputs,
         SignedOnce
<1> QED
  BY <1>4, <1>5, <1>6, <1>7 DEF SessionInv

LEMMA KnownInvariant == Spec => []KnownInv
<1>1. Init => PoolInv
  BY PoolAssumption DEF Init, PoolInv, PoolConsistent, WaitingFits
<1>2. Init => ClientsConsistent
  BY DEF Init, ClientsConsistent
<1>3. TypeInv => TypeOK
  BY DEF TypeInv
<1> QED
  BY <1>1, <1>2, <1>3, PoolStep, ClientsStep, TypeInvariant, PTL DEF Spec, KnownInv

LEMMA SessionInvariant == Spec => []SessionInv
BY SessionInit, SessionStep, KnownInvariant, PTL DEF Spec

\* Whoever waits for the outcome of the session that the masternode is in has its entry
\* in the transaction that is being signed, whatever was lost or late.
THEOREM SignersStayInThePool == Spec => []SignersAreInThePool
BY SessionInvariant, PTL DEF SessionInv

\* Every signature that is collected is for the transaction that will be committed,
\* although the masternode does not look at what it was made for.
THEOREM SignaturesStayFit == Spec => []SignaturesFit
<1>1. SessionInv => SignaturesFit
  BY DEF SessionInv, SignaturesInv
<1> QED
  BY <1>1, SessionInvariant, PTL

\* The entries of a transaction for which all signatures are there are of different clients.
LEMMA DifferentSigners ==
  ASSUME KnownInv, SessionInv, NEW c \in Client, NEW s \in SignaturesOf(c), s.input.client = c,
         \A i \in DOMAIN vecEntries :
           [input |-> Prevout(vecEntries[i]), tx |-> ToSet(vecEntries)] \in scriptSigs \cup {s},
         NEW i \in DOMAIN vecEntries, NEW j \in DOMAIN vecEntries,
         vecEntries[i].client = vecEntries[j].client
  PROVE  i = j
<1> DEFINE p == vecEntries[i].client
           sig(n) == [input |-> Prevout(vecEntries[n]), tx |-> ToSet(vecEntries)]
<1>1. p \in Client /\ Present(p) /\ scriptSigs \subseteq Signature
  <2>1. vecEntries[i] \in Entry /\ vecEntries[i] \in ToSet(vecEntries)
    BY KnownParts DEF ToSet
  <2> QED
    BY <2>1, KnownParts, TypeParts DEF Entry, Present, ServerType
<1>2. ASSUME NEW n \in {i, j} PROVE sig(n) \in SignaturesOf(p)
  <2>1. sig(n).input.client = p /\ sig(n) \in scriptSigs \cup {s}
    BY <1>2 DEF Prevout
  <2>2. CASE sig(n) \in scriptSigs
    BY <1>1, <2>1, <2>2 DEF SignaturesOf
  <2>3. CASE sig(n) = s
    BY <2>1, <2>3
  <2> QED
    BY <2>1, <2>2, <2>3
<1>3. BoundTo(p, sig(i))
  BY <1>1, <1>2 DEF SessionInv, SignaturesInv, SignedOnce
<1>4. sig(j).input = sig(i).input
  BY <1>2, <1>3 DEF BoundTo
<1>5. Prevout(vecEntries[i]) = Prevout(vecEntries[j])
  BY <1>4
<1> QED
  BY <1>5 DEF SessionInv, SignaturesInv, DifferentInputs

LEMMA ClientsOfEntries ==
  ASSUME NEW ents \in Seq(Entry),
         \A i, j \in DOMAIN ents : ents[i].client = ents[j].client => i = j
  PROVE  Cardinality({e.client : e \in ToSet(ents)}) = Len(ents)
<1> DEFINE T == {e.client : e \in ToSet(ents)}
           f == [i \in 1 .. Len(ents) |-> ents[i].client]
<1>1. Len(ents) \in Nat /\ DOMAIN ents = 1 .. Len(ents)
  OBVIOUS
<1>2. /\ \A i \in 1 .. Len(ents) : ents[i].client \in T
      /\ \A x \in T : \E i \in 1 .. Len(ents) : ents[i].client = x
  BY <1>1 DEF ToSet
<1> HIDE DEF T
<1>3. f \in Bijection(1 .. Len(ents), T)
  <2>1. f \in [1 .. Len(ents) -> T]
    BY <1>2
  <2>2. \A i, j \in 1 .. Len(ents) : f[i] = f[j] => i = j
    BY <1>1
  <2>3. \A x \in T : \E i \in 1 .. Len(ents) : f[i] = x
    BY <1>2
  <2> QED
    BY <2>1, <2>2, <2>3 DEF Bijection, Injection, Surjection, IsInjective
<1>4. ExistsBijection(1 .. Len(ents), T)
  BY <1>3 DEF ExistsBijection
<1>5. IsFiniteSet(1 .. Len(ents)) /\ Cardinality(1 .. Len(ents)) = Len(ents)
  BY <1>1, FS_Interval
<1>6. Cardinality(T) = Len(ents)
  BY <1>4, <1>5, FS_Bijection
<1> QED
  BY <1>6 DEF T

\* What CommitFinalTransaction sends to the network, and the network accepts.
LEMMA WhatIsCommitted ==
  ASSUME NEW c \in Client, RecvPPSIGNFINALTX(c), NEW tx \in committed' \ committed
  PROVE  LET s == Head(toServer[c]).sig
         IN /\ CanAddScriptSig(s) /\ nState = "SIGNING"
            /\ NetworkAccepts(vecEntries, scriptSigs \cup {s})
            /\ tx = ToSet(vecEntries) /\ committed' = committed \cup {tx}
BY DEF RecvPPSIGNFINALTX, CheckPool, CreateFinalTransaction, CommitFinalTransaction, chainVars

LEMMA CommittedOwners ==
  ASSUME KnownInv, SessionInv, NEW c \in Client, RecvPPSIGNFINALTX(c),
         NEW tx \in committed' \ committed
  PROVE  \A i, j \in DOMAIN vecEntries : vecEntries[i].client = vecEntries[j].client => i = j
<1> DEFINE s == Head(toServer[c]).sig
<1>1. CanAddScriptSig(s) /\ NetworkAccepts(vecEntries, scriptSigs \cup {s})
  BY WhatIsCommitted
<1>2. s \in SignaturesOf(c) /\ s.input.client = c
  BY <1>1, SignatureTaken DEF RecvPPSIGNFINALTX, Receives
<1> QED
  BY <1>1, <1>2, DifferentSigners DEF NetworkAccepts

LEMMA CommittedMix ==
  ASSUME KnownInv, SessionInv, NEW c \in Client, RecvPPSIGNFINALTX(c),
         NEW tx \in committed' \ committed
  PROVE  Cardinality({e.client : e \in tx}) = MaxPoolTransactions
<1> DEFINE s == Head(toServer[c]).sig
<1>1. /\ CanAddScriptSig(s) /\ nState = "SIGNING" /\ tx = ToSet(vecEntries)
  BY WhatIsCommitted
<1>2. Present(c)
  BY <1>1, SignatureTaken DEF RecvPPSIGNFINALTX, Receives
<1>3. \A i, j \in DOMAIN vecEntries : vecEntries[i].client = vecEntries[j].client => i = j
  BY CommittedOwners
<1>4. Len(vecEntries) = MaxPoolTransactions
  <2>1. vecEntries # <<>>
    BY <1>2 DEF Present, ToSet
  <2> QED
    BY <1>1, <2>1, KnownParts DEF PoolConsistent
<1> QED
  BY <1>1, <1>3, <1>4, ClientsOfEntries, KnownParts

\* Nothing else makes a transaction.
LEMMA EntriesCommitNothing ==
  ASSUME KnownInv, NEW c \in Client, AddEntry(c)
  PROVE  committed' = committed
<1>1. CASE UNCHANGED chainVars
  BY <1>1 DEF chainVars
<1>2. CASE /\ CanAddEntry(Head(toServer[c]).entry)
           /\ CheckPool(Append(vecEntries, Head(toServer[c]).entry), scriptSigs, TRUE)
  <2>1. nState # "SIGNING"
    BY <1>2, EntryComesEarly DEF AddEntry
  <2> QED
    BY <1>2, <2>1 DEF CheckPool, CreateFinalTransaction, chainVars
<1> QED
  BY <1>1, <1>2 DEF AddEntry

LEMMA OnlySignaturesCommit ==
  ASSUME KnownInv, [Next]_vars
  PROVE  committed' = committed \/ \E c \in Client : RecvPPSIGNFINALTX(c)
<1>1. ASSUME NEW c \in Client, AddEntry(c) PROVE committed' = committed
  BY <1>1, EntriesCommitNothing
<1>2. ASSUME NEW c \in Client, \/ RecvPPACCEPT(c) \/ AddUserToExistingSession(c) \/ RecvPPVIN(c)
                               \/ ClientMessageThread(c) \/ DoAutomaticDenominating(c)
                               \/ ClientCheckTimeout(c) \/ Drop(c)
      PROVE  committed' = committed
  BY <1>2 DEF RecvPPACCEPT, AddUserToExistingSession, RecvPPVIN, ClientMessageThread,
              ClientRecvPPQUEUE, ClientRecvAccepted, ClientRecvRejected, ClientRecvPPFINALTX,
              ClientRecvPPCOMPLETE, ClientReceives, DoAutomaticDenominating, ClientCheckTimeout,
              Drop, chainVars
<1>3. ASSUME CheckTimeout \/ ChargeFees \/ CheckForCompleteQueue \/ Mine \/ UNCHANGED vars
      PROVE  committed' = committed
  BY <1>3 DEF CheckTimeout, ChargeFees, CheckForCompleteQueue, Mine, vars, chainVars
<1> QED
  BY <1>1, <1>2, <1>3 DEF Next, MessageThread

\* Whatever the pool has mixed hides MaxPoolTransactions different users among each
\* other, for pools of every size: no client gets two entries into one transaction.
THEOREM MixesStayDifferent == Spec => []MixesDifferentClients
<1>1. Init => MixesDifferentClients
  BY DEF Init, MixesDifferentClients
<1>2. KnownInv /\ SessionInv /\ MixesDifferentClients /\ [Next]_vars => MixesDifferentClients'
  <2> SUFFICES ASSUME KnownInv, SessionInv, MixesDifferentClients, [Next]_vars,
                      NEW tx \in committed'
               PROVE  Cardinality({e.client : e \in tx}) = MaxPoolTransactions
    BY DEF MixesDifferentClients
  <2>1. CASE tx \in committed
    BY <2>1 DEF MixesDifferentClients
  <2>2. CASE tx \notin committed
    BY <2>2, OnlySignaturesCommit, CommittedMix
  <2> QED
    BY <2>1, <2>2
<1> QED
  BY <1>1, <1>2, KnownInvariant, SessionInvariant, PTL DEF Spec

-----------------------------------------------------------------------------
(* Mixing is what the protocol implements *)

\* A signature that is collected or under way, and one that the masternode takes.
LEMMA AgreedMembers ==
  ASSUME NEW s
  PROVE  /\ s \in Agreed <=>
              \/ s \in scriptSigs
              \/ \E c \in Client : \E m \in ToSet(toServer[c]) :
                   m.cmd = "PPSIGNFINALTX" /\ m.sig = s
         /\ s \in Agreed' <=>
              \/ s \in scriptSigs'
              \/ \E c \in Client : \E m \in ToSet(toServer'[c]) :
                   m.cmd = "PPSIGNFINALTX" /\ m.sig = s
<1>1. s \in Agreed <=>
        \/ s \in scriptSigs
        \/ \E c \in Client : \E m \in ToSet(toServer[c]) :
             m.cmd = "PPSIGNFINALTX" /\ m.sig = s
  BY DEF Agreed
<1>2. s \in Agreed' <=>
        \/ s \in scriptSigs'
        \/ \E c \in Client : \E m \in ToSet(toServer'[c]) :
             m.cmd = "PPSIGNFINALTX" /\ m.sig = s
  BY DEF Agreed, ToSet
<1> QED
  BY <1>1, <1>2

LEMMA TakenIsAgreed ==
  ASSUME toServer \in Inbox, NEW c \in Client, toServer[c] # <<>>,
         Head(toServer[c]).cmd = "PPSIGNFINALTX"
  PROVE  Head(toServer[c]).sig \in Agreed
<1>1. Head(toServer[c]) \in ToSet(toServer[c])
  BY ToSetOfTail DEF Inbox
<1> QED
  BY <1>1, AgreedMembers

\* What the masternode does, or a broken connection, may only lose signatures.
LEMMA AgreedShrinks ==
  ASSUME scriptSigs' \subseteq Agreed,
         \A c \in Client : ToSet(toServer'[c]) \subseteq ToSet(toServer[c])
  PROVE  Agreed' \subseteq Agreed
<1> SUFFICES ASSUME NEW s \in Agreed' PROVE s \in Agreed
  OBVIOUS
<1>1. CASE s \in scriptSigs'
  BY <1>1
<1>2. CASE \E c \in Client : \E m \in ToSet(toServer'[c]) : m.cmd = "PPSIGNFINALTX" /\ m.sig = s
  BY <1>2, AgreedMembers
<1> QED
  BY <1>1, <1>2, AgreedMembers

LEMMA CollectedIsAgreed == scriptSigs \subseteq Agreed
BY AgreedMembers

LEMMA HandlerQueues ==
  ASSUME toServer \in Inbox,
         \/ UNCHANGED toServer
         \/ \E c \in Client : toServer[c] # <<>> /\ Done(c)
  PROVE  \A p \in Client : ToSet(toServer'[p]) \subseteq ToSet(toServer[p])
<1> SUFFICES ASSUME NEW p \in Client PROVE ToSet(toServer'[p]) \subseteq ToSet(toServer[p])
  OBVIOUS
<1>1. toServer[p] \in Seq(Request)
  BY DEF Inbox
<1>2. toServer'[p] = toServer[p] \/ (toServer[p] # <<>> /\ toServer'[p] = Tail(toServer[p]))
  BY DEF Done, Inbox
<1> QED
  BY <1>1, <1>2, ToSetOfTail

\* What a client sends adds a signature only if it is one.
LEMMA AgreedGrows ==
  ASSUME toServer \in Inbox, NEW c \in Client, NEW m \in Request, SendToServer(c, m),
         UNCHANGED scriptSigs
  PROVE  /\ m.cmd # "PPSIGNFINALTX" => Agreed' = Agreed
         /\ m.cmd = "PPSIGNFINALTX" => Agreed' \in {Agreed, Agreed \cup {m.sig}}
<1>1. CASE UNCHANGED toServer
  BY <1>1 DEF Agreed
<1>2. CASE toServer' = [toServer EXCEPT ![c] = Append(@, m)]
  <2>1. ToSet(toServer'[c]) = ToSet(toServer[c]) \cup {m}
    BY <1>2, ToSetOfAppend DEF Inbox
  <2>2. \A p \in Client \ {c} : ToSet(toServer'[p]) = ToSet(toServer[p])
    BY <1>2 DEF Inbox
  <2>3. \A s : s \in Agreed' <=> s \in Agreed \/ (m.cmd = "PPSIGNFINALTX" /\ s = m.sig)
    BY <2>1, <2>2, AgreedMembers
  <2> QED
    BY <2>3
<1> QED
  BY <1>1, <1>2 DEF SendToServer

\* A step of the masternode that commits nothing.
LEMMA ServerForgets ==
  ASSUME KnownInv, UNCHANGED <<cEntries, committed>>, scriptSigs' \subseteq Agreed,
         \/ UNCHANGED toServer
         \/ \E c \in Client : toServer[c] # <<>> /\ Done(c)
  PROVE  Promised!Next
<1>1. Agreed' \subseteq Agreed
  BY KnownParts, HandlerQueues, AgreedShrinks
<1> QED
  BY <1>1 DEF Promised!Next, Promised!Forget

LEMMA SameInput ==
  ASSUME NEW e, NEW tx
  PROVE  /\ Promised!Input(e) = Prevout(e)
         /\ Promised!Agreement(e, tx) = [input |-> Prevout(e), tx |-> tx]
BY DEF Promised!Input, Promised!Agreement, Prevout

LEMMA RecvPPSIGNFINALTXMixes ==
  ASSUME KnownInv, SessionInv, NEW c \in Client, RecvPPSIGNFINALTX(c)
  PROVE  Promised!Next
<1> DEFINE s == Head(toServer[c]).sig
           sigs == scriptSigs \cup {s}
<1>0. /\ UNCHANGED cEntries /\ toServer[c] # <<>> /\ Done(c)
      /\ Head(toServer[c]).cmd = "PPSIGNFINALTX"
  BY DEF RecvPPSIGNFINALTX, Receives, clientVars
<1>1. s \in Agreed /\ sigs \subseteq Agreed
  BY <1>0, KnownParts, TakenIsAgreed, CollectedIsAgreed
<1>2. scriptSigs' \subseteq Agreed
  <2>1. scriptSigs' \in {{}, scriptSigs, sigs}
    BY DEF RecvPPSIGNFINALTX, CheckPool, CreateFinalTransaction, CommitFinalTransaction,
           SetNull, ClearSession, serverVars
  <2> QED
    BY <1>1, <2>1
<1>3. CASE committed' = committed
  BY <1>0, <1>2, <1>3, ServerForgets
<1>4. CASE committed' # committed
  <2>1. committed \subseteq committed'
    BY DEF RecvPPSIGNFINALTX, CheckPool, CreateFinalTransaction, CommitFinalTransaction,
           chainVars
  <2>2. PICK tx \in committed' \ committed : TRUE
    BY <1>4, <2>1
  <2>3. /\ NetworkAccepts(vecEntries, sigs) /\ tx = ToSet(vecEntries)
        /\ committed' = committed \cup {tx}
    BY WhatIsCommitted
  <2>4. \A e \in tx : \E i \in DOMAIN vecEntries : vecEntries[i] = e
    BY <2>3 DEF ToSet
  <2>5. \A e \in tx : Promised!Agreement(e, tx) \in Agreed
    <3>1. \A e \in tx : [input |-> Prevout(e), tx |-> tx] \in sigs
      BY <2>3, <2>4 DEF NetworkAccepts
    <3> QED
      BY <1>1, <3>1, SameInput
  <2>6. \A e \in tx : \A t \in committed : \A f \in t : Promised!Input(f) # Promised!Input(e)
    <3>1. \A e \in tx : ~SpentBy(committed, Prevout(e))
      BY <2>3, <2>4 DEF NetworkAccepts
    <3> QED
      BY <3>1, SameInput DEF SpentBy
  <2>7. \A e, f \in tx : e.client = f.client => e = f
    BY <2>4, CommittedOwners
  <2>8. {e.client : e \in tx} \in Crowds
    <3>1. tx \subseteq Entry
      BY <2>3, KnownParts, EntrySet
    <3>2. {e.client : e \in tx} \in SUBSET Client
      BY <3>1 DEF Entry
    <3> QED
      BY <3>2, CommittedMix DEF Crowds
  <2>9. Agreed' \subseteq Agreed
    BY <1>0, <1>2, KnownParts, HandlerQueues, AgreedShrinks
  <2>10. Promised!Mix(tx)
    BY <1>0, <2>3, <2>5, <2>6, <2>7, <2>8, <2>9 DEF Promised!Mix
  <2> QED
    BY <2>10 DEF Promised!Next
<1> QED
  BY <1>3, <1>4

LEMMA MessageThreadForgets ==
  ASSUME KnownInv, NEW c \in Client,
         RecvPPACCEPT(c) \/ AddUserToExistingSession(c) \/ RecvPPVIN(c) \/ AddEntry(c)
  PROVE  Promised!Next
<1>1. UNCHANGED <<cEntries, committed>>
  <2>1. CASE AddEntry(c)
    BY <2>1, EntriesCommitNothing DEF AddEntry, clientVars
  <2>2. CASE RecvPPACCEPT(c) \/ AddUserToExistingSession(c) \/ RecvPPVIN(c)
    BY <2>2 DEF RecvPPACCEPT, AddUserToExistingSession, RecvPPVIN, clientVars, chainVars
  <2> QED
    BY <2>1, <2>2
<1>2. scriptSigs' \in {{}, scriptSigs}
  <2>1. CASE AddEntry(c)
    BY <2>1 DEF AddEntry, Reject, CheckPool, CreateFinalTransaction, CommitFinalTransaction,
                SetNull, ClearSession, serverVars
  <2>2. CASE RecvPPACCEPT(c) \/ AddUserToExistingSession(c) \/ RecvPPVIN(c)
    BY <2>2 DEF RecvPPACCEPT, CreateNewSession, AddUserToExistingSession, RecvPPVIN, Reject,
                serverVars
  <2> QED
    BY <2>1, <2>2
<1>3. UNCHANGED toServer \/ Done(c)
  BY DEF RecvPPACCEPT, CreateNewSession, AddUserToExistingSession, RecvPPVIN, AddEntry, Reject
<1>4. toServer[c] # <<>>
  <2>1. CASE waiting = c
    BY <2>1, PoolAssumption DEF KnownInv, TypeInv, WaitingIsServed
  <2> QED
    BY <2>1 DEF RecvPPACCEPT, AddUserToExistingSession, RecvPPVIN, AddEntry, Receives, Resumes
<1>5. scriptSigs' \subseteq Agreed
  BY <1>2, CollectedIsAgreed
<1> QED
  BY <1>1, <1>3, <1>4, <1>5, ServerForgets

\* What a client offers, withdraws and agrees to.
LEMMA ClientWithdraws ==
  ASSUME NEW c \in Client, NEW st, ClientSetNull(c, st), UNCHANGED <<toServer, scriptSigs, committed>>
  PROVE  Promised!Next
<1>1. Agreed' = Agreed
  BY DEF Agreed
<1>2. Promised!Withdraw(c)
  BY <1>1 DEF ClientSetNull, Promised!Withdraw
<1> QED
  BY <1>2 DEF Promised!Next

LEMMA ClientOffers ==
  ASSUME KnownInv, NEW c \in Client, NEW k \in Coin, SendDenominate(c, k), cState[c] = "QUEUE",
         UNCHANGED <<scriptSigs, committed>>
  PROVE  Promised!Next
<1> DEFINE e == NewEntry(c, k)
           m == [cmd |-> "PPVIN", entry |-> e]
<1>1. CASE ClientSetNull(c, "IDLE") /\ UNCHANGED toServer
  BY <1>1, ClientWithdraws
<1>2. CASE cEntries' = [cEntries EXCEPT ![c] = {e}] /\ SendToServer(c, m)
  <2>1. m \in Request
    BY KnownParts, NewEntryType DEF Request
  <2>2. Agreed' = Agreed
    BY <1>2, <2>1, KnownParts, AgreedGrows
  <2>3. cEntries[c] = {} /\ e.client = c
    BY DEF KnownInv, ClientsConsistent, NewEntry
  <2>4. e \in cEntries'[c]
    BY <1>2, KnownParts DEF TypeOK
  <2>5. Promised!Offer(c, e)
    BY <1>2, <2>2, <2>3 DEF Promised!Offer
  <2> QED
    BY <2>4, <2>5 DEF Promised!Next
<1> QED
  BY <1>1, <1>2 DEF SendDenominate

LEMMA ClientAgrees ==
  ASSUME KnownInv, NEW c \in Client, NEW tx \in SUBSET Entry, SignFinalTransaction(c, tx),
         UNCHANGED <<scriptSigs, committed>>
  PROVE  Promised!Next
<1>1. CASE ClientSetNull(c, "IDLE") /\ UNCHANGED toServer
  BY <1>1, ClientWithdraws
<1>2. CASE /\ \E e \in cEntries[c] \cap tx :
               SendToServer(c, [cmd |-> "PPSIGNFINALTX", sig |-> [input |-> Prevout(e), tx |-> tx]])
           /\ UNCHANGED cEntries
  <2>1. PICK e \in cEntries[c] \cap tx :
          SendToServer(c, [cmd |-> "PPSIGNFINALTX", sig |-> [input |-> Prevout(e), tx |-> tx]])
    BY <1>2
  <2> DEFINE s == [input |-> Prevout(e), tx |-> tx]
             m == [cmd |-> "PPSIGNFINALTX", sig |-> s]
  <2>2. s = Promised!Agreement(e, tx) /\ s.tx = tx
    BY SameInput
  <2>3. m \in Request /\ m.cmd = "PPSIGNFINALTX" /\ m.sig = s
    <3>1. Prevout(e) \in [client : Client, denom : Denom, coin : Coin]
      BY DEF Entry, Prevout
    <3>2. s \in Signature
      BY <3>1 DEF Signature
    <3> QED
      BY <3>2 DEF Request
  <2> HIDE DEF s, m
  <2>4. Agreed' \in {Agreed, Agreed \cup {s}}
    <3>1. SendToServer(c, m)
      BY <2>1 DEF m, s
    <3> QED
      BY <2>3, <3>1, KnownParts, AgreedGrows
  <2>5. CASE Agreed' = Agreed
    BY <1>2, <2>5 DEF Promised!Next, Promised!Forget
  <2>6. CASE Agreed' = Agreed \cup {s}
    <3>1. Promised!Agree(c, e, s.tx)
      BY <1>2, <2>1, <2>2, <2>6 DEF Promised!Agree
    <3>2. s \in Agreed'
      BY <2>6
    <3> QED
      BY <2>1, <3>1, <3>2 DEF Promised!Next
  <2> QED
    BY <2>4, <2>5, <2>6
<1> QED
  BY <1>1, <1>2 DEF SignFinalTransaction

LEMMA ClientMessageThreadKeepsPromise ==
  ASSUME KnownInv, NEW c \in Client, ClientMessageThread(c)
  PROVE  [Promised!Next]_Promised!mixVars
<1>0. UNCHANGED <<scriptSigs, committed>>
  BY DEF ClientMessageThread, ClientRecvPPQUEUE, ClientRecvAccepted, ClientRecvRejected,
         ClientRecvPPFINALTX, ClientRecvPPCOMPLETE, ClientReceives, serverVars, chainVars
<1>1. CASE UNCHANGED <<cEntries, toServer>>
  BY <1>0, <1>1 DEF Promised!mixVars, Agreed
<1>2. CASE ClientRecvPPQUEUE(c)
  <2>1. \/ UNCHANGED <<cEntries, toServer>>
        \/ cState[c] = "QUEUE" /\ \E k \in Coin : SendDenominate(c, k)
    BY <1>2 DEF ClientRecvPPQUEUE, SubmitDenominate, Unspent, clientVars
  <2> QED
    BY <1>0, <1>1, <2>1, ClientOffers
<1>3. CASE ClientRecvPPFINALTX(c)
  <2>1. Head(toClient[c]).tx \in SUBSET Entry
    <3>1. toClient[c] # <<>> /\ Head(toClient[c]).cmd = "PPFINALTX"
      BY <1>3 DEF ClientRecvPPFINALTX, ClientReceives
    <3>2. Head(toClient[c]) \in Message
      BY <3>1, KnownParts, HeadTailProperties DEF Outbox
    <3> QED
      BY <3>1, <3>2 DEF Message
  <2>2. CASE SignFinalTransaction(c, Head(toClient[c]).tx)
    BY <1>0, <2>1, <2>2, ClientAgrees
  <2> QED
    BY <1>1, <1>3, <2>2 DEF ClientRecvPPFINALTX, clientVars
<1>4. CASE ClientRecvAccepted(c)
  BY <1>1, <1>4 DEF ClientRecvAccepted
<1>5. CASE ClientRecvRejected(c) \/ ClientRecvPPCOMPLETE(c)
  <2>1. \/ UNCHANGED <<cEntries, toServer>>
        \/ UNCHANGED toServer /\ \E st : ClientSetNull(c, st)
    BY <1>5 DEF ClientRecvRejected, ClientRecvPPCOMPLETE, clientVars
  <2> QED
    BY <1>0, <1>1, <2>1, ClientWithdraws
<1> QED
  BY <1>2, <1>3, <1>4, <1>5 DEF ClientMessageThread

\* A step of the mixing protocol is a step of its promise, or leaves that as it is.
LEMMA PromiseStep ==
  ASSUME KnownInv, SessionInv, [Next]_vars
  PROVE  [Promised!Next]_Promised!mixVars
<1>0. toServer \in Inbox /\ scriptSigs \subseteq Agreed
  BY KnownParts, CollectedIsAgreed
<1>1. CASE UNCHANGED vars
  BY <1>1 DEF vars, Promised!mixVars, Agreed
<1>2. CASE CheckTimeout \/ ChargeFees \/ CheckForCompleteQueue \/ Mine
  <2>1. UNCHANGED <<cEntries, committed, toServer>>
    BY <1>2 DEF CheckTimeout, ChargeFees, CheckForCompleteQueue, Mine, clientVars, chainVars,
                netVars
  <2>2. scriptSigs' \in {{}, scriptSigs}
    BY <1>2 DEF CheckTimeout, ChargeFees, CheckForCompleteQueue, Mine, SetNull, ClearSession,
                serverVars
  <2> QED
    BY <1>0, <2>1, <2>2, ServerForgets
<1>3. CASE \E c \in Client : MessageThread(c)
  BY <1>3, MessageThreadForgets, RecvPPSIGNFINALTXMixes DEF MessageThread
<1>4. CASE \E c \in Client : ClientMessageThread(c)
  BY <1>4, ClientMessageThreadKeepsPromise
<1>5. CASE \E c \in Client : DoAutomaticDenominating(c)
  <2>1. PICK c \in Client : DoAutomaticDenominating(c)
    BY <1>5
  <2>2. PICK d \in Denom, n \in {cCollateral[c], charged[c]} :
          SendToServer(c, [cmd |-> "PPACCEPT", denom |-> d,
                           collateral |-> [client |-> c, nth |-> n]])
    BY <2>1 DEF DoAutomaticDenominating
  <2>3. UNCHANGED <<cEntries, committed, scriptSigs>>
    BY <2>1 DEF DoAutomaticDenominating, chainVars, serverVars
  <2>4. [cmd |-> "PPACCEPT", denom |-> d, collateral |-> [client |-> c, nth |-> n]] \in Request
    BY KnownParts DEF TypeOK, Request, Collateral
  <2>5. Agreed' = Agreed
    BY <1>0, <2>2, <2>3, <2>4, AgreedGrows
  <2> QED
    BY <2>3, <2>5 DEF Promised!mixVars
<1>6. CASE \E c \in Client : ClientCheckTimeout(c)
  BY <1>6, ClientWithdraws DEF ClientCheckTimeout, serverVars, chainVars, netVars
<1>7. CASE \E c \in Client : Drop(c)
  <2>1. PICK c \in Client : Drop(c)
    BY <1>7
  <2>2. UNCHANGED <<cEntries, committed, scriptSigs>>
    BY <2>1 DEF Drop, clientVars, chainVars, serverVars
  <2>3. ASSUME NEW p \in Client PROVE ToSet(toServer'[p]) \subseteq ToSet(toServer[p])
    <3>1. waiting = c => toServer[c] # <<>>
      BY PoolAssumption DEF KnownInv, TypeInv, WaitingIsServed
    <3>2. toServer'[p] \in {toServer[p], <<>>}
            \/ (toServer[p] # <<>> /\ toServer'[p] = <<Head(toServer[p])>>)
      BY <1>0, <2>1, <3>1 DEF Drop, Inbox
    <3>3. toServer[p] # <<>> => ToSet(<<Head(toServer[p])>>) \subseteq ToSet(toServer[p])
      <4>1. toServer[p] # <<>> => Head(toServer[p]) \in ToSet(toServer[p])
        BY <1>0, ToSetOfTail DEF Inbox
      <4> QED
        BY <4>1 DEF ToSet
    <3>4. ToSet(<<>>) = {}
      BY DEF ToSet
    <3> QED
      BY <3>2, <3>3, <3>4
  <2>4. Agreed' \subseteq Agreed
    BY <2>2, <2>3, CollectedIsAgreed, AgreedShrinks
  <2> QED
    BY <2>2, <2>4 DEF Promised!Next, Promised!Forget
<1> QED
  BY <1>1, <1>2, <1>3, <1>4, <1>5, <1>6, <1>7 DEF Next

\* For any number of users, coins and joins, every behaviour of the masternode and its
\* clients is one that Mixing allows: whatever is late, lost or left over, a coin is
\* spent only with its owner's agreement to the whole transaction.
THEOREM PrivatePayImplementsMixing == Spec => ImplementsMixing
<1>1. Init => Promised!Init
  <2> SUFFICES ASSUME Init PROVE Promised!Init
    OBVIOUS
  <2>1. scriptSigs = {} /\ \A c \in Client : toServer[c] = <<>>
    BY DEF Init
  <2>2. Agreed = {}
    BY <2>1, AgreedMembers DEF ToSet
  <2> QED
    BY <2>2 DEF Init, Promised!Init
<1>2. KnownInv /\ SessionInv /\ [Next]_vars => [Promised!Next]_Promised!mixVars
  BY PromiseStep
<1> QED
  BY <1>1, <1>2, KnownInvariant, SessionInvariant, PTL DEF Spec, ImplementsMixing, Promised!Spec

=============================================================================
