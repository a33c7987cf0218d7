--------------------------- MODULE PrivatePay_proofs ---------------------------
(***************************************************************************)
(* Proofs about PrivatePay for any number of clients, coins and            *)
(* denominations, pools of any size, any number of sessions and broken     *)
(* connections.                                                            *)
(***************************************************************************)
EXTENDS PrivatePay, FiniteSetTheorems, SequenceTheorems, TLAPS

\* The parts of TypeOK.
ServerType ==
  /\ nState \in Active \cup {"IDLE"}
  /\ nSessionID \in Nat
  /\ nSessionDenom \in Denom \cup {NoDenom}
  /\ vecSessionCollaterals \in Seq(Collateral)
  /\ vecEntries \in Seq(Entry)
  /\ scriptSigs \subseteq Signature

ThreadType ==
  /\ lastSession \in Nat
  /\ waiting \in Client \cup {NoClient}
  /\ charging \subseteq Collateral
  /\ undisturbed \in BOOLEAN

ChainType ==
  /\ committed \subseteq SUBSET Entry /\ mined \subseteq committed
  /\ charged \in [Client -> Nat]

ClientType ==
  /\ cState \in [Client -> Active \cup {"IDLE", "ERROR"}]
  /\ cSessionID \in [Client -> Nat]
  /\ cDenom \in [Client -> Denom \cup {NoDenom}]
  /\ cCollateral \in [Client -> Nat]
  /\ cEntries \in [Client -> SUBSET Entry]
  /\ joins \in [Client -> 0 .. MaxJoins]

Inbox == [Client -> Seq(Request)]
Outbox == [Client -> Seq(Message)]

NetType == connected \subseteq Client /\ toServer \in Inbox /\ toClient \in Outbox

LEMMA TypeParts ==
  TypeOK <=> ServerType /\ ThreadType /\ ChainType /\ ClientType /\ NetType
BY DEF TypeOK, ServerType, ThreadType, ChainType, ClientType, NetType, Inbox, Outbox

LEMMA TypePartsNext ==
  TypeOK' <=> ServerType' /\ ThreadType' /\ ChainType' /\ ClientType' /\ NetType'
BY DEF TypeOK, ServerType, ThreadType, ChainType, ClientType, NetType, Inbox, Outbox

\* A part is kept when its variables are.
LEMMA Kept ==
  /\ ServerType /\ UNCHANGED serverVars => ServerType'
  /\ ChainType /\ UNCHANGED chainVars => ChainType'
  /\ ClientType /\ UNCHANGED clientVars => ClientType'
BY DEF ServerType, ChainType, ClientType, serverVars, chainVars, clientVars

-----------------------------------------------------------------------------
(* Lemmas about the operators *)

LEMMA Messages ==
  /\ Ready \in Message /\ Rejected \in Message
  /\ \A id \in Nat : Accepted(id) \in Message /\ Complete(id) \in Message
  /\ \A id \in Nat, tx \in SUBSET Entry : FinalTx(id, tx) \in Message
BY DEF Message, Ready, Rejected, Accepted, Complete, FinalTx

\* The set of a sequence of entries is a set of entries.
LEMMA EntrySet ==
  ASSUME NEW ents \in Seq(Entry)
  PROVE  ToSet(ents) \in SUBSET Entry
BY DEF ToSet

LEMMA PushType ==
  ASSUME NEW out \in Outbox, NEW c \in Client, NEW m \in Message
  PROVE  Push(out, c, m) \in Outbox
BY DEF Push, Outbox

LEMMA MulticastType ==
  ASSUME NEW out \in Outbox, NEW ents \in Seq(Entry),
         NEW I \in SUBSET DOMAIN ents, NEW m \in Message
  PROVE  Multicast(out, ents, I, m) \in Outbox
<1> DEFINE n(c) == Cardinality({i \in I : ents[i].client = c})
           copies(c) == [k \in 1 .. n(c) |-> m]
<1>1. \A c : n(c) \in Nat
  <2> TAKE c
  <2>1. Len(ents) \in Nat /\ DOMAIN ents = 1 .. Len(ents)
    OBVIOUS
  <2>2. IsFiniteSet(1 .. Len(ents))
    BY <2>1, FS_Interval
  <2>3. {i \in I : ents[i].client = c} \in SUBSET (1 .. Len(ents))
    BY <2>1
  <2>4. IsFiniteSet({i \in I : ents[i].client = c})
    BY <2>2, <2>3, FS_Subset
  <2> QED
    BY <2>4, FS_CardinalityType
<1>2. \A c : copies(c) \in Seq(Message)
  <2> TAKE c
  <2>1. n(c) \in Nat
    BY <1>1
  <2> HIDE DEF n
  <2> QED
    BY <2>1
<1>3. \A c \in Client : out[c] \in Seq(Message)
  BY DEF Outbox
<1> HIDE DEF copies
<1>4. \A c \in Client : out[c] \o copies(c) \in Seq(Message)
  <2> TAKE c \in Client
  <2> QED
    BY <1>2, <1>3, ConcatProperties
<1>5. Multicast(out, ents, I, m) =
        [c \in Client |-> IF c \in connected THEN out[c] \o copies(c) ELSE out[c]]
  BY DEF Multicast, copies
<1> QED
  BY <1>3, <1>4, <1>5 DEF Outbox

LEMMA TerminateIfGoneType ==
  ASSUME NEW out \in Outbox, NEW ents \in Seq(Entry)
  PROVE  TerminateIfGone(out, ents) \in Outbox
BY MulticastType, Messages DEF TerminateIfGone

LEMMA RelayRejectedType ==
  ASSUME NEW out \in Outbox, NEW ents \in Seq(Entry)
  PROVE  RelayRejected(out, ents) \in Outbox
BY MulticastType, TerminateIfGoneType, Messages DEF RelayRejected

LEMMA RelayAcceptedType ==
  ASSUME NEW out \in Outbox, NEW ents \in Seq(Entry), nSessionID \in Nat
  PROVE  RelayAccepted(out, ents) \in Outbox
<1>1. Multicast(out, ents, DOMAIN ents, Accepted(nSessionID)) \in Outbox
  BY MulticastType, Messages
<1> QED
  BY <1>1, TerminateIfGoneType DEF RelayAccepted

LEMMA PushAcceptedType ==
  ASSUME NEW out \in Outbox, NEW c \in Client, nSessionID \in Nat
  PROVE  PushAccepted(out, c) \in Outbox
BY PushType, Messages DEF PushAccepted

LEMMA RelayToAllType ==
  ASSUME NEW out \in Outbox, NEW ents \in Seq(Entry), NEW m \in Message
  PROVE  RelayToAll(out, ents, m) \in Outbox
<1>1. Served(ents) \in SUBSET DOMAIN ents
  BY DEF Served
<1>2. Multicast(out, ents, Served(ents), m) \in Outbox
  BY <1>1, MulticastType
<1> QED
  BY <1>2, RelayRejectedType DEF RelayToAll

-----------------------------------------------------------------------------
(* Types: the parts of the handlers *)

LEMMA ClearSessionType ==
  ASSUME nState' \in Active \cup {"IDLE"}, ClearSession
  PROVE  ServerType'
<1>1. /\ vecSessionCollaterals' \in Seq(Collateral) /\ vecEntries' \in Seq(Entry)
  BY EmptySeq DEF ClearSession
<1> QED
  BY <1>1 DEF ClearSession, ServerType

LEMMA SetNullType == SetNull => ServerType'
BY ClearSessionType DEF SetNull

LEMMA ChargeType ==
  ASSUME ChainType, NEW S, Charge(S)
  PROVE  charged' \in [Client -> Nat]
BY DEF ChainType, Charge

LEMMA DoneType ==
  ASSUME toServer \in Inbox, NEW c \in Client, toServer[c] # <<>>, Done(c)
  PROVE  toServer' \in Inbox /\ waiting' = NoClient
<1>1. Tail(toServer[c]) \in Seq(Request)
  BY HeadTailProperties DEF Inbox
<1> QED
  BY <1>1 DEF Done, Inbox

LEMMA CreateFinalTransactionType ==
  ASSUME TypeOK, NEW ents \in Seq(Entry), NEW sigs \in SUBSET Signature, NEW relay,
         CreateFinalTransaction(ents, sigs, relay)
  PROVE  ServerType' /\ ChainType' /\ toClient' \in Outbox /\ undisturbed' \in BOOLEAN
<1> DEFINE told == RelayToAll(toClient, ents, FinalTx(nSessionID, ToSet(ents)))
<1>0. ServerType /\ ThreadType /\ ChainType /\ NetType
  BY TypeParts
<1>1. FinalTx(nSessionID, ToSet(ents)) \in Message
  BY <1>0, EntrySet, Messages DEF ServerType
<1>2. told \in Outbox /\ TerminateIfGone(told, ents) \in Outbox
  BY <1>0, <1>1, RelayToAllType, TerminateIfGoneType DEF NetType
<1>3. nState' \in Active \cup {"IDLE"}
  BY DEF CreateFinalTransaction, Active
<1>4. toClient' \in Outbox
  BY <1>2 DEF CreateFinalTransaction
<1>5. ServerType'
  <2>1. CASE AllGone(ents)
    BY <2>1, <1>3, ClearSessionType DEF CreateFinalTransaction
  <2>2. CASE ~AllGone(ents)
    BY <2>2, <1>0, <1>3 DEF CreateFinalTransaction, ServerType
  <2> QED
    BY <2>1, <2>2
<1> QED
  BY <1>0, <1>4, <1>5, Kept DEF CreateFinalTransaction, ThreadType

LEMMA CommitFinalTransactionType ==
  ASSUME TypeOK, NEW ents \in Seq(Entry), NEW sigs, CommitFinalTransaction(ents, sigs)
  PROVE  ServerType' /\ ChainType' /\ toClient' \in Outbox /\ undisturbed' \in BOOLEAN
<1>0. ServerType /\ ThreadType /\ ChainType /\ NetType
  BY TypeParts
<1>1. ServerType'
  BY SetNullType DEF CommitFinalTransaction
<1>2. RelayToAll(toClient, ents, Complete(nSessionID)) \in Outbox
  BY <1>0, RelayToAllType, Messages DEF NetType, ServerType
<1>3. undisturbed' \in BOOLEAN /\ toClient' \in Outbox
  BY <1>0, <1>2 DEF CommitFinalTransaction, ThreadType, NetType
<1>4. ChainType'
  <2>1. CASE UNCHANGED chainVars
    BY <2>1, <1>0, Kept
  <2>2. CASE /\ committed' \in {committed, committed \cup {ToSet(ents)}}
             /\ ChargeRandomFees(ents) /\ UNCHANGED mined
    <3>1. charged' \in [Client -> Nat]
      BY <2>2, <1>0, ChargeType DEF ChargeRandomFees
    <3>2. committed' \subseteq SUBSET Entry /\ committed \subseteq committed'
      BY <2>2, <1>0, EntrySet DEF ChainType
    <3>3. mined' \subseteq committed'
      BY <2>2, <3>2, <1>0 DEF ChainType
    <3> QED
      BY <3>1, <3>2, <3>3 DEF ChainType
  <2>3. \/ UNCHANGED chainVars
        \/ /\ committed' \in {committed, committed \cup {ToSet(ents)}}
           /\ ChargeRandomFees(ents) /\ UNCHANGED mined
    BY DEF CommitFinalTransaction
  <2> QED
    BY <2>1, <2>2, <2>3
<1> QED
  BY <1>1, <1>3, <1>4

LEMMA CheckPoolType ==
  ASSUME TypeOK, NEW ents \in Seq(Entry), NEW sigs \in SUBSET Signature, NEW relay,
         CheckPool(ents, sigs, relay)
  PROVE  ServerType' /\ ChainType' /\ toClient' \in Outbox /\ undisturbed' \in BOOLEAN
<1>0. ServerType /\ ThreadType /\ ChainType /\ NetType
  BY TypeParts
<1>1. CASE CreateFinalTransaction(ents, sigs, relay)
  BY <1>1, CreateFinalTransactionType
<1>2. CASE CommitFinalTransaction(ents, sigs)
  BY <1>2, CommitFinalTransactionType
<1>3. CASE SetNull /\ UNCHANGED <<toClient, chainVars, undisturbed>>
  BY <1>0, <1>3, SetNullType, Kept DEF ThreadType, NetType
<1>4. CASE /\ vecEntries' = ents /\ scriptSigs' = sigs
           /\ toClient' = IF relay THEN RelayAccepted(toClient, ents) ELSE toClient
           /\ UNCHANGED <<nState, nSessionID, nSessionDenom, vecSessionCollaterals,
                          chainVars, undisturbed>>
  <2>1. RelayAccepted(toClient, ents) \in Outbox
    BY <1>0, RelayAcceptedType DEF ServerType, NetType
  <2> QED
    BY <1>0, <1>4, <2>1, Kept DEF ServerType, ThreadType, NetType
<1> QED
  BY <1>1, <1>2, <1>3, <1>4 DEF CheckPool

-----------------------------------------------------------------------------
(* Types: the server's steps *)

\* A client in the queue has chosen a denomination, so that its entry has one.
QueuedHasDenom ==
  \A c \in Client : cState[c] = "QUEUE" => cDenom[c] \in Denom /\ joins[c] \in 1 .. MaxJoins

\* The message that is being handled is the first of its queue.
WaitingIsServed == waiting # NoClient => toServer[waiting] # <<>>

TypeInv == TypeOK /\ QueuedHasDenom /\ WaitingIsServed

\* What a request of the given command carries.
LEMMA Requests ==
  ASSUME toServer \in Inbox, NEW c \in Client, toServer[c] # <<>>
  PROVE  LET m == Head(toServer[c])
         IN /\ m.cmd = "PPACCEPT" => m.denom \in Denom /\ m.collateral \in Collateral
            /\ m.cmd = "PPVIN" => m.entry \in Entry
            /\ m.cmd = "PPSIGNFINALTX" => m.sig \in Signature
<1>1. Head(toServer[c]) \in Request
  BY HeadTailProperties DEF Inbox
<1> QED
  BY <1>1 DEF Request

\* A step of the message thread ends with the message answered, or waits for cs_main.
LEMMA MessageThreadType ==
  ASSUME TypeInv, NEW c \in Client, toServer[c] # <<>>,
         ServerType', ChainType', toClient' \in Outbox,
         lastSession' \in Nat, undisturbed' \in BOOLEAN,
         Done(c) \/ (waiting' = c /\ UNCHANGED toServer),
         UNCHANGED <<charging, clientVars, connected>>
  PROVE  TypeInv'
<1>0. ThreadType /\ ClientType /\ NetType
  BY TypeParts DEF TypeInv
<1>1. toServer' \in Inbox /\ waiting' \in {NoClient, c}
  BY <1>0, DoneType DEF NetType
<1>2. TypeOK'
  BY <1>0, <1>1, Kept, TypePartsNext DEF ThreadType, NetType
<1>3. QueuedHasDenom'
  BY DEF TypeInv, QueuedHasDenom, clientVars
<1>4. WaitingIsServed'
  BY PoolAssumption DEF WaitingIsServed, Done
<1> QED
  BY <1>2, <1>3, <1>4 DEF TypeInv

LEMMA RejectType ==
  ASSUME TypeInv, NEW c \in Client, toServer[c] # <<>>, Reject(c),
         UNCHANGED <<charging, chainVars, clientVars, connected>>
  PROVE  TypeInv'
<1>0. ServerType /\ ThreadType /\ ChainType /\ NetType
  BY TypeParts DEF TypeInv
<1>1. toClient' \in Outbox
  BY <1>0, PushType, Messages DEF Reject, NetType
<1>2. lastSession' \in Nat /\ undisturbed' \in BOOLEAN /\ ServerType' /\ ChainType'
  BY <1>0, Kept DEF Reject, ThreadType
<1>3. Done(c)
  BY DEF Reject
<1> QED
  BY <1>1, <1>2, <1>3, MessageThreadType

LEMMA RecvPPACCEPTType ==
  ASSUME TypeInv, NEW c \in Client, RecvPPACCEPT(c)
  PROVE  TypeInv'
<1> DEFINE m == Head(toServer[c])
<1>0. ServerType /\ ThreadType /\ ChainType /\ NetType
  BY TypeParts DEF TypeInv
<1>1. toServer[c] # <<>> /\ m.cmd = "PPACCEPT"
  BY DEF RecvPPACCEPT, Receives
<1>2. UNCHANGED <<charging, chainVars, clientVars, connected>> /\ ChainType'
  BY <1>0, Kept DEF RecvPPACCEPT
<1>3. CASE Reject(c)
  BY <1>1, <1>2, <1>3, RejectType
<1>4. CASE /\ toClient' = PushAccepted(toClient, c) /\ undisturbed' = FALSE
           /\ Done(c) /\ UNCHANGED <<serverVars, lastSession>>
  <2>1. toClient' \in Outbox /\ lastSession' \in Nat /\ ServerType'
    BY <1>0, <1>4, PushAcceptedType, Kept DEF NetType, ThreadType, ServerType
  <2> QED
    BY <1>1, <1>2, <1>4, <2>1, MessageThreadType
<1>5. CASE CreateNewSession(c) /\ ~Reject(c)
  <2>1. /\ nState' = "QUEUE" /\ nSessionID' = lastSession + 1
        /\ lastSession' = lastSession + 1 /\ nSessionDenom' = m.denom
        /\ vecSessionCollaterals' = Append(vecSessionCollaterals, m.collateral)
        /\ toClient' = Push(toClient, c, Accepted(lastSession + 1))
        /\ Done(c) /\ UNCHANGED <<vecEntries, scriptSigs, undisturbed>>
    BY <1>5 DEF CreateNewSession
  <2>2. m.denom \in Denom /\ m.collateral \in Collateral
    BY <1>0, <1>1, Requests DEF NetType
  <2>3. vecSessionCollaterals' \in Seq(Collateral)
    BY <1>0, <2>1, <2>2, AppendProperties DEF ServerType
  <2>4. lastSession + 1 \in Nat
    BY <1>0 DEF ThreadType
  <2>5. ServerType'
    BY <1>0, <2>1, <2>2, <2>3, <2>4 DEF ServerType, Active
  <2>6. toClient' \in Outbox
    BY <1>0, <2>1, <2>4, PushType, Messages DEF NetType
  <2> QED
    BY <1>0, <1>1, <1>2, <2>1, <2>4, <2>5, <2>6, MessageThreadType DEF ThreadType
<1>6. CASE waiting' = c /\ UNCHANGED <<serverVars, lastSession, undisturbed, toServer, toClient>>
  BY <1>0, <1>1, <1>2, <1>6, Kept, MessageThreadType DEF ThreadType, NetType
<1> QED
  BY <1>3, <1>4, <1>5, <1>6 DEF RecvPPACCEPT

LEMMA AddUserToExistingSessionType ==
  ASSUME TypeInv, NEW c \in Client, AddUserToExistingSession(c)
  PROVE  TypeInv'
<1> DEFINE m == Head(toServer[c])
<1>0. ServerType /\ ThreadType /\ ChainType /\ NetType
  BY TypeParts DEF TypeInv
<1>1. toServer[c] # <<>> /\ m.cmd = "PPACCEPT"
  BY PoolAssumption DEF AddUserToExistingSession, Resumes, TypeInv, WaitingIsServed
<1>2. UNCHANGED <<charging, chainVars, clientVars, connected>> /\ ChainType'
  BY <1>0, Kept DEF AddUserToExistingSession
<1>3. CASE Reject(c)
  BY <1>1, <1>2, <1>3, RejectType
<1>4. CASE ~Reject(c)
  <2>1. /\ vecSessionCollaterals' = Append(vecSessionCollaterals, m.collateral)
        /\ toClient' = PushAccepted(toClient, c) /\ Done(c)
        /\ UNCHANGED <<nState, nSessionID, nSessionDenom, vecEntries, scriptSigs,
                       lastSession, undisturbed>>
    BY <1>4 DEF AddUserToExistingSession
  <2>2. m.collateral \in Collateral
    BY <1>0, <1>1, Requests DEF NetType
  <2>3. vecSessionCollaterals' \in Seq(Collateral)
    BY <1>0, <2>1, <2>2, AppendProperties DEF ServerType
  <2>4. ServerType'
    BY <1>0, <2>1, <2>3 DEF ServerType
  <2>5. toClient' \in Outbox
    BY <1>0, <2>1, PushAcceptedType DEF NetType, ServerType
  <2> QED
    BY <1>0, <1>1, <1>2, <2>1, <2>4, <2>5, MessageThreadType DEF ThreadType
<1> QED
  BY <1>3, <1>4

LEMMA RecvPPVINType ==
  ASSUME TypeInv, NEW c \in Client, RecvPPVIN(c)
  PROVE  TypeInv'
<1>0. ServerType /\ ThreadType /\ ChainType /\ NetType
  BY TypeParts DEF TypeInv
<1>1. toServer[c] # <<>>
  BY DEF RecvPPVIN, Receives
<1>2. UNCHANGED <<charging, chainVars, clientVars, connected>> /\ ChainType'
  BY <1>0, Kept DEF RecvPPVIN
<1>3. CASE Reject(c)
  BY <1>1, <1>2, <1>3, RejectType
<1>4. CASE waiting' = c /\ UNCHANGED <<serverVars, lastSession, undisturbed, toServer, toClient>>
  BY <1>0, <1>1, <1>2, <1>4, Kept, MessageThreadType DEF ThreadType, NetType
<1> QED
  BY <1>3, <1>4 DEF RecvPPVIN

LEMMA AddEntryType ==
  ASSUME TypeInv, NEW c \in Client, AddEntry(c)
  PROVE  TypeInv'
<1> DEFINE e == Head(toServer[c]).entry
<1>0. ServerType /\ ThreadType /\ ChainType /\ NetType /\ TypeOK
  BY TypeParts DEF TypeInv
<1>1. toServer[c] # <<>> /\ Head(toServer[c]).cmd = "PPVIN"
  BY PoolAssumption DEF AddEntry, Resumes, TypeInv, WaitingIsServed
<1>2. UNCHANGED <<charging, clientVars, connected>>
  BY DEF AddEntry
<1>3. CASE Reject(c) /\ UNCHANGED chainVars
  BY <1>1, <1>2, <1>3, RejectType
<1>4. CASE /\ toClient' = Push(toClient, c, Rejected) /\ SetNull /\ Done(c)
           /\ UNCHANGED <<chainVars, lastSession, undisturbed>>
  <2>1. toClient' \in Outbox /\ ServerType' /\ ChainType'
    BY <1>0, <1>4, PushType, Messages, SetNullType, Kept DEF NetType
  <2> QED
    BY <1>0, <1>1, <1>2, <1>4, <2>1, MessageThreadType DEF ThreadType
<1>5. CASE /\ CheckPool(Append(vecEntries, e), scriptSigs, TRUE)
           /\ Done(c) /\ UNCHANGED lastSession
  <2>1. e \in Entry
    BY <1>0, <1>1, Requests DEF NetType
  <2>2. Append(vecEntries, e) \in Seq(Entry) /\ scriptSigs \in SUBSET Signature
    BY <1>0, <2>1, AppendProperties DEF ServerType
  <2>3. ServerType' /\ ChainType' /\ toClient' \in Outbox /\ undisturbed' \in BOOLEAN
    BY <1>0, <1>5, <2>2, CheckPoolType
  <2> QED
    BY <1>0, <1>1, <1>2, <1>5, <2>3, MessageThreadType DEF ThreadType
<1> QED
  BY <1>3, <1>4, <1>5 DEF AddEntry

LEMMA RecvPPSIGNFINALTXType ==
  ASSUME TypeInv, NEW c \in Client, RecvPPSIGNFINALTX(c)
  PROVE  TypeInv'
<1> DEFINE sig == Head(toServer[c]).sig
<1>0. ServerType /\ ThreadType /\ ChainType /\ NetType /\ TypeOK
  BY TypeParts DEF TypeInv
<1>1. toServer[c] # <<>> /\ Head(toServer[c]).cmd = "PPSIGNFINALTX"
  BY DEF RecvPPSIGNFINALTX, Receives
<1>2. Done(c) /\ UNCHANGED <<lastSession, charging, clientVars, connected>>
  BY DEF RecvPPSIGNFINALTX
<1>3. ServerType' /\ ChainType' /\ toClient' \in Outbox /\ undisturbed' \in BOOLEAN
  <2>1. CASE CanAddScriptSig(sig)
    <3>1. sig \in Signature
      BY <1>0, <1>1, Requests DEF NetType
    <3>2. vecEntries \in Seq(Entry) /\ scriptSigs \cup {sig} \in SUBSET Signature
      BY <1>0, <3>1 DEF ServerType
    <3>3. CheckPool(vecEntries, scriptSigs \cup {sig}, FALSE)
      BY <2>1 DEF RecvPPSIGNFINALTX
    <3> QED
      BY <1>0, <3>2, <3>3, CheckPoolType
  <2>2. CASE ~CanAddScriptSig(sig)
    <3>1. RelayRejected(toClient, vecEntries) \in Outbox
      BY <1>0, RelayRejectedType DEF ServerType, NetType
    <3>2. /\ toClient' = RelayRejected(toClient, vecEntries)
          /\ SetNull \/ UNCHANGED serverVars
          /\ UNCHANGED <<chainVars, undisturbed>>
      BY <2>2 DEF RecvPPSIGNFINALTX
    <3> QED
      BY <1>0, <3>1, <3>2, SetNullType, Kept DEF ThreadType
  <2> QED
    BY <2>1, <2>2
<1> QED
  BY <1>0, <1>1, <1>2, <1>3, MessageThreadType DEF ThreadType

\* The timer thread touches neither requests nor clients.
LEMMA TimerThreadType ==
  ASSUME TypeInv, CheckTimeout \/ ChargeFees \/ CheckForCompleteQueue
  PROVE  TypeInv'
<1>0. ServerType /\ ThreadType /\ ChainType /\ ClientType /\ NetType
  BY TypeParts DEF TypeInv
<1>1. UNCHANGED <<waiting, lastSession, committed, mined, clientVars, connected, toServer>>
  BY DEF CheckTimeout, ChargeFees, CheckForCompleteQueue, chainVars, netVars
<1>2. ServerType'
  <2>1. CASE SetNull
    BY <2>1, SetNullType
  <2>2. CASE UNCHANGED serverVars
    BY <2>2, <1>0, Kept
  <2>3. CASE CheckForCompleteQueue
    BY <2>3, <1>0 DEF CheckForCompleteQueue, ServerType, Active
  <2> QED
    BY <2>1, <2>2, <2>3 DEF CheckTimeout, ChargeFees
<1>3. charging' \subseteq Collateral
  <2>1. CASE \E i \in Offences : charging' = {Offender(i)}
    <3>1. PICK i \in Offences : charging' = {Offender(i)}
      BY <2>1
    <3>2. CASE nState = "SIGNING"
      <4>1. i \in DOMAIN vecEntries /\ charging' = {CollateralOf(vecEntries[i])}
        BY <3>1, <3>2 DEF Offences, Offender
      <4>2. vecEntries[i] \in Entry
        BY <1>0, <4>1 DEF ServerType
      <4>3. CollateralOf(vecEntries[i]) \in Collateral
        BY <4>2 DEF CollateralOf, Collateral, Entry
      <4> QED
        BY <4>1, <4>3
    <3>3. CASE nState = "ACCEPTING_ENTRIES"
      <4>1. i \in DOMAIN vecSessionCollaterals /\ charging' = {vecSessionCollaterals[i]}
        BY <3>1, <3>3 DEF Offences, Offender
      <4> QED
        BY <1>0, <4>1 DEF ServerType
    <3> QED
      BY <3>1, <3>2, <3>3 DEF Offences
  <2>2. CASE charging' \in {charging, {}}
    BY <2>2, <1>0 DEF ThreadType
  <2> QED
    BY <2>1, <2>2 DEF CheckTimeout, ChargeFees, CheckForCompleteQueue
<1>4. charged' \in [Client -> Nat]
  BY <1>0, ChargeType DEF CheckTimeout, ChargeFees, CheckForCompleteQueue, ChainType, chainVars
<1>5. toClient' \in Outbox
  <2>1. CASE UNCHANGED toClient
    BY <2>1, <1>0 DEF NetType
  <2>2. CASE CheckForCompleteQueue
    <3>1. \A c \in Client : Append(toClient[c], Ready) \in Seq(Message)
      BY <1>0, Messages, AppendProperties DEF NetType, Outbox
    <3> QED
      BY <1>0, <2>2, <3>1 DEF CheckForCompleteQueue, NetType, Outbox
  <2> QED
    BY <2>1, <2>2 DEF CheckTimeout, ChargeFees, netVars
<1>6. undisturbed' \in BOOLEAN
  BY <1>0 DEF CheckTimeout, ChargeFees, CheckForCompleteQueue, ThreadType
<1>7. TypeOK'
  BY <1>0, <1>1, <1>2, <1>3, <1>4, <1>5, <1>6, Kept, TypePartsNext
     DEF ThreadType, ChainType, NetType
<1>8. QueuedHasDenom' /\ WaitingIsServed'
  BY <1>1 DEF TypeInv, QueuedHasDenom, WaitingIsServed, clientVars
<1> QED
  BY <1>7, <1>8 DEF TypeInv

-----------------------------------------------------------------------------
(* Types: the clients' steps *)

LEMMA ClientSetNullType ==
  ASSUME ClientType, NEW c \in Client, NEW st \in {"IDLE", "ERROR"}, ClientSetNull(c, st)
  PROVE  /\ ClientType'
         /\ QueuedHasDenom => QueuedHasDenom'
<1>1. ClientType'
  BY DEF ClientType, ClientSetNull
<1>2. \A p \in Client : cState'[p] = "QUEUE" => p # c /\ cState[p] = "QUEUE"
                                                /\ cDenom'[p] = cDenom[p] /\ joins'[p] = joins[p]
  BY DEF ClientType, ClientSetNull
<1> QED
  BY <1>1, <1>2 DEF QueuedHasDenom

LEMMA AppendKeepsHead ==
  ASSUME NEW S, NEW w \in Seq(S), NEW m \in S
  PROVE  /\ Append(w, m) \in Seq(S) /\ Append(w, m) # <<>>
         /\ w # <<>> => Head(Append(w, m)) = Head(w)
BY AppendProperties, HeadTailAppend

\* Sending only appends to the queue.
LEMMA SendToServerType ==
  ASSUME toServer \in Inbox, NEW c \in Client, NEW m \in Request, SendToServer(c, m)
  PROVE  /\ toServer' \in Inbox
         /\ \A p \in Client : toServer[p] # <<>> =>
              toServer'[p] # <<>> /\ Head(toServer'[p]) = Head(toServer[p])
<1> DEFINE q == Append(toServer[c], m)
<1>1. toServer[c] \in Seq(Request)
  BY DEF Inbox
<1>2. /\ q \in Seq(Request) /\ q # <<>>
      /\ toServer[c] # <<>> => Head(q) = Head(toServer[c])
  BY <1>1, AppendKeepsHead
<1>3. toServer' = toServer \/ toServer' = [toServer EXCEPT ![c] = q]
  BY DEF SendToServer
<1> HIDE DEF q
<1>4. CASE toServer' = [toServer EXCEPT ![c] = q]
  <2>1. toServer' \in Inbox
    BY <1>2, <1>4 DEF Inbox
  <2>2. \A p \in Client : toServer'[p] = IF p = c THEN q ELSE toServer[p]
    BY <1>4 DEF Inbox
  <2> QED
    BY <1>2, <2>1, <2>2
<1> QED
  BY <1>3, <1>4

\* A step of client c: what it sends goes to the end of its queue.
LEMMA ClientStepType ==
  ASSUME TypeInv, ClientType', QueuedHasDenom', toServer' \in Inbox, toClient' \in Outbox,
         \A p \in Client : toServer[p] # <<>> => toServer'[p] # <<>>,
         undisturbed' \in BOOLEAN,
         UNCHANGED <<serverVars, waiting, charging, lastSession, chainVars, connected>>
  PROVE  TypeInv'
<1>0. ServerType /\ ThreadType /\ ChainType /\ NetType
  BY TypeParts DEF TypeInv
<1>1. TypeOK'
  BY <1>0, Kept, TypePartsNext DEF ThreadType, NetType
<1>2. WaitingIsServed'
  BY <1>0 DEF TypeInv, WaitingIsServed, ThreadType
<1> QED
  BY <1>1, <1>2 DEF TypeInv

LEMMA DoAutomaticDenominatingType ==
  ASSUME TypeInv, NEW c \in Client, DoAutomaticDenominating(c)
  PROVE  TypeInv'
<1>0. ThreadType /\ ChainType /\ ClientType /\ NetType
  BY TypeParts DEF TypeInv
<1>1. PICK d \in Denom, n \in {cCollateral[c], charged[c]} :
        /\ cState' = [cState EXCEPT ![c] = "QUEUE"]
        /\ cDenom' = [cDenom EXCEPT ![c] = d]
        /\ cCollateral' = [cCollateral EXCEPT ![c] = n]
        /\ joins' = [joins EXCEPT ![c] = @ + 1]
        /\ SendToServer(c, [cmd |-> "PPACCEPT", denom |-> d,
                            collateral |-> [client |-> c, nth |-> n]])
        /\ undisturbed' = (undisturbed /\ n = charged[c])
  BY DEF DoAutomaticDenominating
<1>2. /\ joins[c] < MaxJoins
      /\ UNCHANGED <<serverVars, waiting, charging, lastSession, chainVars, cSessionID,
                     cEntries, connected, toClient>>
  BY DEF DoAutomaticDenominating
<1>3. n \in Nat
  BY <1>0 DEF ClientType, ChainType
<1>4. joins[c] + 1 \in 1 .. MaxJoins
  BY <1>0, <1>2, PoolAssumption DEF ClientType
<1>5. ClientType'
  BY <1>0, <1>1, <1>2, <1>3, <1>4 DEF ClientType, Active
<1>6. QueuedHasDenom'
  BY <1>0, <1>1, <1>4 DEF TypeInv, QueuedHasDenom, ClientType
<1>7. [cmd |-> "PPACCEPT", denom |-> d, collateral |-> [client |-> c, nth |-> n]] \in Request
  BY <1>3 DEF Request, Collateral
<1>8. /\ toServer' \in Inbox
      /\ \A p \in Client : toServer[p] # <<>> => toServer'[p] # <<>>
  BY <1>0, <1>1, <1>7, SendToServerType DEF NetType
<1>9. undisturbed' \in BOOLEAN
  BY <1>1
<1> QED
  BY <1>0, <1>2, <1>5, <1>6, <1>8, <1>9, ClientStepType DEF NetType

\* The client's message thread, except for what the handlers do.
LEMMA ClientReceivesType ==
  ASSUME TypeInv, NEW c \in Client, NEW cmd, ClientReceives(c, cmd),
         ClientType', QueuedHasDenom', undisturbed' \in BOOLEAN,
         UNCHANGED toServer \/ \E m \in Request : SendToServer(c, m)
  PROVE  TypeInv'
<1>0. ThreadType /\ NetType
  BY TypeParts DEF TypeInv
<1>1. toClient[c] \in Seq(Message) /\ toClient[c] # <<>>
  BY <1>0 DEF NetType, Outbox, ClientReceives
<1>2. Tail(toClient[c]) \in Seq(Message)
  BY <1>1, HeadTailProperties
<1>3. toClient' \in Outbox
  BY <1>0, <1>2 DEF ClientReceives, NetType, Outbox
<1>4. /\ toServer' \in Inbox
      /\ \A p \in Client : toServer[p] # <<>> => toServer'[p] # <<>>
  BY <1>0, SendToServerType DEF NetType
<1> QED
  BY <1>3, <1>4, ClientStepType DEF ClientReceives

\* An entry is made while the client is in the queue.
LEMMA NewEntryType ==
  ASSUME TypeInv, NEW c \in Client, cState[c] = "QUEUE", NEW k \in Coin
  PROVE  NewEntry(c, k) \in Entry
<1>1. cDenom[c] \in Denom /\ joins[c] \in 1 .. MaxJoins
  BY DEF TypeInv, QueuedHasDenom
<1>2. cCollateral[c] \in Nat
  BY TypeParts DEF TypeInv, ClientType
<1> QED
  BY <1>1, <1>2 DEF NewEntry, Entry

LEMMA ClientRecvPPQUEUEType ==
  ASSUME TypeInv, NEW c \in Client, ClientRecvPPQUEUE(c)
  PROVE  TypeInv'
<1>0. ClientReceives(c, "PPQUEUE") /\ ThreadType /\ ClientType /\ QueuedHasDenom
  BY TypeParts DEF TypeInv, ClientRecvPPQUEUE
<1>1. CASE UNCHANGED <<clientVars, toServer>> /\ undisturbed' \in BOOLEAN
  BY <1>0, <1>1, Kept, ClientReceivesType DEF QueuedHasDenom, clientVars
<1>2. CASE cState[c] = "QUEUE" /\ \E k \in Unspent(c, cDenom[c], mined) : SendDenominate(c, k)
  <2>1. PICK k \in Coin : SendDenominate(c, k)
    BY <1>2 DEF Unspent
  <2>2. CASE ClientSetNull(c, "IDLE") /\ UNCHANGED toServer /\ undisturbed' \in BOOLEAN
    BY <1>0, <2>2, ClientSetNullType, ClientReceivesType
  <2>3. CASE /\ cEntries' = [cEntries EXCEPT ![c] = {NewEntry(c, k)}]
             /\ cState' = [cState EXCEPT ![c] = "ACCEPTING_ENTRIES"]
             /\ SendToServer(c, [cmd |-> "PPVIN", entry |-> NewEntry(c, k)])
             /\ undisturbed' \in BOOLEAN
             /\ UNCHANGED <<cSessionID, cDenom, cCollateral, joins>>
    <3>1. NewEntry(c, k) \in Entry
      BY <1>2, NewEntryType
    <3>2. [cmd |-> "PPVIN", entry |-> NewEntry(c, k)] \in Request
      BY <3>1 DEF Request
    <3>3. ClientType'
      BY <1>0, <2>3, <3>1 DEF ClientType, Active
    <3>4. QueuedHasDenom'
      BY <1>0, <2>3 DEF QueuedHasDenom, ClientType
    <3> QED
      BY <1>0, <2>3, <3>2, <3>3, <3>4, ClientReceivesType
  <2> QED
    BY <1>0, <2>1, <2>2, <2>3 DEF SendDenominate, ThreadType
<1>3. \/ cState[c] = "QUEUE" /\ SubmitDenominate(c)
      \/ UNCHANGED <<clientVars, toServer>> /\ undisturbed' \in BOOLEAN
  BY DEF ClientRecvPPQUEUE
<1>4. SubmitDenominate(c) => \/ UNCHANGED <<clientVars, toServer, undisturbed>>
                             \/ \E k \in Unspent(c, cDenom[c], mined) : SendDenominate(c, k)
  BY DEF SubmitDenominate
<1> QED
  BY <1>0, <1>1, <1>2, <1>3, <1>4 DEF ThreadType

LEMMA ClientRecvAcceptedType ==
  ASSUME TypeInv, NEW c \in Client, ClientRecvAccepted(c)
  PROVE  TypeInv'
<1>0. ClientReceives(c, "ACCEPTED") /\ ThreadType /\ ClientType /\ NetType /\ QueuedHasDenom
  BY TypeParts DEF TypeInv, ClientRecvAccepted
<1>1. Head(toClient[c]).id \in Nat
  <2>1. Head(toClient[c]) \in Message /\ Head(toClient[c]).cmd = "ACCEPTED"
    BY <1>0, HeadTailProperties DEF ClientReceives, NetType, Outbox
  <2> QED
    BY <2>1 DEF Message
<1>2. ClientType'
  BY <1>0, <1>1 DEF ClientRecvAccepted, ClientType
<1>3. QueuedHasDenom'
  BY <1>0 DEF ClientRecvAccepted, QueuedHasDenom
<1>4. UNCHANGED <<toServer, undisturbed>>
  BY DEF ClientRecvAccepted
<1> QED
  BY <1>0, <1>2, <1>3, <1>4, ClientReceivesType DEF ThreadType

\* The messages that end the client's session.
LEMMA ClientRecvRejectedOrPPCOMPLETEType ==
  ASSUME TypeInv, NEW c \in Client, ClientRecvRejected(c) \/ ClientRecvPPCOMPLETE(c)
  PROVE  TypeInv'
<1>0. ThreadType /\ ClientType /\ QueuedHasDenom
  BY TypeParts DEF TypeInv
<1>1. /\ ClientReceives(c, "REJECTED") \/ ClientReceives(c, "PPCOMPLETE")
      /\ UNCHANGED clientVars \/ \E st \in {"IDLE", "ERROR"} : ClientSetNull(c, st)
      /\ UNCHANGED <<toServer, undisturbed>>
  BY DEF ClientRecvRejected, ClientRecvPPCOMPLETE
<1>2. ClientType' /\ QueuedHasDenom'
  <2>1. CASE UNCHANGED clientVars
    BY <1>0, <2>1, Kept DEF QueuedHasDenom, clientVars
  <2>2. CASE \E st \in {"IDLE", "ERROR"} : ClientSetNull(c, st)
    BY <1>0, <2>2, ClientSetNullType
  <2> QED
    BY <1>1, <2>1, <2>2
<1> QED
  BY <1>0, <1>1, <1>2, ClientReceivesType DEF ThreadType

LEMMA ClientRecvPPFINALTXType ==
  ASSUME TypeInv, NEW c \in Client, ClientRecvPPFINALTX(c)
  PROVE  TypeInv'
<1> DEFINE tx == Head(toClient[c]).tx
<1>0. ThreadType /\ ClientType /\ NetType /\ QueuedHasDenom
  BY TypeParts DEF TypeInv
<1>1. ClientReceives(c, "PPFINALTX") /\ UNCHANGED undisturbed
  BY DEF ClientRecvPPFINALTX
<1>2. CASE UNCHANGED <<clientVars, toServer>>
  BY <1>0, <1>1, <1>2, Kept, ClientReceivesType DEF QueuedHasDenom, clientVars, ThreadType
<1>3. CASE ClientSetNull(c, "IDLE") /\ UNCHANGED toServer
  BY <1>0, <1>1, <1>3, ClientSetNullType, ClientReceivesType DEF ThreadType
<1>4. CASE /\ cState' = [cState EXCEPT ![c] = "SIGNING"]
           /\ \E e \in cEntries[c] \cap tx :
                SendToServer(c, [cmd |-> "PPSIGNFINALTX",
                                 sig |-> [input |-> Prevout(e), tx |-> tx]])
           /\ UNCHANGED <<cSessionID, cDenom, cCollateral, cEntries, joins>>
  <2>1. PICK e \in cEntries[c] \cap tx :
          SendToServer(c, [cmd |-> "PPSIGNFINALTX", sig |-> [input |-> Prevout(e), tx |-> tx]])
    BY <1>4
  <2>2. Head(toClient[c]) \in Message /\ Head(toClient[c]).cmd = "PPFINALTX"
    BY <1>0, <1>1, HeadTailProperties DEF ClientReceives, NetType, Outbox
  <2>3. tx \in SUBSET Entry
    BY <2>2 DEF Message
  <2>4. Prevout(e) \in [client : Client, denom : Denom, coin : Coin]
    BY <2>1, <2>3 DEF Prevout, Entry
  <2>5. [cmd |-> "PPSIGNFINALTX", sig |-> [input |-> Prevout(e), tx |-> tx]] \in Request
    BY <2>3, <2>4 DEF Request, Signature
  <2>6. ClientType'
    BY <1>0, <1>4 DEF ClientType, Active
  <2>7. QueuedHasDenom'
    BY <1>0, <1>4 DEF QueuedHasDenom, ClientType
  <2> QED
    BY <1>0, <1>1, <2>1, <2>5, <2>6, <2>7, ClientReceivesType DEF ThreadType
<1> QED
  BY <1>2, <1>3, <1>4 DEF ClientRecvPPFINALTX, SignFinalTransaction

LEMMA ClientCheckTimeoutType ==
  ASSUME TypeInv, NEW c \in Client, ClientCheckTimeout(c)
  PROVE  TypeInv'
<1>0. ClientType /\ NetType /\ QueuedHasDenom
  BY TypeParts DEF TypeInv
<1>1. ClientType' /\ QueuedHasDenom'
  BY <1>0, ClientSetNullType DEF ClientCheckTimeout
<1>2. /\ undisturbed' \in BOOLEAN
      /\ UNCHANGED <<serverVars, waiting, charging, lastSession, chainVars, connected,
                     toServer, toClient>>
  BY DEF ClientCheckTimeout, netVars
<1> QED
  BY <1>0, <1>1, <1>2, ClientStepType DEF NetType

-----------------------------------------------------------------------------
(* Type correctness *)

LEMMA DropType ==
  ASSUME TypeInv, NEW c \in Client, Drop(c)
  PROVE  TypeInv'
<1>0. ServerType /\ ThreadType /\ ChainType /\ ClientType /\ NetType
  BY TypeParts DEF TypeInv
<1>1. waiting = c => <<Head(toServer[c])>> \in Seq(Request)
  BY <1>0, PoolAssumption, HeadTailProperties DEF TypeInv, WaitingIsServed, NetType, Inbox
<1>2. connected' \subseteq Client /\ toServer' \in Inbox /\ toClient' \in Outbox
  BY <1>0, <1>1, EmptySeq DEF Drop, NetType, Inbox, Outbox
<1>3. TypeOK'
  BY <1>0, <1>2, Kept, TypePartsNext DEF Drop, ThreadType, NetType
<1>4. QueuedHasDenom'
  BY DEF TypeInv, QueuedHasDenom, Drop, clientVars
<1>5. WaitingIsServed'
  BY <1>0, PoolAssumption DEF TypeInv, WaitingIsServed, Drop, NetType, Inbox, ThreadType
<1> QED
  BY <1>3, <1>4, <1>5 DEF TypeInv

LEMMA MineType ==
  ASSUME TypeInv, Mine
  PROVE  TypeInv'
<1>0. ServerType /\ ThreadType /\ ChainType /\ ClientType /\ NetType
  BY TypeParts DEF TypeInv
<1>1. ChainType'
  BY <1>0 DEF Mine, ChainType
<1>2. TypeOK'
  BY <1>0, <1>1, Kept, TypePartsNext DEF Mine, ThreadType, NetType, netVars
<1>3. QueuedHasDenom' /\ WaitingIsServed'
  BY DEF TypeInv, QueuedHasDenom, WaitingIsServed, Mine, clientVars, netVars
<1> QED
  BY <1>2, <1>3 DEF TypeInv

LEMMA TypeStep == TypeInv /\ [Next]_vars => TypeInv'
<1> SUFFICES ASSUME TypeInv, [Next]_vars PROVE TypeInv'
  OBVIOUS
<1>1. CASE CheckTimeout \/ ChargeFees \/ CheckForCompleteQueue
  BY <1>1, TimerThreadType
<1>2. CASE Mine
  BY <1>2, MineType
<1>3. CASE \E c \in Client : MessageThread(c)
  BY <1>3, RecvPPACCEPTType, AddUserToExistingSessionType, RecvPPVINType, AddEntryType,
     RecvPPSIGNFINALTXType DEF MessageThread
<1>4. CASE \E c \in Client : ClientMessageThread(c)
  BY <1>4, ClientRecvPPQUEUEType, ClientRecvAcceptedType, ClientRecvRejectedOrPPCOMPLETEType,
     ClientRecvPPFINALTXType DEF ClientMessageThread
<1>5. CASE \E c \in Client : DoAutomaticDenominating(c) \/ ClientCheckTimeout(c) \/ Drop(c)
  BY <1>5, DoAutomaticDenominatingType, ClientCheckTimeoutType, DropType
<1>6. CASE UNCHANGED vars
  BY <1>6 DEF vars, TypeInv, TypeOK, QueuedHasDenom, WaitingIsServed
<1> QED
  BY <1>1, <1>2, <1>3, <1>4, <1>5, <1>6 DEF Next

LEMMA TypeInit == Init => TypeInv
<1> SUFFICES ASSUME Init PROVE TypeInv
  OBVIOUS
<1>1. ServerType
  BY EmptySeq DEF Init, ServerType
<1>2. ThreadType /\ ChainType
  BY DEF Init, ThreadType, ChainType
<1>3. ClientType
  BY PoolAssumption DEF Init, ClientType
<1>4. NetType
  BY EmptySeq DEF Init, NetType, Inbox, Outbox
<1>5. QueuedHasDenom /\ WaitingIsServed
  BY DEF Init, QueuedHasDenom, WaitingIsServed
<1> QED
  BY <1>1, <1>2, <1>3, <1>4, <1>5, TypeParts DEF TypeInv

LEMMA TypeInvariant == Spec => []TypeInv
BY TypeInit, TypeStep, PTL DEF Spec

\* Every variable keeps its type, whatever the threads, clients and connections do.
THEOREM TypeCorrect == Spec => []TypeOK
BY TypeInvariant, PTL DEF TypeInv

-----------------------------------------------------------------------------
(* The pool is consistent *)

\* What the message thread knows after it has waited for cs_main: a user who was
\* to join found room, and there still is; who sent an entry found a full
\* session, which may have timed out meanwhile and left an empty pool.
WaitingFits ==
  waiting # NoClient =>
    /\ Head(toServer[waiting]).cmd = "PPACCEPT" => ~IsSessionReady
    /\ Head(toServer[waiting]).cmd = "PPVIN" =>
         IsSessionReady \/ (nState = "IDLE" /\ vecEntries = <<>>)

PoolInv == PoolConsistent /\ WaitingFits

LEMMA EmptyPool == SetNull => PoolConsistent'
BY PoolAssumption DEF SetNull, ClearSession, PoolConsistent

\* The pool after CheckPool, with the entries ents.
LEMMA CheckPoolInv ==
  ASSUME TypeOK, PoolConsistent, NEW ents \in Seq(Entry), NEW sigs, NEW relay,
         Len(ents) <= MaxPoolTransactions,
         nState = "IDLE" => Len(ents) <= 1,
         nState = "SIGNING" => ents = vecEntries,
         CheckPool(ents, sigs, relay)
  PROVE  PoolConsistent'
<1>0. vecEntries \in Seq(Entry) /\ vecSessionCollaterals \in Seq(Collateral)
  BY DEF TypeOK
<1>1. CASE EntriesFull(ents) /\ CreateFinalTransaction(ents, sigs, relay)
  <2>1. nState = "ACCEPTING_ENTRIES" /\ Len(ents) = MaxPoolTransactions
    BY <1>1, PoolAssumption DEF EntriesFull
  <2>2. nSessionID # 0 /\ IsSessionReady /\ Len(vecSessionCollaterals) <= MaxPoolTransactions
    BY <2>1 DEF PoolConsistent
  <2>3. CASE AllGone(ents)
    BY <1>1, <2>3, PoolAssumption DEF CreateFinalTransaction, ClearSession, PoolConsistent
  <2>4. CASE ~AllGone(ents)
    BY <1>1, <2>1, <2>2, <2>4
       DEF CreateFinalTransaction, PoolConsistent, IsSessionReady
  <2> QED
    BY <2>3, <2>4
<1>2. CASE CommitFinalTransaction(ents, sigs)
  BY <1>2, EmptyPool DEF CommitFinalTransaction
<1>3. CASE SetNull
  BY <1>3, EmptyPool
<1>4. CASE /\ vecEntries' = ents /\ ~EntriesFull(ents)
           /\ UNCHANGED <<nState, nSessionID, nSessionDenom, vecSessionCollaterals>>
  BY <1>0, <1>4 DEF PoolConsistent, IsSessionReady
<1> QED
  BY <1>1, <1>2, <1>3, <1>4 DEF CheckPool

\* When nothing happens to the pool, and the message thread goes on as it was or ends.
LEMMA QuietPool ==
  ASSUME PoolInv, UNCHANGED serverVars,
         waiting' = NoClient
           \/ (waiting' = waiting /\ Head(toServer'[waiting]) = Head(toServer[waiting]))
           \/ (waiting' = waiting /\ waiting = NoClient)
  PROVE  PoolInv'
<1>1. PoolConsistent'
  BY DEF PoolInv, PoolConsistent, IsSessionReady, serverVars
<1>2. IsSessionReady' = IsSessionReady /\ UNCHANGED <<nState, vecEntries>>
  BY DEF IsSessionReady, serverVars
<1>3. WaitingFits'
  BY <1>2 DEF PoolInv, WaitingFits
<1> QED
  BY <1>1, <1>3 DEF PoolInv

LEMMA RecvPPACCEPTInv ==
  ASSUME TypeInv, PoolInv, NEW c \in Client, RecvPPACCEPT(c)
  PROVE  PoolInv'
<1>0. /\ lastSession \in Nat /\ vecEntries \in Seq(Entry)
      /\ vecSessionCollaterals \in Seq(Collateral)
  BY DEF TypeInv, TypeOK
<1>1. CASE UNCHANGED serverVars /\ Done(c)
  BY <1>1, QuietPool DEF Done
<1>2. CASE ~IsSessionReady /\ CreateNewSession(c) /\ ~Reject(c)
  <2> DEFINE m == Head(toServer[c])
  <2>1. /\ nState = "IDLE" /\ nState' = "QUEUE" /\ nSessionID' = lastSession + 1
        /\ vecSessionCollaterals' = Append(vecSessionCollaterals, m.collateral)
        /\ waiting' = NoClient /\ UNCHANGED vecEntries
    BY <1>2 DEF CreateNewSession, Done
  <2>2. m.collateral \in Collateral
    BY TypeParts, Requests DEF TypeInv, NetType, RecvPPACCEPT, Receives
  <2>3. Len(vecSessionCollaterals') = 1 /\ vecSessionCollaterals' # <<>>
    <3>1. vecSessionCollaterals = <<>>
      BY <2>1 DEF PoolInv, PoolConsistent
    <3>2. Len(vecSessionCollaterals) = 0
      BY <3>1
    <3> QED
      BY <1>0, <2>1, <2>2, <3>2, AppendProperties
  <2>4. nSessionID' # 0
    BY <1>0, <2>1
  <2>5. PoolConsistent'
    BY <2>1, <2>3, <2>4, PoolAssumption DEF PoolInv, PoolConsistent
  <2> QED
    BY <2>1, <2>5 DEF PoolInv, WaitingFits
<1>3. CASE /\ ~IsSessionReady /\ waiting' = c
           /\ UNCHANGED <<serverVars, lastSession, undisturbed, toServer, toClient>>
  <2>1. PoolConsistent' /\ ~IsSessionReady'
    BY <1>3 DEF PoolInv, PoolConsistent, IsSessionReady, serverVars
  <2>2. Head(toServer'[c]).cmd = "PPACCEPT"
    BY <1>3 DEF RecvPPACCEPT, Receives
  <2> QED
    BY <1>3, <2>1, <2>2 DEF PoolInv, WaitingFits
<1> QED
  BY <1>1, <1>2, <1>3 DEF RecvPPACCEPT, Reject

LEMMA AddUserToExistingSessionInv ==
  ASSUME TypeInv, PoolInv, NEW c \in Client, AddUserToExistingSession(c)
  PROVE  PoolInv'
<1> DEFINE m == Head(toServer[c])
<1>1. CASE Reject(c)
  BY <1>1, QuietPool DEF Reject, Done
<1>2. CASE ~Reject(c)
  <2>1. /\ nState = "QUEUE" /\ waiting' = NoClient
        /\ vecSessionCollaterals' = Append(vecSessionCollaterals, m.collateral)
        /\ UNCHANGED <<nState, nSessionID, vecEntries>>
    BY <1>2 DEF AddUserToExistingSession, Done
  <2>2. waiting = c /\ waiting # NoClient /\ m.cmd = "PPACCEPT"
    BY PoolAssumption DEF AddUserToExistingSession, Resumes
  <2>3. m.collateral \in Collateral /\ vecSessionCollaterals \in Seq(Collateral)
    BY <2>2, TypeParts, Requests DEF TypeInv, WaitingIsServed, NetType, ServerType
  <2>4. Len(vecSessionCollaterals) < MaxPoolTransactions
    BY <2>2, <2>3, PoolAssumption DEF PoolInv, WaitingFits, IsSessionReady
  <2>5. /\ Len(vecSessionCollaterals') = Len(vecSessionCollaterals) + 1
        /\ vecSessionCollaterals' # <<>>
    BY <2>1, <2>3, AppendProperties
  <2>6. PoolConsistent'
    BY <2>1, <2>3, <2>4, <2>5, PoolAssumption DEF PoolInv, PoolConsistent
  <2> QED
    BY <2>1, <2>6 DEF PoolInv, WaitingFits
<1> QED
  BY <1>1, <1>2

LEMMA RecvPPVINInv ==
  ASSUME PoolInv, NEW c \in Client, RecvPPVIN(c)
  PROVE  PoolInv'
<1>1. CASE Reject(c)
  BY <1>1, QuietPool DEF Reject, Done
<1>2. CASE IsSessionReady /\ waiting' = c /\ UNCHANGED <<serverVars, toServer>>
  <2>1. PoolConsistent' /\ IsSessionReady'
    BY <1>2 DEF PoolInv, PoolConsistent, IsSessionReady, serverVars
  <2>2. Head(toServer'[c]).cmd = "PPVIN"
    BY <1>2 DEF RecvPPVIN, Receives
  <2> QED
    BY <1>2, <2>1, <2>2 DEF PoolInv, WaitingFits
<1> QED
  BY <1>1, <1>2 DEF RecvPPVIN

\* An entry is only added below the pool's limit, and to an idle pool only when it is empty.
LEMMA AddEntryInv ==
  ASSUME TypeInv, PoolInv, NEW c \in Client, AddEntry(c)
  PROVE  PoolInv'
<1> DEFINE e == Head(toServer[c]).entry
<1>0. waiting = c /\ waiting # NoClient /\ Head(toServer[c]).cmd = "PPVIN"
  BY PoolAssumption DEF AddEntry, Resumes
<1>1. CASE Reject(c)
  BY <1>1, QuietPool DEF Reject, Done
<1>2. CASE SetNull /\ Done(c)
  BY <1>2, EmptyPool DEF PoolInv, WaitingFits, Done
<1>3. CASE /\ CanAddEntry(e) /\ Done(c)
           /\ CheckPool(Append(vecEntries, e), scriptSigs, TRUE)
  <2>1. e \in Entry /\ vecEntries \in Seq(Entry) /\ TypeOK
    BY <1>0, TypeParts, Requests DEF TypeInv, WaitingIsServed, NetType, ServerType
  <2>2. /\ Append(vecEntries, e) \in Seq(Entry)
        /\ Len(Append(vecEntries, e)) = Len(vecEntries) + 1
    BY <2>1, AppendProperties
  <2>3. Len(vecEntries) < MaxPoolTransactions
    BY <1>3 DEF CanAddEntry
  <2>4. vecSessionCollaterals = <<>> => nState = "IDLE" /\ vecEntries = <<>>
    BY <1>0, PoolAssumption DEF PoolInv, WaitingFits, IsSessionReady
  <2>5. nState = "IDLE" => Len(vecEntries) = 0
    BY <2>4 DEF PoolInv, PoolConsistent
  <2>6. nState # "SIGNING"
    BY <2>3, <2>4, PoolAssumption DEF PoolInv, PoolConsistent
  <2>7. Len(Append(vecEntries, e)) <= MaxPoolTransactions
    BY <2>1, <2>2, <2>3, PoolAssumption
  <2>8. PoolConsistent'
    <3> DEFINE ents == Append(vecEntries, e)
    <3>1. CheckPool(ents, scriptSigs, TRUE) /\ ents \in Seq(Entry)
      BY <1>3, <2>2
    <3>2. Len(ents) <= MaxPoolTransactions /\ (nState = "IDLE" => Len(ents) <= 1)
      BY <2>2, <2>5, <2>7
    <3> HIDE DEF ents
    <3> QED
      BY <2>1, <2>6, <3>1, <3>2, CheckPoolInv DEF PoolInv
  <2> QED
    BY <1>3, <2>8 DEF PoolInv, WaitingFits, Done
<1> QED
  BY <1>1, <1>2, <1>3 DEF AddEntry

LEMMA RecvPPSIGNFINALTXInv ==
  ASSUME TypeInv, PoolInv, NEW c \in Client, RecvPPSIGNFINALTX(c)
  PROVE  PoolInv'
<1> DEFINE sigs == scriptSigs \cup {Head(toServer[c]).sig}
<1>1. waiting' = NoClient
  BY DEF RecvPPSIGNFINALTX, Done
<1>2. CASE CheckPool(vecEntries, sigs, FALSE)
  <2>1. TypeOK /\ vecEntries \in Seq(Entry)
    BY DEF TypeInv, TypeOK
  <2>2. PoolConsistent'
    BY <1>2, <2>1, CheckPoolInv DEF PoolInv, PoolConsistent
  <2> QED
    BY <1>1, <2>2 DEF PoolInv, WaitingFits
<1>3. CASE SetNull
  BY <1>1, <1>3, EmptyPool DEF PoolInv, WaitingFits
<1>4. CASE UNCHANGED serverVars
  BY <1>1, <1>4, QuietPool
<1> QED
  BY <1>2, <1>3, <1>4 DEF RecvPPSIGNFINALTX

\* The timer thread empties the pool under the feet of the message thread, or opens it.
LEMMA TimerThreadInv ==
  ASSUME PoolInv, CheckTimeout \/ ChargeFees \/ CheckForCompleteQueue
  PROVE  PoolInv'
<1>0. UNCHANGED <<waiting, toServer>>
  BY DEF CheckTimeout, ChargeFees, CheckForCompleteQueue, netVars
<1>1. CASE SetNull
  <2>1. nState' = "IDLE" /\ vecEntries' = <<>> /\ ~IsSessionReady'
    BY <1>1, PoolAssumption DEF SetNull, ClearSession, IsSessionReady
  <2>2. WaitingFits'
    BY <1>0, <2>1 DEF WaitingFits
  <2> QED
    BY <1>1, <2>2, EmptyPool DEF PoolInv
<1>2. CASE UNCHANGED serverVars
  BY <1>0, <1>2, QuietPool
<1>3. CASE CheckForCompleteQueue
  <2>1. /\ nState = "QUEUE" /\ nState' = "ACCEPTING_ENTRIES" /\ IsSessionReady
        /\ UNCHANGED <<nSessionID, vecSessionCollaterals, vecEntries>>
    BY <1>3 DEF CheckForCompleteQueue
  <2>2. IsSessionReady' = IsSessionReady
    BY <2>1 DEF IsSessionReady
  <2>3. PoolConsistent'
    BY <2>1, <2>2 DEF PoolInv, PoolConsistent
  <2>4. WaitingFits'
    BY <1>0, <2>1, <2>2 DEF PoolInv, WaitingFits
  <2> QED
    BY <2>3, <2>4 DEF PoolInv
<1> QED
  BY <1>1, <1>2, <1>3 DEF CheckTimeout, ChargeFees

\* What a client sends does not change the message that is being handled.
LEMMA SendKeepsHead ==
  ASSUME toServer \in Inbox, NEW c \in Client, NEW m, SendToServer(c, m),
         NEW p \in Client, toServer[p] # <<>>
  PROVE  Head(toServer'[p]) = Head(toServer[p])
<1>1. CASE p = c /\ c \in connected
  <2>1. toServer'[p] = Append(toServer[p], m)
    BY <1>1 DEF SendToServer, Inbox
  <2>2. toServer[p] \in Seq(Request \cup {m})
    BY DEF Inbox
  <2> QED
    BY <2>1, <2>2
<1>2. CASE toServer'[p] = toServer[p]
  BY <1>2
<1> QED
  BY <1>1, <1>2 DEF SendToServer, Inbox

LEMMA PoolStep == TypeInv /\ PoolInv /\ [Next]_vars => PoolInv'
<1> SUFFICES ASSUME TypeInv, PoolInv, [Next]_vars PROVE PoolInv'
  OBVIOUS
<1>0. ThreadType /\ NetType /\ (waiting # NoClient => waiting \in Client)
  BY TypeParts DEF TypeInv, ThreadType
<1>1. CASE CheckTimeout \/ ChargeFees \/ CheckForCompleteQueue
  BY <1>1, TimerThreadInv
<1>2. CASE \E c \in Client : MessageThread(c)
  BY <1>2, RecvPPACCEPTInv, AddUserToExistingSessionInv, RecvPPVINInv, AddEntryInv,
     RecvPPSIGNFINALTXInv DEF MessageThread
<1>3. CASE \E c \in Client : \/ ClientMessageThread(c) \/ DoAutomaticDenominating(c)
                             \/ ClientCheckTimeout(c) \/ Drop(c)
  <2>1. PICK c \in Client : \/ ClientMessageThread(c) \/ DoAutomaticDenominating(c)
                            \/ ClientCheckTimeout(c) \/ Drop(c)
    BY <1>3
  <2>2. UNCHANGED <<serverVars, waiting>>
    BY <2>1 DEF ClientMessageThread, ClientRecvPPQUEUE, ClientRecvAccepted, ClientRecvRejected,
                ClientRecvPPFINALTX, ClientRecvPPCOMPLETE, ClientReceives,
                DoAutomaticDenominating, ClientCheckTimeout, Drop
  <2>3. waiting # NoClient => Head(toServer'[waiting]) = Head(toServer[waiting])
    <3>1. CASE Drop(c)
      <4>1. /\ waiting = c => toServer'[waiting] = <<Head(toServer[waiting])>>
            /\ waiting \in Client /\ waiting # c => toServer'[waiting] = toServer[waiting]
        BY <1>0, <3>1 DEF Drop, NetType, Inbox
      <4> QED
        BY <1>0, <4>1
    <3>2. CASE UNCHANGED toServer
      BY <3>2
    <3>3. CASE \E m : SendToServer(c, m)
      BY <1>0, <3>3, SendKeepsHead DEF TypeInv, WaitingIsServed, NetType
    <3> QED
      BY <2>1, <3>1, <3>2, <3>3
         DEF ClientMessageThread, ClientRecvPPQUEUE, SubmitDenominate, SendDenominate,
             ClientRecvAccepted, ClientRecvRejected, ClientRecvPPFINALTX, SignFinalTransaction,
             ClientRecvPPCOMPLETE, DoAutomaticDenominating, ClientCheckTimeout, netVars
  <2> QED
    BY <2>2, <2>3, QuietPool
<1>4. CASE Mine \/ UNCHANGED vars
  BY <1>4, QuietPool DEF Mine, vars, serverVars, netVars
<1> QED
  BY <1>1, <1>2, <1>3, <1>4 DEF Next

\* State, session, collaterals and entries of the pool agree between any two
\* steps of the masternode's threads, for pools of every size.
THEOREM PoolStaysConsistent == Spec => []PoolConsistent
<1>1. Init => PoolInv
  BY PoolAssumption DEF Init, PoolInv, PoolConsistent, WaitingFits
<1>2. Spec => []PoolInv
  BY <1>1, PoolStep, TypeInvariant, PTL DEF Spec
<1> QED
  BY <1>2, PTL DEF PoolInv

-----------------------------------------------------------------------------
(* The clients are consistent *)

\* ClientsConsistent for one client.
ClientConsistent(c) ==
  /\ cState[c] \in {"IDLE", "ERROR"} => cSessionID[c] = 0 /\ cEntries[c] = {}
  /\ cState[c] = "QUEUE" => cEntries[c] = {}
  /\ cState[c] \in {"ACCEPTING_ENTRIES", "SIGNING"} =>
       cSessionID[c] # 0 /\ Cardinality(cEntries[c]) = 1

\* A step of client c leaves the other clients alone.
LEMMA OneClient ==
  ASSUME ClientsConsistent, NEW c \in Client, ClientConsistent(c)',
         \A p \in Client \ {c} : /\ cState'[p] = cState[p] /\ cSessionID'[p] = cSessionID[p]
                                 /\ cEntries'[p] = cEntries[p]
  PROVE  ClientsConsistent'
<1>1. ASSUME NEW p \in Client PROVE ClientConsistent(p)'
  <2>1. CASE p = c
    BY <2>1
  <2>2. CASE p # c
    BY <2>2 DEF ClientsConsistent, ClientConsistent
  <2> QED
    BY <2>1, <2>2
<1> QED
  BY <1>1 DEF ClientsConsistent, ClientConsistent

LEMMA QuietClients ==
  ASSUME ClientsConsistent, UNCHANGED clientVars
  PROVE  ClientsConsistent'
BY DEF ClientsConsistent, clientVars

LEMMA ClientSetNullConsistent ==
  ASSUME TypeOK, ClientsConsistent, NEW c \in Client, NEW st \in {"IDLE", "ERROR"},
         ClientSetNull(c, st)
  PROVE  ClientsConsistent'
<1>1. ClientConsistent(c)'
  BY DEF ClientSetNull, ClientConsistent, TypeOK
<1>2. \A p \in Client \ {c} : /\ cState'[p] = cState[p] /\ cSessionID'[p] = cSessionID[p]
                              /\ cEntries'[p] = cEntries[p]
  BY DEF ClientSetNull, TypeOK
<1> QED
  BY <1>1, <1>2, OneClient

LEMMA SendDenominateConsistent ==
  ASSUME TypeOK, ClientsConsistent, NEW c \in Client, NEW k, SendDenominate(c, k)
  PROVE  ClientsConsistent'
<1>1. CASE ClientSetNull(c, "IDLE")
  BY <1>1, ClientSetNullConsistent
<1>2. CASE /\ cSessionID[c] # 0
           /\ cEntries' = [cEntries EXCEPT ![c] = {NewEntry(c, k)}]
           /\ cState' = [cState EXCEPT ![c] = "ACCEPTING_ENTRIES"]
           /\ UNCHANGED cSessionID
  <2>1. Cardinality({NewEntry(c, k)}) = 1
    BY FS_Singleton
  <2>2. /\ cState'[c] = "ACCEPTING_ENTRIES" /\ cEntries'[c] = {NewEntry(c, k)}
        /\ cSessionID'[c] # 0
    BY <1>2 DEF TypeOK
  <2>3. ClientConsistent(c)'
    BY <2>1, <2>2 DEF ClientConsistent
  <2>4. \A p \in Client \ {c} : /\ cState'[p] = cState[p] /\ cSessionID'[p] = cSessionID[p]
                                /\ cEntries'[p] = cEntries[p]
    BY <1>2 DEF TypeOK
  <2> QED
    BY <2>3, <2>4, OneClient
<1> QED
  BY <1>1, <1>2 DEF SendDenominate

LEMMA SignFinalTransactionConsistent ==
  ASSUME TypeOK, ClientsConsistent, NEW c \in Client, NEW tx, SignFinalTransaction(c, tx)
  PROVE  ClientsConsistent'
<1>1. CASE ClientSetNull(c, "IDLE")
  BY <1>1, ClientSetNullConsistent
<1>2. CASE /\ cEntries[c] # {}
           /\ cState' = [cState EXCEPT ![c] = "SIGNING"]
           /\ UNCHANGED <<cSessionID, cEntries>>
  <2>1. cState[c] \in {"ACCEPTING_ENTRIES", "SIGNING"}
    BY <1>2 DEF ClientsConsistent, TypeOK, Active
  <2>2. cState'[c] = "SIGNING" /\ cSessionID'[c] # 0 /\ Cardinality(cEntries'[c]) = 1
    BY <1>2, <2>1 DEF ClientsConsistent, TypeOK
  <2>3. ClientConsistent(c)'
    BY <2>2 DEF ClientConsistent
  <2>4. \A p \in Client \ {c} : /\ cState'[p] = cState[p] /\ cSessionID'[p] = cSessionID[p]
                                /\ cEntries'[p] = cEntries[p]
    BY <1>2 DEF TypeOK
  <2> QED
    BY <2>3, <2>4, OneClient
<1>3. cEntries[c] \cap tx # {} => cEntries[c] # {}
  OBVIOUS
<1> QED
  BY <1>1, <1>2, <1>3 DEF SignFinalTransaction

LEMMA ClientsStep == TypeOK /\ ClientsConsistent /\ [Next]_vars => ClientsConsistent'
<1> SUFFICES ASSUME TypeOK, ClientsConsistent, [Next]_vars PROVE ClientsConsistent'
  OBVIOUS
<1>1. CASE UNCHANGED clientVars
  BY <1>1, QuietClients
<1>2. CASE \E c \in Client : ClientRecvPPQUEUE(c)
  BY <1>1, <1>2, SendDenominateConsistent DEF ClientRecvPPQUEUE, SubmitDenominate
<1>3. CASE \E c \in Client : ClientRecvAccepted(c)
  <2>1. PICK c \in Client : ClientRecvAccepted(c)
    BY <1>3
  <2>2. CASE cState[c] = "QUEUE" /\ cSessionID[c] = 0
    <3>1. ClientConsistent(c)'
      BY <2>1, <2>2 DEF ClientRecvAccepted, ClientConsistent, ClientsConsistent
    <3>2. \A p \in Client \ {c} : /\ cState'[p] = cState[p] /\ cSessionID'[p] = cSessionID[p]
                                  /\ cEntries'[p] = cEntries[p]
      BY <2>1 DEF ClientRecvAccepted, TypeOK
    <3> QED
      BY <3>1, <3>2, OneClient
  <2>3. CASE ~(cState[c] = "QUEUE" /\ cSessionID[c] = 0)
    BY <2>1, <2>3, QuietClients DEF ClientRecvAccepted, clientVars
  <2> QED
    BY <2>2, <2>3
<1>4. CASE \E c \in Client :
             ClientRecvRejected(c) \/ ClientRecvPPCOMPLETE(c) \/ ClientCheckTimeout(c)
  BY <1>1, <1>4, ClientSetNullConsistent
     DEF ClientRecvRejected, ClientRecvPPCOMPLETE, ClientCheckTimeout
<1>5. CASE \E c \in Client : ClientRecvPPFINALTX(c)
  BY <1>1, <1>5, SignFinalTransactionConsistent DEF ClientRecvPPFINALTX
<1>6. CASE \E c \in Client : DoAutomaticDenominating(c)
  <2>1. PICK c \in Client : DoAutomaticDenominating(c)
    BY <1>6
  <2>2. /\ cState' = [cState EXCEPT ![c] = "QUEUE"] /\ cEntries[c] = {}
        /\ UNCHANGED <<cSessionID, cEntries>>
    BY <2>1 DEF DoAutomaticDenominating
  <2>3. ClientConsistent(c)'
    BY <2>2 DEF ClientConsistent, TypeOK
  <2>4. \A p \in Client \ {c} : /\ cState'[p] = cState[p] /\ cSessionID'[p] = cSessionID[p]
                                /\ cEntries'[p] = cEntries[p]
    BY <2>2 DEF TypeOK
  <2> QED
    BY <2>3, <2>4, OneClient
<1>7. CASE \/ CheckTimeout \/ ChargeFees \/ CheckForCompleteQueue \/ Mine \/ UNCHANGED vars
           \/ \E c \in Client : MessageThread(c) \/ Drop(c)
  <2>1. UNCHANGED clientVars
    BY <1>7 DEF CheckTimeout, ChargeFees, CheckForCompleteQueue, Mine, vars, MessageThread,
                RecvPPACCEPT, AddUserToExistingSession, RecvPPVIN, AddEntry, RecvPPSIGNFINALTX,
                Drop, clientVars
  <2> QED
    BY <2>1, <1>1
<1> QED
  BY <1>2, <1>3, <1>4, <1>5, <1>6, <1>7 DEF Next, ClientMessageThread

\* A client that is not in a session holds no coins and no session identifier, and
\* one that has sent its entry knows the session, whatever messages it receives.
THEOREM ClientsStayConsistent == Spec => []ClientsConsistent
<1>1. Init => ClientsConsistent
  BY DEF Init, ClientsConsistent
<1> QED
  BY <1>1, ClientsStep, TypeCorrect, PTL DEF Spec

=============================================================================
