------------------------------ MODULE PrivatePay ------------------------------
(***************************************************************************)
(* PrivatePay mixing (src/2018/Jiaozi-new/src/privatepay-server.cpp and    *)
(* privatepay-client.cpp): one masternode collects the coins of            *)
(* MaxPoolTransactions users into one transaction, which all of them sign. *)
(*                                                                         *)
(* The masternode runs two threads without a common lock: the message      *)
(* thread handles one message at a time, and a timer thread checks         *)
(* timeouts and complete queues.  A thread is held up only where it waits  *)
(* for cs_main: the message thread while it validates a collateral or an   *)
(* entry ("waiting"), the timer thread while it charges one ("charging").  *)
(* There the steps below end, and the other thread goes on.                *)
(*                                                                         *)
(* Each client has one connection to the masternode, which keeps messages  *)
(* in order until it breaks for good.  Time is not modelled: a timeout may *)
(* fire whenever the code would accept it.                                 *)
(*                                                                         *)
(* Three things are left out.  ChargeRandomFees waits for cs_main once     *)
(* more after the commit (privatepay-server.cpp, l. 478), where a timeout  *)
(* may empty the pool: nobody is told then.  A signature of an input that  *)
(* is signed already still replaces the one in finalMutableTransaction     *)
(* (l. 662-668); the clients here sign once.  And users do not switch      *)
(* mixing off (fEnablePrivatePay): a client that does stops its timer.     *)
(*                                                                         *)
(* An operator whose name extends that of the definition after it is that  *)
(* definition with a plausible bug; no specification uses it.              *)
(***************************************************************************)
EXTENDS Integers, Sequences, FiniteSets, SequencesExt

CONSTANTS
  Client,                \* the users of this masternode
  Coin,                  \* the coins each user has of each denomination
  Denom,                 \* denominations (sets of bits in the code)
  NoDenom,               \* nSessionDenom 0
  NoClient,              \* the message thread is not waiting
  MaxPoolTransactions,   \* chain parameter
  MaxJoins, MaxDrops     \* bounds: PPACCEPTs per client, broken connections

ASSUME PoolAssumption ==
  /\ MaxPoolTransactions \in Nat \ {0, 1}
  /\ MaxJoins \in Nat /\ MaxDrops \in Nat
  /\ NoDenom \notin Denom /\ NoClient \notin Client

VARIABLES
  nState, nSessionID, nSessionDenom,   \* CPrivatePayBase of the server
  vecSessionCollaterals,               \* Seq(Collateral)
  vecEntries,                          \* Seq(Entry)
  scriptSigs,     \* the signatures in vecEntries: [input, tx]
  waiting,        \* the client whose message (the first of its queue) is being validated
  charging,       \* the collateral that ChargeFees is about to charge, or {}
  lastSession,    \* the last session identifier given out
  committed,      \* the mixing transactions accepted by the network
  mined,          \* those that are in a block
  charged,        \* [Client -> how many of its collaterals have been charged]
  cState, cSessionID,   \* CPrivatePayBase of the clients
  cDenom,         \* nSessionDenom of the clients
  cCollateral,    \* txMyCollateral
  cEntries,       \* vecEntries of the clients; their coins are locked in the wallet
  joins,          \* PPACCEPTs sent so far
  connected,      \* the clients whose connection has not broken
  toServer, toClient,   \* [Client -> Seq(message)]
  undisturbed     \* history: no timeout, loss, busy lock, full queue or outdated wallet

serverVars == <<nState, nSessionID, nSessionDenom, vecSessionCollaterals,
                vecEntries, scriptSigs>>
clientVars == <<cState, cSessionID, cDenom, cCollateral, cEntries, joins>>
chainVars == <<committed, mined, charged>>
netVars == <<connected, toServer, toClient>>

vars == <<nState, nSessionID, nSessionDenom, vecSessionCollaterals, vecEntries,
          scriptSigs, waiting, charging, lastSession, committed, mined, charged,
          cState, cSessionID, cDenom, cCollateral, cEntries, joins,
          connected, toServer, toClient, undisturbed>>

-----------------------------------------------------------------------------
(* Values *)

\* A collateral is recreated once it has been charged: the n-th is good until
\* its client has been charged n + 1 times.
Collateral == [client : Client, nth : Nat]

IsCollateralValid(coll) == coll.nth = charged[coll.client]

\* An entry spends one coin to fresh addresses: "join" tells the outputs of
\* different attempts apart.
Entry == [client : Client, denom : Denom, coin : Coin, join : 1 .. MaxJoins, nth : Nat]

Prevout(e) == [client |-> e.client, denom |-> e.denom, coin |-> e.coin]

CollateralOf(e) == [client |-> e.client, nth |-> e.nth]

Active == {"QUEUE", "ACCEPTING_ENTRIES", "SIGNING"}

Ready == [cmd |-> "PPQUEUE"]
Accepted(id) == [cmd |-> "ACCEPTED", id |-> id]
Rejected == [cmd |-> "REJECTED"]
FinalTx(id, tx) == [cmd |-> "PPFINALTX", id |-> id, tx |-> tx]
Complete(id) == [cmd |-> "PPCOMPLETE", id |-> id]

SpentBy(txs, p) == \E tx \in txs : \E e \in tx : Prevout(e) = p

\* The masternode only tries its mixing transactions (dry runs) and never
\* downloads them, since they are in its mapPPTX: it sees what they spend once
\* they are in a block.
Spent(p) == SpentBy(mined, p)

-----------------------------------------------------------------------------
(* The server: messages out *)

IsSessionReady == Len(vecSessionCollaterals) >= MaxPoolTransactions

Push(out, c, m) == IF c \in connected THEN [out EXCEPT ![c] = Append(@, m)] ELSE out

\* One copy of m for each of the entries ents[i], i \in I, to its connected client.
Multicast(out, ents, I, m) ==
  [c \in Client |->
     IF c \in connected
     THEN out[c] \o [k \in 1 .. Cardinality({i \in I : ents[i].client = c}) |-> m]
     ELSE out[c]]

Gone(ents) == {i \in DOMAIN ents : ents[i].client \notin connected}

\* Nobody is left: RelayStatus resets the pool.
AllGone(ents) == ents # <<>> /\ Gone(ents) = DOMAIN ents

Participants(ents) == {ents[i].client : i \in DOMAIN ents} \cap connected

\* After a lost connection everybody else is told to terminate the session.
TerminateIfGone(out, ents) ==
  IF Gone(ents) = {} THEN out ELSE Multicast(out, ents, DOMAIN ents, Rejected)

\* STATUS_ACCEPTED tells the session's identifier to a client in the queue;
\* later it only moves the client's progress display, and is left out.
PushAccepted(out, c) == IF nState = "QUEUE" THEN Push(out, c, Accepted(nSessionID)) ELSE out

RelayAccepted(out, ents) ==
  TerminateIfGone(IF nState = "QUEUE"
                  THEN Multicast(out, ents, DOMAIN ents, Accepted(nSessionID))
                  ELSE out, ents)

RelayRejected(out, ents) ==
  TerminateIfGone(Multicast(out, ents, DOMAIN ents, Rejected), ents)

\* The entries served before the first lost connection.
Served(ents) == {i \in DOMAIN ents : \A j \in 1 .. i : j \notin Gone(ents)}

\* RelayFinalTransaction and RelayCompletedTransaction stop at the first lost
\* connection and reject the session.
RelayToAll(out, ents, m) ==
  LET told == Multicast(out, ents, Served(ents), m)
  IN IF Gone(ents) = {} THEN told ELSE RelayRejected(told, ents)

-----------------------------------------------------------------------------
(* The server: message thread *)

ClearSessionButCollaterals ==
  /\ nSessionID' = 0 /\ nSessionDenom' = NoDenom
  /\ vecEntries' = <<>> /\ scriptSigs' = {}
  /\ UNCHANGED vecSessionCollaterals

ClearSessionButID ==
  /\ nSessionDenom' = NoDenom /\ vecSessionCollaterals' = <<>>
  /\ vecEntries' = <<>> /\ scriptSigs' = {}
  /\ UNCHANGED nSessionID

ClearSession ==
  /\ nSessionID' = 0 /\ nSessionDenom' = NoDenom
  /\ vecSessionCollaterals' = <<>> /\ vecEntries' = <<>>
  /\ scriptSigs' = {}

SetNull == nState' = "IDLE" /\ ClearSession

\* The message thread takes the next message of c, with the given command.
Receives(c, cmd) == waiting = NoClient /\ toServer[c] # <<>> /\ Head(toServer[c]).cmd = cmd

\* It goes on with the message of c that it had begun with.
Resumes(c, cmd) == waiting = c /\ Head(toServer[c]).cmd = cmd

\* The handler ends.
Done(c) == waiting' = NoClient /\ toServer' = [toServer EXCEPT ![c] = Tail(@)]

Reject(c) ==
  /\ toClient' = Push(toClient, c, Rejected)
  /\ Done(c)
  /\ UNCHANGED <<serverVars, lastSession, undisturbed>>

CreateNewSession(c) ==
  LET m == Head(toServer[c])
  IN IF nState = "IDLE" /\ IsCollateralValid(m.collateral)
     THEN /\ nState' = "QUEUE"
          /\ nSessionID' = lastSession + 1 /\ lastSession' = lastSession + 1
          /\ nSessionDenom' = m.denom
          /\ vecSessionCollaterals' = Append(vecSessionCollaterals, m.collateral)
          /\ toClient' = Push(toClient, c, Accepted(lastSession + 1))
          /\ Done(c)
          /\ UNCHANGED <<vecEntries, scriptSigs, undisturbed>>
     ELSE Reject(c)

\* PPACCEPT: a full queue is answered with STATUS_ACCEPTED and the session's
\* identifier; an empty one may be refused because the masternode has just mixed.
RecvPPACCEPT(c) ==
  /\ Receives(c, "PPACCEPT")
  /\ \/ /\ IsSessionReady
        /\ toClient' = PushAccepted(toClient, c)
        /\ undisturbed' = FALSE
        /\ Done(c)
        /\ UNCHANGED <<serverVars, lastSession>>
     \/ vecSessionCollaterals = <<>> /\ Reject(c)
     \/ ~IsSessionReady /\ nSessionID = 0 /\ CreateNewSession(c)
     \/ /\ ~IsSessionReady /\ nSessionID # 0
        /\ waiting' = c
        /\ UNCHANGED <<serverVars, lastSession, undisturbed, toServer, toClient>>
  /\ UNCHANGED <<charging, chainVars, clientVars, connected>>

AddUserToExistingSession(c) ==
  LET m == Head(toServer[c])
  IN /\ Resumes(c, "PPACCEPT")
     /\ IF IsCollateralValid(m.collateral) /\ nState = "QUEUE" /\ m.denom = nSessionDenom
        THEN /\ vecSessionCollaterals' = Append(vecSessionCollaterals, m.collateral)
             /\ toClient' = PushAccepted(toClient, c)
             /\ Done(c)
             /\ UNCHANGED <<nState, nSessionID, nSessionDenom, vecEntries, scriptSigs,
                            lastSession, undisturbed>>
        ELSE Reject(c)
     /\ UNCHANGED <<charging, chainVars, clientVars, connected>>

\* IsOutputsCompatibleWithSessionDenom compares with the entries, not with nSessionDenom.
Compatible(e) == \A i \in DOMAIN vecEntries : vecEntries[i].denom = e.denom

RecvPPVIN(c) ==
  /\ Receives(c, "PPVIN")
  /\ IF IsSessionReady /\ Compatible(Head(toServer[c]).entry)
     THEN /\ waiting' = c
          /\ UNCHANGED <<serverVars, lastSession, undisturbed, toServer, toClient>>
     ELSE Reject(c)
  /\ UNCHANGED <<charging, chainVars, clientVars, connected>>

CanAddEntry(e) ==
  /\ IsCollateralValid(CollateralOf(e))
  /\ Len(vecEntries) < MaxPoolTransactions
  /\ \A i \in DOMAIN vecEntries : Prevout(vecEntries[i]) # Prevout(e)

IsSignaturesComplete(ents, sigs) ==
  \A i \in DOMAIN ents : \E s \in sigs : s.input = Prevout(ents[i])

\* A pool that RelayStatus has emptied goes to SIGNING all the same. After
\* PPVIN ("relay") the status is relayed once more.
CreateFinalTransaction(ents, sigs, relay) ==
  LET told == RelayToAll(toClient, ents, FinalTx(nSessionID, ToSet(ents)))
  IN /\ nState' = "SIGNING"
     /\ IF AllGone(ents)
        THEN ClearSession /\ toClient' = told
        ELSE /\ vecEntries' = ents /\ scriptSigs' = sigs
             /\ toClient' = IF relay THEN TerminateIfGone(told, ents) ELSE told
             /\ UNCHANGED <<nSessionID, nSessionDenom, vecSessionCollaterals>>
     /\ UNCHANGED <<chainVars, undisturbed>>

\* The dry run of AcceptToMemoryPool ends before CheckInputs: no signature is verified.
IsFinalValid(ents) == \A i \in DOMAIN ents : ~Spent(Prevout(ents[i]))

\* The network takes a transaction whose inputs are unspent and signed for it.
NetworkAccepts(ents, sigs) ==
  \A i \in DOMAIN ents : /\ ~SpentBy(committed, Prevout(ents[i]))
                         /\ [input |-> Prevout(ents[i]), tx |-> ToSet(ents)] \in sigs

\* The collaterals in S are charged, as far as they are still good.
Charge(S) ==
  charged' = [c \in Client |->
    IF \E x \in S : x.client = c /\ IsCollateralValid(x) THEN charged[c] + 1 ELSE charged[c]]

\* ChargeRandomFees goes through the collaterals and ends at the first it spares.
ChargeRandomFees(ents) ==
  \E n \in 0 .. (IF AllGone(ents) THEN 0 ELSE Len(vecSessionCollaterals)) :
    Charge({vecSessionCollaterals[i] : i \in 1 .. n})

\* On failure the pool is emptied first, so that nobody is left to notify.
CommitFinalTransaction(ents, sigs) ==
  /\ SetNull
  /\ \/ /\ IsFinalValid(ents)
        /\ committed' = IF NetworkAccepts(ents, sigs) THEN committed \cup {ToSet(ents)}
                                                     ELSE committed
        /\ toClient' = RelayToAll(toClient, ents, Complete(nSessionID))
        /\ ChargeRandomFees(ents)
        /\ UNCHANGED <<mined, undisturbed>>
     \/ /\ undisturbed' = (undisturbed /\ ~IsFinalValid(ents))   \* cs_main is busy
        /\ UNCHANGED <<chainVars, toClient>>

EntriesFullEarly(ents) == nState = "ACCEPTING_ENTRIES" /\ Len(ents) >= MaxPoolTransactions - 1
EntriesFullNever(ents) == nState = "ACCEPTING_ENTRIES" /\ Len(ents) > MaxPoolTransactions

EntriesFull(ents) == nState = "ACCEPTING_ENTRIES" /\ Len(ents) >= MaxPoolTransactions

\* The entries are full, the signatures complete, or neither.
CheckPool(ents, sigs, relay) ==
  \/ EntriesFull(ents) /\ CreateFinalTransaction(ents, sigs, relay)
  \/ /\ nState = "SIGNING" /\ IsSignaturesComplete(ents, sigs)
     /\ CommitFinalTransaction(ents, sigs)
  \/ /\ ~EntriesFull(ents)
     /\ ~(nState = "SIGNING" /\ IsSignaturesComplete(ents, sigs))
     /\ IF relay /\ AllGone(ents)
        THEN SetNull /\ UNCHANGED toClient
        ELSE /\ vecEntries' = ents /\ scriptSigs' = sigs
             /\ toClient' = IF relay THEN RelayAccepted(toClient, ents) ELSE toClient
             /\ UNCHANGED <<nState, nSessionID, nSessionDenom, vecSessionCollaterals>>
     /\ UNCHANGED <<chainVars, undisturbed>>

\* The rest of PPVIN: the transaction check, AddEntry, CheckPool, RelayStatus.
AddEntry(c) ==
  LET e == Head(toServer[c]).entry
  IN /\ Resumes(c, "PPVIN")
     /\ \/ Spent(Prevout(e)) /\ Reject(c) /\ UNCHANGED chainVars
        \/ /\ ~Spent(Prevout(e)) /\ ~CanAddEntry(e)
           /\ toClient' = Push(toClient, c, Rejected)
           /\ SetNull /\ Done(c)
           /\ UNCHANGED <<chainVars, lastSession, undisturbed>>
        \/ /\ ~Spent(Prevout(e)) /\ CanAddEntry(e)
           /\ CheckPool(Append(vecEntries, e), scriptSigs, TRUE)
           /\ Done(c)
           /\ UNCHANGED lastSession
     /\ UNCHANGED <<charging, clientVars, connected>>

\* AddScriptSig finds an entry with the input, which is still unsigned.
CanAddScriptSig(sig) ==
  /\ \E i \in DOMAIN vecEntries : Prevout(vecEntries[i]) = sig.input
  /\ \A s \in scriptSigs : s.input # sig.input

RecvPPSIGNFINALTX(c) ==
  LET sig == Head(toServer[c]).sig
  IN /\ Receives(c, "PPSIGNFINALTX")
     /\ IF CanAddScriptSig(sig)
        THEN CheckPool(vecEntries, scriptSigs \cup {sig}, FALSE)
        ELSE /\ toClient' = RelayRejected(toClient, vecEntries)
             /\ IF AllGone(vecEntries)
                THEN SetNull
                ELSE UNCHANGED serverVars
             /\ UNCHANGED <<chainVars, undisturbed>>
     /\ Done(c)
     /\ UNCHANGED <<lastSession, charging, clientVars, connected>>

-----------------------------------------------------------------------------
(* The server: timer thread *)

\* Who promised an entry and sent none, or sent one and did not sign: indices
\* into vecSessionCollaterals or vecEntries.
Offences ==
  CASE nState = "ACCEPTING_ENTRIES" ->
         {i \in DOMAIN vecSessionCollaterals : \A j \in DOMAIN vecEntries :
            CollateralOf(vecEntries[j]) # vecSessionCollaterals[i]}
    [] nState = "SIGNING" ->
         {i \in DOMAIN vecEntries : \A s \in scriptSigs : s.input # Prevout(vecEntries[i])}
    [] OTHER -> {}

Offender(i) == IF nState = "SIGNING" THEN CollateralOf(vecEntries[i])
                                     ELSE vecSessionCollaterals[i]

CheckTimeoutToError ==
  /\ nState # "IDLE" /\ charging = {}
  /\ nState' = "ERROR" /\ ClearSession
  /\ undisturbed' = FALSE
  /\ UNCHANGED <<waiting, charging, lastSession, chainVars, clientVars, netVars>>

CheckTimeoutOfQueue ==
  /\ nState = "QUEUE" /\ SetNull
  /\ undisturbed' = FALSE
  /\ UNCHANGED <<waiting, charging, lastSession, chainVars, clientVars, netVars>>

\* ChargeFees may spare everybody; it does so when everybody offends.
CheckTimeout ==
  /\ nState # "IDLE" /\ charging = {}
  /\ undisturbed' = FALSE
  /\ \/ SetNull /\ UNCHANGED charging
     \/ /\ Cardinality(Offences) < MaxPoolTransactions
        /\ \E i \in Offences : charging' = {Offender(i)}
        /\ UNCHANGED serverVars
  /\ UNCHANGED <<waiting, lastSession, chainVars, clientVars, netVars>>

\* The rest of CheckTimeout, once ChargeFees has got cs_main.
ChargeFees ==
  /\ charging # {}
  /\ Charge(charging)
  /\ charging' = {}
  /\ SetNull
  /\ UNCHANGED <<waiting, lastSession, committed, mined, clientVars, netVars, undisturbed>>

\* The "ready" queue object goes to every peer.
CheckForCompleteQueue ==
  /\ nState = "QUEUE" /\ IsSessionReady /\ charging = {}
  /\ nState' = "ACCEPTING_ENTRIES"
  /\ toClient' = [c \in Client |-> IF c \in connected THEN Append(toClient[c], Ready)
                                                     ELSE toClient[c]]
  /\ UNCHANGED <<nSessionID, nSessionDenom, vecSessionCollaterals, vecEntries, scriptSigs,
                 waiting, charging, lastSession, chainVars, clientVars,
                 connected, toServer, undisturbed>>

-----------------------------------------------------------------------------
(* The clients *)

\* UnlockCoins and SetNull, which the client always calls together.
ClientSetNull(c, st) ==
  /\ cState' = [cState EXCEPT ![c] = st]
  /\ cSessionID' = [cSessionID EXCEPT ![c] = 0]
  /\ cDenom' = [cDenom EXCEPT ![c] = NoDenom]
  /\ cEntries' = [cEntries EXCEPT ![c] = {}]
  /\ UNCHANGED <<cCollateral, joins>>

SendToServer(c, m) ==
  toServer' = IF c \in connected THEN [toServer EXCEPT ![c] = Append(@, m)] ELSE toServer

\* The coins that txs leave; a wallet knows of what is in a block, at least.
Unspent(c, d, txs) == {k \in Coin : ~SpentBy(txs, [client |-> c, denom |-> d, coin |-> k])}

\* JoinExistingQueue or StartNewQueue with this masternode, for any denomination
\* of which the wallet has a coin; a collateral known to be charged is replaced.
DoAutomaticDenominating(c) ==
  /\ cState[c] = "IDLE" /\ cSessionID[c] = 0 /\ cEntries[c] = {}
  /\ c \in connected /\ joins[c] < MaxJoins
  /\ \E d \in Denom, n \in {cCollateral[c], charged[c]} :
       /\ Unspent(c, d, mined) # {}
       /\ cState' = [cState EXCEPT ![c] = "QUEUE"]
       /\ cDenom' = [cDenom EXCEPT ![c] = d]
       /\ cCollateral' = [cCollateral EXCEPT ![c] = n]
       /\ joins' = [joins EXCEPT ![c] = @ + 1]
       /\ SendToServer(c, [cmd |-> "PPACCEPT", denom |-> d,
                           collateral |-> [client |-> c, nth |-> n]])
       /\ undisturbed' = (undisturbed /\ n = charged[c])
  /\ UNCHANGED <<serverVars, waiting, charging, lastSession, chainVars, cSessionID,
                 cEntries, connected, toClient>>

\* The client's message thread takes the next message, with the given command.
ClientReceives(c, cmd) ==
  /\ toClient[c] # <<>> /\ Head(toClient[c]).cmd = cmd
  /\ toClient' = [toClient EXCEPT ![c] = Tail(@)]
  /\ UNCHANGED <<serverVars, waiting, charging, lastSession, chainVars, connected>>

NewEntry(c, k) ==
  [client |-> c, denom |-> cDenom[c], coin |-> k, join |-> joins[c], nth |-> cCollateral[c]]

SendDenominateAnyway(c, k) ==
  /\ cEntries' = [cEntries EXCEPT ![c] = {NewEntry(c, k)}]
  /\ cState' = [cState EXCEPT ![c] = "ACCEPTING_ENTRIES"]
  /\ SendToServer(c, [cmd |-> "PPVIN", entry |-> NewEntry(c, k)])
  /\ UNCHANGED <<cSessionID, cDenom, cCollateral, joins, undisturbed>>

\* Without a session, or when cs_main is busy, the client gives up.
SendDenominate(c, k) ==
  \/ /\ ClientSetNull(c, "IDLE")
     /\ undisturbed' = (undisturbed /\ cSessionID[c] = 0)
     /\ UNCHANGED toServer
  \/ /\ cSessionID[c] # 0
     /\ cEntries' = [cEntries EXCEPT ![c] = {NewEntry(c, k)}]
     /\ cState' = [cState EXCEPT ![c] = "ACCEPTING_ENTRIES"]
     /\ SendToServer(c, [cmd |-> "PPVIN", entry |-> NewEntry(c, k)])
     /\ undisturbed' = (undisturbed /\ k \in Unspent(c, cDenom[c], committed))
     /\ UNCHANGED <<cSessionID, cDenom, cCollateral, joins>>

\* Without a coin nothing happens.
SubmitDenominate(c) ==
  \/ /\ Unspent(c, cDenom[c], committed) = {}
     /\ UNCHANGED <<clientVars, toServer, undisturbed>>
  \/ \E k \in Unspent(c, cDenom[c], mined) : SendDenominate(c, k)

\* PPQUEUE (ready) is dropped while another thread of the client holds cs_privatepay.
ClientRecvPPQUEUE(c) ==
  /\ ClientReceives(c, "PPQUEUE")
  /\ \/ cState[c] = "QUEUE" /\ SubmitDenominate(c)
     \/ /\ undisturbed' = (undisturbed /\ cState[c] # "QUEUE")
        /\ UNCHANGED <<clientVars, toServer>>

\* CheckPoolStateUpdate with STATUS_ACCEPTED in POOL_STATE_QUEUE.
ClientRecvAccepted(c) ==
  /\ ClientReceives(c, "ACCEPTED")
  /\ cSessionID' = IF cState[c] = "QUEUE" /\ cSessionID[c] = 0
                   THEN [cSessionID EXCEPT ![c] = Head(toClient[c]).id] ELSE cSessionID
  /\ UNCHANGED <<cState, cDenom, cCollateral, cEntries, joins, toServer, undisturbed>>

\* CheckPoolStateUpdate with STATUS_REJECTED.
ClientRecvRejected(c) ==
  /\ ClientReceives(c, "REJECTED")
  /\ IF cState[c] \in Active THEN ClientSetNull(c, "ERROR") ELSE UNCHANGED clientVars
  /\ UNCHANGED <<toServer, undisturbed>>

\* A client that is not mixing has no masternode (infoMixingMasternode) and no session.
InSession(c, id) == cState[c] \in Active /\ cSessionID[c] = id

SignFinalTransactionUnseen(c, tx) ==
  IF \E e \in cEntries[c], f \in tx : Prevout(e) = Prevout(f)
  THEN /\ cState' = [cState EXCEPT ![c] = "SIGNING"]
       /\ \E e \in cEntries[c] :
            SendToServer(c, [cmd |-> "PPSIGNFINALTX", sig |-> [input |-> Prevout(e), tx |-> tx]])
       /\ UNCHANGED <<cSessionID, cDenom, cCollateral, cEntries, joins>>
  ELSE ClientSetNull(c, "IDLE") /\ UNCHANGED toServer

\* SignFinalTransaction: sign the own entries that are in it, with all their
\* outputs; if there are none, give up.
SignFinalTransaction(c, tx) ==
  IF cEntries[c] \cap tx # {}
  THEN /\ cState' = [cState EXCEPT ![c] = "SIGNING"]
       /\ \E e \in cEntries[c] \cap tx :
            SendToServer(c, [cmd |-> "PPSIGNFINALTX", sig |-> [input |-> Prevout(e), tx |-> tx]])
       /\ UNCHANGED <<cSessionID, cDenom, cCollateral, cEntries, joins>>
  ELSE ClientSetNull(c, "IDLE") /\ UNCHANGED toServer

ClientRecvPPFINALTX(c) ==
  /\ ClientReceives(c, "PPFINALTX")
  /\ IF InSession(c, Head(toClient[c]).id)
     THEN SignFinalTransaction(c, Head(toClient[c]).tx)
     ELSE UNCHANGED <<clientVars, toServer>>
  /\ UNCHANGED undisturbed

ClientRecvPPCOMPLETE(c) ==
  /\ ClientReceives(c, "PPCOMPLETE")
  /\ IF InSession(c, Head(toClient[c]).id) THEN ClientSetNull(c, "IDLE")
                                           ELSE UNCHANGED clientVars
  /\ UNCHANGED <<toServer, undisturbed>>

ClientCheckTimeoutOnce(c) ==
  /\ cState[c] \in Active
  /\ ClientSetNull(c, "ERROR")
  /\ undisturbed' = FALSE
  /\ UNCHANGED <<serverVars, waiting, charging, lastSession, chainVars, netVars>>

\* An error is shown for a while (CheckPool); a hanging session becomes an error.
ClientCheckTimeout(c) ==
  /\ cState[c] # "IDLE"
  /\ ClientSetNull(c, IF cState[c] = "ERROR" THEN "IDLE" ELSE "ERROR")
  /\ undisturbed' = (undisturbed /\ cState[c] = "ERROR")
  /\ UNCHANGED <<serverVars, waiting, charging, lastSession, chainVars, netVars>>

\* The connection of c breaks: what is under way is lost, except a message that
\* the server is already handling.
Drop(c) ==
  /\ c \in connected /\ Cardinality(Client \ connected) < MaxDrops
  /\ connected' = connected \ {c}
  /\ toServer' = [toServer EXCEPT ![c] = IF waiting = c THEN <<Head(@)>> ELSE <<>>]
  /\ toClient' = [toClient EXCEPT ![c] = <<>>]
  /\ undisturbed' = FALSE
  /\ UNCHANGED <<serverVars, waiting, charging, lastSession, chainVars, clientVars>>

\* A block with everything that waits for one; it reaches all nodes at once.
Mine ==
  /\ mined # committed /\ mined' = committed
  /\ UNCHANGED <<serverVars, waiting, charging, lastSession, committed, charged,
                 clientVars, netVars, undisturbed>>

-----------------------------------------------------------------------------
Init ==
  /\ nState = "IDLE" /\ nSessionID = 0 /\ nSessionDenom = NoDenom
  /\ vecSessionCollaterals = <<>> /\ vecEntries = <<>> /\ scriptSigs = {}
  /\ waiting = NoClient /\ charging = {} /\ lastSession = 0
  /\ committed = {} /\ mined = {} /\ charged = [c \in Client |-> 0]
  /\ cState = [c \in Client |-> "IDLE"]
  /\ cSessionID = [c \in Client |-> 0]
  /\ cDenom = [c \in Client |-> NoDenom]
  /\ cCollateral = [c \in Client |-> 0]
  /\ cEntries = [c \in Client |-> {}]
  /\ joins = [c \in Client |-> 0]
  /\ connected = Client
  /\ toServer = [c \in Client |-> <<>>]
  /\ toClient = [c \in Client |-> <<>>]
  /\ undisturbed = TRUE

MessageThread(c) ==
  \/ RecvPPACCEPT(c) \/ AddUserToExistingSession(c)
  \/ RecvPPVIN(c) \/ AddEntry(c)
  \/ RecvPPSIGNFINALTX(c)

ClientMessageThread(c) ==
  \/ ClientRecvPPQUEUE(c) \/ ClientRecvAccepted(c) \/ ClientRecvRejected(c)
  \/ ClientRecvPPFINALTX(c) \/ ClientRecvPPCOMPLETE(c)

Next ==
  \/ CheckTimeout \/ ChargeFees \/ CheckForCompleteQueue \/ Mine
  \/ \E c \in Client :
       \/ MessageThread(c) \/ ClientMessageThread(c)
       \/ DoAutomaticDenominating(c) \/ ClientCheckTimeout(c) \/ Drop(c)

Spec == Init /\ [][Next]_vars

-----------------------------------------------------------------------------
(* Correctness *)

Message ==
  [cmd : {"PPQUEUE", "REJECTED"}] \cup [cmd : {"ACCEPTED", "PPCOMPLETE"}, id : Nat]
    \cup [cmd : {"PPFINALTX"}, id : Nat, tx : SUBSET Entry]

Signature == [input : [client : Client, denom : Denom, coin : Coin], tx : SUBSET Entry]

Request ==
  [cmd : {"PPACCEPT"}, denom : Denom, collateral : Collateral]
    \cup [cmd : {"PPVIN"}, entry : Entry] \cup [cmd : {"PPSIGNFINALTX"}, sig : Signature]

\* Every variable has its type.
TypeOK ==
  /\ nState \in Active \cup {"IDLE"}
  /\ nSessionID \in Nat /\ lastSession \in Nat
  /\ nSessionDenom \in Denom \cup {NoDenom}
  /\ vecSessionCollaterals \in Seq(Collateral)
  /\ vecEntries \in Seq(Entry)
  /\ scriptSigs \subseteq Signature
  /\ waiting \in Client \cup {NoClient}
  /\ charging \subseteq Collateral
  /\ committed \subseteq SUBSET Entry /\ mined \subseteq committed
  /\ charged \in [Client -> Nat]
  /\ cState \in [Client -> Active \cup {"IDLE", "ERROR"}]
  /\ cSessionID \in [Client -> Nat]
  /\ cDenom \in [Client -> Denom \cup {NoDenom}]
  /\ cCollateral \in [Client -> Nat]
  /\ cEntries \in [Client -> SUBSET Entry]
  /\ joins \in [Client -> 0 .. MaxJoins]
  /\ connected \subseteq Client
  /\ toServer \in [Client -> Seq(Request)]
  /\ toClient \in [Client -> Seq(Message)]
  /\ undisturbed \in BOOLEAN

\* The state of the pool agrees with its session, collaterals and entries,
\* whatever the two threads do between each other's steps: nSessionID != 0 just
\* while a session is on, the pool never overflows, only a full session
\* finalises, and an entry that arrives while its session times out is the only
\* one a pool can carry over (PPVIN, CheckPool, CheckTimeout, SetNull).
PoolConsistent ==
  /\ Len(vecEntries) <= MaxPoolTransactions
  /\ Len(vecSessionCollaterals) <= MaxPoolTransactions
  /\ nState = "IDLE" => /\ nSessionID = 0 /\ vecSessionCollaterals = <<>>
                        /\ Len(vecEntries) <= 1
  /\ nState = "QUEUE" => nSessionID # 0 /\ vecSessionCollaterals # <<>>
  /\ nState = "ACCEPTING_ENTRIES" => nSessionID # 0 /\ IsSessionReady
  /\ nState = "SIGNING" =>
       \/ /\ nSessionID # 0 /\ IsSessionReady
          /\ Len(vecEntries) = MaxPoolTransactions
       \/ nSessionID = 0 /\ vecSessionCollaterals = <<>> /\ vecEntries = <<>>

\* A mixing transaction hides its users among MaxPoolTransactions different
\* ones, although late, repeated and left-over entries get into the pool
\* (AddEntry, AddScriptSig, SignFinalTransaction).
MixesDifferentClients ==
  \A tx \in committed : Cardinality({e.client : e \in tx}) = MaxPoolTransactions

\* While a client waits for the outcome of the session it has signed for, and the
\* masternode is still in that session, it is in the signing state and holds the
\* client's entry: a client cannot be bound to a transaction the server forgot
\* (CreateFinalTransaction, SetNull, SignFinalTransaction).
SignersAreInThePool ==
  \A c \in Client :
    cState[c] = "SIGNING" /\ cSessionID[c] = nSessionID =>
      nState = "SIGNING" /\ cEntries[c] \subseteq ToSet(vecEntries)

\* The masternode's own checks do not look at signatures: prevPubKey is not part of
\* a message, and its dry runs end before the scripts. Yet what it collects is signed
\* for the very transaction it is going to commit, whatever late and repeated
\* messages there are (AddScriptSig, AddEntry, SignFinalTransaction, SetNull).
SignaturesFit == \A s \in scriptSigs : s.tx = ToSet(vecEntries)

\* A client holds coins only in a session; its own state never blocks it from
\* mixing again (the guards on nSessionID and GetEntriesCount).
ClientsConsistent ==
  \A c \in Client :
    /\ cState[c] \in {"IDLE", "ERROR"} => cSessionID[c] = 0 /\ cEntries[c] = {}
    /\ cState[c] = "QUEUE" => cEntries[c] = {}
    /\ cState[c] \in {"ACCEPTING_ENTRIES", "SIGNING"} =>
         cSessionID[c] # 0 /\ Cardinality(cEntries[c]) = 1

\* PPACCEPT, "too many users in this session already, reject new ones": who has an
\* entry in the transaction that is being signed has joined its session.
OnlyParticipantsMix ==
  nState = "SIGNING" => \A i \in DOMAIN vecEntries :
                          CollateralOf(vecEntries[i]) \in ToSet(vecSessionCollaterals)

-----------------------------------------------------------------------------
(* Refinement *)

\* The signatures that are collected, or on their way to the masternode.
Agreed ==
  scriptSigs \cup UNION {{m.sig : m \in {x \in ToSet(toServer[c]) : x.cmd = "PPSIGNFINALTX"}}
                         : c \in Client}

Crowds == {S \in SUBSET Client : Cardinality(S) = MaxPoolTransactions}

Promised == INSTANCE Mixing WITH Crowd <- Crowds, offered <- cEntries, agreed <- Agreed,
                                 mixes <- committed

\* Whatever is late, lost, repeated or left over from another session, the clients
\* and the masternode together behave as Mixing promises: a coin is spent only by a
\* transaction that its owner has signed after it found its own entry in it, and
\* that everybody in it, MaxPoolTransactions different users, has signed too
\* (SignFinalTransaction, AddScriptSig, CheckPool, CommitFinalTransaction).
ImplementsMixing == Promised!Spec

-----------------------------------------------------------------------------
(* What the comments say and the code does not do *)

\* CommitFinalTransaction, "just notify clients": when the final transaction is
\* refused, every connected participant hears of it.
FailedCommitNotified ==
  [][(\E c \in Client : RecvPPSIGNFINALTX(c)) /\ nState = "SIGNING" /\ nState' = "IDLE"
     => \A c \in Participants(vecEntries) : toClient'[c] # toClient[c]]_vars
=============================================================================
