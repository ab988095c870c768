--------------------------- MODULE NonceLifecycle ---------------------------
(***************************************************************************)
(* The life of a nonce across the whole bot: the executions of              *)
(* bot/executor.js that reserve, broadcast, commit and roll back; reap()    *)
(* running beside them; the chain and the private relay; the process, which *)
(* may crash at any step and recover from the journal (bot/index.js); and   *)
(* the reconnection that replaces the manager.                              *)
(*                                                                          *)
(* A step of an execution is the code between two awaits, cut further where *)
(* a crash between a journal write and the next statement matters.          *)
(*                                                                          *)
(* Environment: what the node and the relay report as refused is refused,   *)
(* and evidence of a drop is true.  A sent transaction counts as able to    *)
(* execute from the moment its bytes leave, whatever answer comes back.     *)
(***************************************************************************)
EXTENDS NonceManager

CONSTANTS
    Executors,              \* executions in flight at the same time
    Relay,                  \* bloxroute.isAvailable() may be true
    ReconnectInitMayFail,   \* init() of a reconnection may throw
    MaxRestarts             \* BOUND: crashes and reconnections

ASSUME RestartBound == MaxRestarts \in Nat
ASSUME Switches == Relay \in BOOLEAN /\ ReconnectInitMayFail \in BOOLEAN

VARIABLES
    pc,          \* executor -> idle | reserved | approved | private |
                 \*             fallback | public
    held,        \* executor -> the nonce it is executing with (0 when idle)
    sending,     \* executor -> hash of the transaction it is sending
    process,     \* down | recovering | up
    unrecovered, \* records recover() has yet to look at
    reaping,     \* reap() is running
    reapTodo,    \* <<nonce, hash>> slots this reap() has yet to look at
    atRisk,      \* nonce -> hashes that were sent and may execute or did
    used,        \* nonce -> hashes ever signed with it
    mined,       \* nonce -> hash that consumed it on chain, or NoHash
    restarts     \* crashes and reconnections so far

executorVars == <<pc, held, sending>>
processVars == <<process, unrecovered, restarts>>
reapVars == <<reaping, reapTodo>>
chainVars == <<atRisk, used, mined>>
vars == <<nonceVars, executorVars, processVars, reapVars, chainVars>>

\* What getNonce("pending") may answer: never past the transactions of this
\* wallet that exist, possibly behind them (a lagging node, a private relay).
PendingAnswers ==
    {v \in NextRange : \A n \in Nonces : n < v => atRisk[n] # {}}

\* Transaction `hash` of nonce n can no longer execute.
Dead(n, hash) == hash \notin atRisk[n]

\* A tracker record DROPPED with true evidence, for releaseDropped().
DropProof(n) == /\ mined[n] = NoHash
                /\ IF pending[n] = NoHash THEN atRisk[n] = {}
                                          ELSE Dead(n, pending[n])

Running == process = "up"

-----------------------------------------------------------------------------
(* executor.js: one execution                                               *)

\* executeOpp() up to reserve(): requote, economics, simulation, gas and content
\* approval may end the execution, and change nothing.  reserve() grants a
\* nonce, or throws after taking it and the execution ends with the nonce left
\* in `reserved`.  A null (saturation) changes nothing.
ReserveNonce(e) ==
    /\ Running /\ pc[e] = "idle"
    /\ \E n \in Nonces, v \in PendingAnswers, ok \in BOOLEAN :
          /\ Reserve(n, v, ok)
          /\ IF Granted(n, ok)
             THEN /\ pc' = [pc EXCEPT ![e] = "reserved"]
                  /\ held' = [held EXCEPT ![e] = n]
             ELSE UNCHANGED <<pc, held>>
    /\ UNCHANGED <<sending, processVars, reapVars, chainVars>>

\* The execution returns.
Finish(e) ==
    /\ pc' = [pc EXCEPT ![e] = "idle"]
    /\ held' = [held EXCEPT ![e] = 0]
    /\ sending' = [sending EXCEPT ![e] = NoHash]

\* approveTx, verifyContent, tracker.create, verifyTrackerRecord or the
\* re-approval of the public fallback refuse before anything was sent.
GiveUp(e) ==
    /\ Running /\ pc[e] \in {"reserved", "approved", "fallback"}
    /\ \E ok \in BOOLEAN : Rollback(held[e], ok)
    /\ Finish(e)
    /\ UNCHANGED <<processVars, reapVars, chainVars>>

\* The identity is approved and journalled; a failed write is only logged.
Approve(e) ==
    /\ Running /\ pc[e] = "reserved"
    /\ \E ok \in BOOLEAN : MarkApproved(held[e], ok)
    /\ pc' = [pc EXCEPT ![e] = "approved"]
    /\ UNCHANGED <<held, sending, processVars, reapVars, chainVars>>

\* sendPrivateTx or sendTransaction: signed and sent under a fresh hash.
Send(e, channel) ==
    LET n == held[e] IN
    /\ Running
    /\ IF channel = "private" THEN Relay /\ pc[e] = "approved"
                              ELSE pc[e] \in {"approved", "fallback"}
    /\ \E hash \in Hashes \ used[n] :
          /\ atRisk' = [atRisk EXCEPT ![n] = @ \cup {hash}]
          /\ used' = [used EXCEPT ![n] = @ \cup {hash}]
          /\ sending' = [sending EXCEPT ![e] = hash]
    /\ pc' = [pc EXCEPT ![e] = channel]
    /\ UNCHANGED <<nonceVars, held, processVars, reapVars, mined>>

\* signTransaction throws inside sendPrivateTx: the error leaves executeOpp
\* and the nonce stays in `reserved`.
SignFails(e) ==
    /\ Running /\ pc[e] = "approved" /\ Relay
    /\ Finish(e)
    /\ UNCHANGED <<nonceVars, processVars, reapVars, chainVars>>

\* Accepted under a usable hash, or (NoHash) accepted without one, unknown,
\* timed out or ambiguous: the slot is committed, as a tombstone if need be.
\* When commit() throws the execution ends the same way, never rolled back.
Accepted(e, channel) ==
    /\ Running /\ pc[e] = channel
    /\ \E hash \in {sending[e], NoHash}, ok \in BOOLEAN :
          Commit(held[e], hash, channel, ok)
    /\ Finish(e)
    /\ UNCHANGED <<processVars, reapVars, chainVars>>

\* The environment's word that the transaction in flight was never accepted.
Refusal(e) ==
    LET n == held[e] IN
    /\ mined[n] # sending[e]
    /\ atRisk' = [atRisk EXCEPT ![n] = @ \ {sending[e]}]
    /\ UNCHANGED <<used, mined>>

\* The relay answers "failed": the public path is tried with the same nonce.
PrivateFailed(e) ==
    /\ Running /\ pc[e] = "private"
    /\ Refusal(e)
    /\ pc' = [pc EXCEPT ![e] = "fallback"]
    /\ sending' = [sending EXCEPT ![e] = NoHash]
    /\ UNCHANGED <<nonceVars, held, processVars, reapVars>>

\* The node answers eth_sendRawTransaction with an error: rollback.
MutPublicRefused(e) ==
    /\ Running /\ pc[e] = "public"
    /\ \E ok \in BOOLEAN : Rollback(held[e], ok)
    /\ Finish(e)
    /\ UNCHANGED <<processVars, reapVars, chainVars>>
PublicRefused(e) ==
    /\ Running /\ pc[e] = "public"
    /\ Refusal(e)
    /\ \E ok \in BOOLEAN : Rollback(held[e], ok)
    /\ Finish(e)
    /\ UNCHANGED <<processVars, reapVars>>

-----------------------------------------------------------------------------
(* nonce.js: reap(), not serialised with reserve()                          *)

ReapStart ==
    /\ Running /\ ~reaping
    /\ reaping' = TRUE
    /\ reapTodo' = {s \in Nonces \X Hashes : pending[s[1]] = s[2]}
    /\ UNCHANGED <<nonceVars, executorVars, processVars, chainVars>>

\* A valid receipt of the slot's own hash arrived: the slot is released.
MutReapReceipt(n, hash) ==
    /\ Running /\ reaping /\ <<n, hash>> \in reapTodo
    /\ \E to \in Confirmed, ok \in BOOLEAN : ReapSlot(n, hash, to, ok)
    /\ reapTodo' = reapTodo \ {<<n, hash>>}
    /\ UNCHANGED <<reaping, executorVars, processVars, chainVars>>
ReapReceipt(n, hash) ==
    /\ Running /\ reaping /\ <<n, hash>> \in reapTodo
    /\ mined[n] = hash
    /\ \E to \in Confirmed, ok \in BOOLEAN : ReapSlot(n, hash, to, ok)
    /\ reapTodo' = reapTodo \ {<<n, hash>>}
    /\ UNCHANGED <<reaping, executorVars, processVars, chainVars>>

\* No receipt, a foreign or malformed one, or an RPC error: the slot stays.
MutReapNothing(n, hash) ==
    /\ Running /\ reaping /\ <<n, hash>> \in reapTodo
    /\ pending' = [pending EXCEPT ![n] = NoSlot]
    /\ reapTodo' = reapTodo \ {<<n, hash>>}
    /\ UNCHANGED <<next, reserved, blocked, attached, journalVars,
                   reaping, executorVars, processVars, chainVars>>
ReapNothing(n, hash) ==
    /\ Running /\ reaping /\ <<n, hash>> \in reapTodo
    /\ reapTodo' = reapTodo \ {<<n, hash>>}
    /\ UNCHANGED <<nonceVars, reaping, executorVars, processVars, chainVars>>

\* The resync at the end, skipped (recent sync, slots pending, RPC error).
ReapEnd ==
    /\ Running /\ reaping /\ reapTodo = {}
    /\ \/ \E v \in PendingAnswers : Resync(v)
       \/ UNCHANGED nonceVars
    /\ reaping' = FALSE
    /\ UNCHANGED <<reapTodo, executorVars, processVars, chainVars>>

\* reconcile(), and the operator's releaseDropped().
Reconcile ==
    /\ Running
    /\ \E v \in PendingAnswers : Resync(v)
    /\ UNCHANGED <<executorVars, processVars, reapVars, chainVars>>

Release(n) ==
    /\ Running
    /\ n \in Slots /\ DropProof(n)
    /\ \E ok \in BOOLEAN : ReleaseDropped(n, pending[n], ok)
    /\ UNCHANGED <<executorVars, processVars, reapVars, chainVars>>

-----------------------------------------------------------------------------
(* The chain                                                                *)

\* The next nonce of the account is consumed by a transaction that was sent.
Mine(n) ==
    /\ mined[n] = NoHash
    /\ \A k \in Nonces : k < n => mined[k] # NoHash
    /\ \E hash \in atRisk[n] : mined' = [mined EXCEPT ![n] = hash]
    /\ UNCHANGED <<nonceVars, executorVars, processVars, reapVars, atRisk, used>>

\* A transaction is evicted for good, or never reached anybody.
Evict(n) ==
    /\ \E hash \in atRisk[n] \ {mined[n]} :
          atRisk' = [atRisk EXCEPT ![n] = @ \ {hash}]
    /\ UNCHANGED <<nonceVars, executorVars, processVars, reapVars, used, mined>>

-----------------------------------------------------------------------------
(* index.js: start, crash, recovery, reconnection                           *)

\* init() then attachJournal() and the list recover() will walk.
BindManager ==
    /\ \E v \in PendingAnswers : Bind(v)
    /\ unrecovered' = {n \in OutstandingIn(disk) : disk[n].hash # NoHash}
    /\ process' = "recovering"

Start ==
    /\ process = "down"
    /\ BindManager
    /\ UNCHANGED <<executorVars, reapVars, chainVars, restarts>>

\* recover() of one record with a hash: a valid receipt confirms it; without
\* a receipt it is left alone when visible and becomes UNKNOWN when not; a
\* foreign receipt makes it UNKNOWN.  Journal errors are swallowed.
MutRecoverRecord(n) ==
    /\ process = "recovering" /\ n \in unrecovered
    /\ \/ /\ mined[n] = mem[n].hash
          /\ \E to \in Confirmed, ok \in BOOLEAN : JConfirm(n, to, mined[n], ok)
       \/ \E ok \in BOOLEAN : JMarkUnknown(n, ok)
    /\ unrecovered' = IF mem'[n].state \in Confirmed THEN unrecovered \ {n}
                                                   ELSE unrecovered
    /\ UNCHANGED <<managerVars, process, restarts, executorVars, reapVars, chainVars>>
RecoverRecord(n) ==
    /\ process = "recovering" /\ n \in unrecovered
    /\ \/ /\ mined[n] = mem[n].hash
          /\ \E to \in Confirmed, ok \in BOOLEAN : JConfirm(n, to, mined[n], ok)
       \/ \E ok \in BOOLEAN : JMarkUnknown(n, ok)
       \/ UNCHANGED journalVars
    /\ unrecovered' = unrecovered \ {n}
    /\ UNCHANGED <<managerVars, process, restarts, executorVars, reapVars, chainVars>>

\* The end of recover(), with or without an answer to getNonce.
RecoverDone ==
    /\ process = "recovering" /\ unrecovered = {}
    /\ \E v \in PendingAnswers \cup {Unset} : SealRecovery(v)
    /\ process' = "up"
    /\ UNCHANGED <<unrecovered, restarts, executorVars, reapVars, chainVars>>

Quiet == ~reaping /\ \A e \in Executors : pc[e] = "idle"

\* The health check fails inside scan(), when nothing else runs: a new
\* manager is built on the new wallet.
Reconnect ==
    /\ Running /\ Quiet /\ restarts < MaxRestarts
    /\ restarts' = restarts + 1
    /\ BindManager
    /\ UNCHANGED <<executorVars, reapVars, chainVars>>

\* init() of the new manager throws: the error is logged and the scan goes
\* on with that manager.
ReconnectInitFails ==
    /\ ReconnectInitMayFail
    /\ Running /\ Quiet /\ restarts < MaxRestarts
    /\ restarts' = restarts + 1
    /\ BindWithoutJournal
    /\ UNCHANGED <<process, unrecovered, executorVars, reapVars, chainVars>>

\* The process dies; the file and the chain survive.
Crash ==
    /\ process # "down" /\ restarts < MaxRestarts
    /\ restarts' = restarts + 1
    /\ process' = "down" /\ unrecovered' = {}
    /\ BindWithoutJournal
    /\ pc' = [e \in Executors |-> "idle"]
    /\ held' = [e \in Executors |-> 0]
    /\ sending' = [e \in Executors |-> NoHash]
    /\ reaping' = FALSE /\ reapTodo' = {}
    /\ UNCHANGED chainVars

-----------------------------------------------------------------------------

Init ==
    /\ MgrInit
    /\ pc = [e \in Executors |-> "idle"]
    /\ held = [e \in Executors |-> 0]
    /\ sending = [e \in Executors |-> NoHash]
    /\ process = "down" /\ unrecovered = {} /\ restarts = 0
    /\ reaping = FALSE /\ reapTodo = {}
    /\ atRisk = [n \in Nonces |-> {}]
    /\ used = [n \in Nonces |-> {}]
    /\ mined = [n \in Nonces |-> NoHash]

Execute(e) ==
    \/ ReserveNonce(e)
    \/ GiveUp(e)
    \/ Approve(e)
    \/ \E channel \in {"private", "public"} : Send(e, channel) \/ Accepted(e, channel)
    \/ SignFails(e)
    \/ PrivateFailed(e)
    \/ PublicRefused(e)

Reap ==
    \/ ReapStart
    \/ \E n \in Nonces, hash \in Hashes : ReapReceipt(n, hash) \/ ReapNothing(n, hash)
    \/ ReapEnd

Chain == \E n \in Nonces : Mine(n) \/ Evict(n)

Process ==
    \/ Start
    \/ \E n \in Nonces : RecoverRecord(n)
    \/ RecoverDone
    \/ Reconnect
    \/ ReconnectInitFails
    \/ Crash

Next ==
    \/ \E e \in Executors : Execute(e)
    \/ Reap
    \/ Reconcile
    \/ \E n \in Nonces : Release(n)
    \/ Chain
    \/ Process

Spec == Init /\ [][Next]_vars

-----------------------------------------------------------------------------
(* Safety                                                                   *)

TypeOK ==
    /\ JournalTypeOK
    /\ ManagerTypeOK
    /\ pc \in [Executors -> {"idle", "reserved", "approved", "private",
                             "fallback", "public"}]
    /\ held \in [Executors -> Nonces]
    /\ sending \in [Executors -> Hashes \cup {NoHash}]
    /\ process \in {"down", "recovering", "up"}
    /\ unrecovered \subseteq Nonces
    /\ reaping \in BOOLEAN
    /\ reapTodo \subseteq Nonces \X Hashes
    /\ atRisk \in [Nonces -> SUBSET Hashes]
    /\ used \in [Nonces -> SUBSET Hashes]
    /\ mined \in [Nonces -> Hashes \cup {NoHash}]
    /\ restarts \in 0..MaxRestarts

\* H1, the invariant the journal exists for (nonce-journal.js:3-10): whatever
\* crashes, failed writes, lost answers and reconnections happen, two
\* transactions that can execute never share a nonce.
OneTransactionPerNonce ==
    \A n \in Nonces : \A a, b \in atRisk[n] : a = b

\* WRITE-BEFORE-RISK (nonce-journal.js:13-14, nonce.js:85-90): once a
\* transaction of a nonce can execute, the FILE holds a record that will
\* block the nonce at the next start, or its confirmation.
WriteBeforeRisk ==
    \A n \in Nonces :
        atRisk[n] # {} => disk[n].state \in Outstanding \cup Confirmed

\* A nonce whose transaction can still execute is never lost by the running
\* process: it is reserved, pending or blocked (nonce.js:122-128).
AtRiskIsOwned ==
    process # "down" =>
        \A n \in Nonces : atRisk[n] # {} /\ mined[n] = NoHash =>
            n \in reserved \cup Slots \cup blocked

\* The journal says CONFIRMED only of the transaction that consumed the nonce
\* on chain, in memory and on disk (nonce-journal.js:391-426).
ConfirmedOnlyIfMined ==
    \A n \in Nonces, copy \in {mem, disk} :
        copy[n].state \in Confirmed => copy[n].hash = mined[n]

\* A slot leaves `pending` in a running process only when its transaction was
\* mined or cannot execute any more: absence of an answer is never proof
\* (nonce.js:612-624).
ReleasedOnProof ==
    [][\A n \in Nonces :
          process = "up" /\ process' = "up" /\ restarts' = restarts
          /\ pending[n] # NoSlot /\ pending'[n] = NoSlot
          => mined[n] # NoHash \/ atRisk[n] = {}]_vars

-----------------------------------------------------------------------------
(* The inductive invariant behind the safety properties, part by part.      *)

Busy(e) == pc[e] # "idle"

\* The running manager has its journal.
AttachedWhileAlive == process # "down" => attached

\* An execution owns its nonce; memory and file know about it; and nothing of
\* it is at risk but what the execution is sending right now.
OwnsNonce(e) ==
    /\ process = "up"
    /\ held[e] \in reserved
    /\ mem[held[e]].state \in {"RESERVED", "APPROVED"}
    /\ disk[held[e]].state \in Outstanding
    /\ atRisk[held[e]] \subseteq
           IF pc[e] \in {"private", "public"} THEN {sending[e]} ELSE {}

HoldersOwn == \A e \in Executors : Busy(e) => OwnsNonce(e)

\* Two executions never hold the same nonce.
HoldersDiffer ==
    \A e, f \in Executors : Busy(e) /\ Busy(f) /\ held[e] = held[f] => e = f

\* Memory never knows less than the file about what is at risk.
MemoryKnowsRisk ==
    process # "down" => \A n \in Nonces :
        atRisk[n] # {} => mem[n].state \in Outstanding \cup Confirmed

\* Nothing at or above next is at risk, so reserve() finds a fresh nonce.
FreshAboveNext ==
    process # "down" => \A n \in Nonces : n >= next => atRisk[n] = {}

\* A slot with a hash stands for the one transaction of its nonce.
SlotRisk ==
    \A n \in Nonces : pending[n] \in Hashes => atRisk[n] \subseteq {pending[n]}

\* The chain consumes a nonce only with a transaction that was sent.
MinedWasSent == \A n \in Nonces : mined[n] # NoHash => mined[n] \in atRisk[n]

\* A confirmed record names a transaction.
ConfirmedHasHash ==
    \A n \in Nonces, copy \in {mem, disk} :
        copy[n].state \in Confirmed => copy[n].hash # NoHash

\* All of it: preserved by every step as long as no reconnection loses the
\* journal (proved in NonceLifecycleProofs).
IndInv ==
    /\ TypeOK
    /\ AttachedWhileAlive
    /\ HoldersOwn
    /\ HoldersDiffer
    /\ OwnedBelowNext
    /\ MemoryKnowsRisk
    /\ FreshAboveNext
    /\ SlotRisk
    /\ MinedWasSent
    /\ ConfirmedHasHash
    /\ OneTransactionPerNonce
    /\ WriteBeforeRisk
    /\ AtRiskIsOwned
    /\ ConfirmedOnlyIfMined

-----------------------------------------------------------------------------
(* The abstract promise                                                     *)

\* A nonce this bot will not grant: owned in memory or, while no process
\* runs, blocked by the file at the next start.
Owned(n) ==
    IF process = "down" THEN disk[n].state \in Outstanding
    ELSE n \in reserved \cup Slots \cup blocked

Status ==
    [n \in Nonces |->
        IF mined[n] # NoHash THEN "spent"
        ELSE IF atRisk[n] # {} THEN "risked"
        ELSE IF Owned(n) THEN "held" ELSE "free"]

Using == [e \in Executors |-> IF pc[e] = "idle" THEN Unset ELSE held[e]]

Ownership == INSTANCE NonceOwnership
                 WITH status <- Status, using <- Using, Nothing <- Unset

\* The lifecycle implements NonceOwnership: the nonce that reserve() takes is
\* free at that moment, and only its holder sends with it, whatever crashes,
\* lost writes and answers came before (nonce-journal.js:7-17).
OwnershipPromise == Ownership!Spec

-----------------------------------------------------------------------------
(* Liveness.  An RPC node asked again and again for the receipt of a mined  *)
(* transaction eventually returns it.  Recovery runs on, a reap() that was  *)
(* called and an execution end because their requests time out, and the     *)
(* chain mines the account's next transaction unless it is evicted.         *)
(* Nothing says that reap() is called: index.js does so after an execution  *)
(* attempt, and attempts depend on opportunities.                           *)

Fairness ==
    /\ \A e \in Executors : WF_vars(Execute(e))
    /\ \A n \in Nonces : WF_vars(Mine(n))
    /\ WF_vars(Start)
    /\ \A n \in Nonces : WF_vars(RecoverRecord(n))
    /\ WF_vars(RecoverDone)
    /\ WF_vars(ReapEnd)
    /\ \A n \in Nonces, hash \in Hashes :
          /\ WF_vars(ReapReceipt(n, hash) \/ ReapNothing(n, hash))
          /\ SF_vars(ReapReceipt(n, hash))

LiveSpec == Spec /\ Fairness

\* If opportunities keep coming, each attempt followed by its reap()
\* (index.js:651; an attempt that finds the manager saturated changes nothing
\* else), then a committed slot whose transaction was mined is released, or its
\* process dies first, whatever receipts were missed (nonce.js:610-676).
MinedSlotIsReleased ==
    []<><<ReapStart>>_vars =>
        \A n \in Nonces, hash \in Hashes :
            pending[n] = hash /\ mined[n] = hash ~> pending[n] # hash

\* Recovery ends: the bot never hangs between attaching the journal and
\* granting nonces, whatever the node answers (nonce.js:525-604).
RecoveryEnds == process # "up" ~> process = "up"
=============================================================================
