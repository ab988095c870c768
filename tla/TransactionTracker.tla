-------------------------- MODULE TransactionTracker --------------------------
(***************************************************************************)
(* bot/tx-tracker.js: the state machine of submitted transactions.  The      *)
(* executor creates a record for a nonce, marks it submitted or UNKNOWN; an  *)
(* operator registers replacements and drop evidence; poll() observes the    *)
(* chain.  A poll awaits the network and the receipt, so that several polls  *)
(* of one record, and the synchronous calls, interleave with it, and an      *)
(* answer may be applied long after the node gave it.                        *)
(*                                                                           *)
(* There is one wallet; modes, relay ids, time stamps and error texts are    *)
(* left out.  A rejected call (the code throws before any change) is a step  *)
(* that is not taken.                                                        *)
(***************************************************************************)
EXTENDS Integers

CONSTANTS
    Hashes,       \* transaction hashes
    NoHash,       \* txHash === null
    Nonces,
    TxNonce,      \* the nonce inside each transaction
    MaxRecords,   \* BOUND: records created during the run
    Polls         \* concurrent invocations of poll()

ASSUME HashNull == NoHash \notin Hashes
ASSUME TxHasNonce == TxNonce \in [Hashes -> Nonces]
ASSUME SomeNonce == Nonces # {}
ASSUME RecordBound == MaxRecords \in Nat \ {0}

VARIABLES
    records,      \* this._records: id -> record
    poll,         \* where each poll() is suspended
    mined,        \* chain: the hash that consumed each nonce
    status,       \* chain: the status of its receipt
    gone          \* transactions no node or relay holds any more

trackerVars == <<records, poll>>
chainVars == <<mined, status, gone>>
vars == <<trackerVars, chainVars>>

Ids == 1..MaxRecords

Final == {"CONFIRMED", "REVERTED"}
TerminalStates == Final \cup {"DROPPED"}
States == TerminalStates \cup {"RESERVED", "SUBMITTED", "PENDING", "UNKNOWN"}

MutAllowed ==
    [s \in States |->
        CASE s = "RESERVED"  -> {"SUBMITTED", "UNKNOWN"}
          [] s = "SUBMITTED" -> Final \cup {"PENDING", "UNKNOWN"}
          [] OTHER           -> TerminalStates \cup {"PENDING", "UNKNOWN"}]
MutAllowedUnknown ==
    [s \in States |->
        CASE s = "RESERVED"  -> {"SUBMITTED", "UNKNOWN"}
          [] s = "SUBMITTED" -> Final \cup {"PENDING", "UNKNOWN"}
          [] s = "PENDING"   -> TerminalStates \cup {"UNKNOWN"}
          [] s = "UNKNOWN"   -> {"DROPPED", "PENDING"}
          [] OTHER           -> {}]
ALLOWED ==
    [s \in States |->
        CASE s = "RESERVED"  -> {"SUBMITTED", "UNKNOWN"}
          [] s = "SUBMITTED" -> Final \cup {"PENDING", "UNKNOWN"}
          [] s = "PENDING"   -> TerminalStates \cup {"UNKNOWN"}
          [] s = "UNKNOWN"   -> TerminalStates \cup {"PENDING"}
          [] OTHER           -> {}]

NoRecord == [state |-> "none", nonce |-> CHOOSE n \in Nonces : TRUE, hash |-> NoHash,
             replaces |-> 0, replacedBy |-> 0, dropProof |-> FALSE]

Known(id) == records[id].state # "none"
Fresh(id) == ~Known(id) /\ \A k \in Ids : k < id => Known(k)

Legal(id, to) == to = records[id].state \/ to \in ALLOWED[records[id].state]

\* The record of id after a legal transition(id, to).
Moved(id, to) == [records EXCEPT ![id].state = to]

-----------------------------------------------------------------------------
(* Synchronous operations                                                    *)

NewRecord(nonce) == [NoRecord EXCEPT !.state = "RESERVED", !.nonce = nonce]

Create(id, nonce) ==
    /\ Fresh(id)
    /\ records' = [records EXCEPT ![id] = NewRecord(nonce)]
    /\ UNCHANGED <<poll, chainVars>>

\* markSubmitted(id, hash), with the hash of the transaction that was sent.
MarkSubmitted(id, hash) ==
    /\ records[id].state = "RESERVED"
    /\ TxNonce[hash] = records[id].nonce
    /\ records' = [records EXCEPT ![id].state = "SUBMITTED", ![id].hash = hash]
    /\ UNCHANGED <<poll, chainVars>>

\* transition(id, "UNKNOWN", error), as the executor calls it.
MarkUnknown(id) ==
    /\ Known(id) /\ Legal(id, "UNKNOWN")
    /\ records' = Moved(id, "UNKNOWN")
    /\ UNCHANGED <<poll, chainVars>>

MarkPending(id) ==
    /\ Known(id) /\ Legal(id, "PENDING")
    /\ records' = Moved(id, "PENDING")
    /\ UNCHANGED <<poll, chainVars>>

\* replace(id, {txHash}): a second record for the same nonce.  Nothing
\* compares the two hashes.
Replace(id, new, hash) ==
    /\ Known(id) /\ records[id].state \notin TerminalStates
    /\ Fresh(new)
    /\ TxNonce[hash] = records[id].nonce
    /\ records' = [records EXCEPT
           ![new] = [NewRecord(records[id].nonce) EXCEPT
                        !.state = "SUBMITTED", !.hash = hash, !.replaces = id],
           ![id].replacedBy = new]
    /\ UNCHANGED <<poll, chainVars>>

\* markDropped(id, evidence), with evidence that is true: the transaction of
\* the record cannot be mined any more.
MarkDropped(id) ==
    /\ Known(id) /\ Legal(id, "DROPPED")
    /\ records[id].hash = NoHash \/ records[id].hash \in gone
    /\ records' = [records EXCEPT ![id].state = "DROPPED", ![id].dropProof = TRUE]
    /\ UNCHANGED <<poll, chainVars>>

-----------------------------------------------------------------------------
(* poll(id, provider)                                                        *)

Idle == [at |-> "none", id |-> 0, answer |-> "none"]
Receipts == {"success", "revert"}
\* An RPC error or a malformed receipt is "unusable", another transaction's
\* receipt is "foreign".
Answers == Receipts \cup {"null", "unusable", "foreign"}

\* Terminal records answer at once, records without a hash throw: no step.
PollStart(p, id) ==
    /\ poll[p] = Idle
    /\ records[id].state \in {"SUBMITTED", "PENDING", "UNKNOWN"}
    /\ records[id].hash # NoHash
    /\ poll' = [poll EXCEPT ![p] = [at |-> "network", id |-> id, answer |-> "none"]]
    /\ UNCHANGED <<records, chainVars>>

\* transition() at the end of a poll; if the record has become terminal in
\* the meantime it throws and changes nothing.
PollEnd(p, to) ==
    LET id == poll[p].id IN
    /\ records' = IF Legal(id, to) THEN Moved(id, to) ELSE records
    /\ poll' = [poll EXCEPT ![p] = Idle]

\* getNetwork() shows the expected chain, or a wrong one or an error.
NetworkRight(p) ==
    /\ poll[p].at = "network"
    /\ poll' = [poll EXCEPT ![p].at = "receipt"]
    /\ UNCHANGED <<records, chainVars>>

NetworkWrong(p) ==
    /\ poll[p].at = "network"
    /\ PollEnd(p, "UNKNOWN")
    /\ UNCHANGED chainVars

\* The node reads its chain; a node may lag, fail or answer nonsense.
NodeAnswers(p, answer) ==
    LET hash == records[poll[p].id].hash IN
    /\ poll[p].at = "receipt"
    /\ answer \in Receipts =>
           mined[TxNonce[hash]] = hash /\ status[TxNonce[hash]] = answer
    /\ poll' = [poll EXCEPT ![p].at = "answered", ![p].answer = answer]
    /\ UNCHANGED <<records, chainVars>>

\* What the answer makes of the record.
MutOutcome(answer) ==
    CASE answer \in {"success", "foreign"} -> "CONFIRMED"
      [] answer = "revert"  -> "REVERTED"
      [] answer = "null"    -> "PENDING"
      [] OTHER              -> "UNKNOWN"
MutOutcomeAbsent(answer) ==
    CASE answer = "success" -> "CONFIRMED"
      [] answer = "revert"  -> "REVERTED"
      [] answer = "null"    -> "DROPPED"
      [] OTHER              -> "UNKNOWN"
Outcome(answer) ==
    CASE answer = "success" -> "CONFIRMED"
      [] answer = "revert"  -> "REVERTED"
      [] answer = "null"    -> "PENDING"
      [] OTHER              -> "UNKNOWN"

AnswerApplied(p) ==
    /\ poll[p].at = "answered"
    /\ PollEnd(p, Outcome(poll[p].answer))
    /\ UNCHANGED chainVars

-----------------------------------------------------------------------------
(* The chain mines a transaction somebody sent, unless nobody holds it.      *)

Sent(hash) == \E id \in Ids : records[id].hash = hash

Mine(hash, outcome) ==
    /\ Sent(hash) /\ hash \notin gone
    /\ mined[TxNonce[hash]] = NoHash
    /\ mined' = [mined EXCEPT ![TxNonce[hash]] = hash]
    /\ status' = [status EXCEPT ![TxNonce[hash]] = outcome]
    /\ UNCHANGED <<trackerVars, gone>>

\* It is evicted, or another transaction took its nonce.
Vanish(hash) ==
    /\ Sent(hash) /\ hash \notin gone
    /\ mined[TxNonce[hash]] # hash
    /\ gone' = gone \cup {hash}
    /\ UNCHANGED <<trackerVars, mined, status>>

-----------------------------------------------------------------------------

Init ==
    /\ records = [id \in Ids |-> NoRecord]
    /\ poll = [p \in Polls |-> Idle]
    /\ mined = [n \in Nonces |-> NoHash]
    /\ status = [n \in Nonces |-> "none"]
    /\ gone = {}

Caller(id) ==
    \/ \E nonce \in Nonces : Create(id, nonce)
    \/ \E hash \in Hashes : MarkSubmitted(id, hash)
    \/ MarkUnknown(id)
    \/ MarkPending(id)
    \/ \E new \in Ids, hash \in Hashes : Replace(id, new, hash)
    \/ MarkDropped(id)

Polling(p) ==
    \/ \E id \in Ids : PollStart(p, id)
    \/ NetworkRight(p)
    \/ NetworkWrong(p)
    \/ \E answer \in Answers : NodeAnswers(p, answer)
    \/ AnswerApplied(p)

Next ==
    \/ \E id \in Ids : Caller(id)
    \/ \E p \in Polls : Polling(p)
    \/ \E hash \in Hashes, outcome \in Receipts : Mine(hash, outcome)
    \/ \E hash \in Hashes : Vanish(hash)

Spec == Init /\ [][Next]_vars

\* Requests end, and for every record that is polled again and again the node
\* shows the right network and an existing receipt again and again.  That
\* anybody polls is not assumed: poll() is for the tracker's owner to call, and
\* nothing in bot/ does.
Fairness ==
    /\ WF_vars(\E p \in Polls : NetworkRight(p) \/ NetworkWrong(p))
    /\ WF_vars(\E p \in Polls, answer \in Answers : NodeAnswers(p, answer))
    /\ WF_vars(\E p \in Polls : AnswerApplied(p))
    /\ \A id \in Ids :
          /\ SF_vars(\E p \in Polls : poll[p].id = id /\ NetworkRight(p))
          /\ SF_vars(\E p \in Polls, answer \in Receipts :
                        poll[p].id = id /\ NodeAnswers(p, answer))

LiveSpec == Spec /\ Fairness

-----------------------------------------------------------------------------
(* Properties                                                                *)

Record == [state : States \cup {"none"}, nonce : Nonces, hash : Hashes \cup {NoHash},
           replaces : 0..MaxRecords, replacedBy : 0..MaxRecords, dropProof : BOOLEAN]
PollState == [at : {"none", "network", "receipt", "answered"}, id : 0..MaxRecords,
              answer : Answers \cup {"none"}]

TypeOK ==
    /\ records \in [Ids -> Record]
    /\ poll \in [Polls -> PollState]
    /\ mined \in [Nonces -> Hashes \cup {NoHash}]
    /\ status \in [Nonces -> Receipts \cup {"none"}]
    /\ gone \subseteq Hashes

\* A terminal record never changes its state or its transaction and gets no
\* replacement, though polls that began earlier still bring their answers
\* (tx-tracker.js:73-82, 119-124, 272-274, 426-430).
TerminalIsFinal ==
    [][\A id \in Ids :
          records[id].state \in TerminalStates =>
              /\ records'[id].state = records[id].state
              /\ records'[id].hash = records[id].hash
              /\ records'[id].replacedBy = records[id].replacedBy]_vars

\* CONFIRMED and REVERTED say what happened on chain to the record's own
\* transaction, never to its replacement (tx-tracker.js:459-485).
FinalMatchesChain ==
    \A id \in Ids :
        records[id].state \in Final =>
            /\ mined[records[id].nonce] = records[id].hash
            /\ records[id].state = "CONFIRMED" <=> status[records[id].nonce] = "success"

\* DROPPED is never inferred from silence, however many polls see no receipt,
\* and so a dropped transaction is never mined (tx-tracker.js:10-12, 487-496).
DroppedIsProved ==
    \A id \in Ids :
        records[id].state = "DROPPED" =>
            /\ records[id].dropProof
            /\ records[id].hash # NoHash => mined[records[id].nonce] # records[id].hash

\* If the owner polls a record again and again until it is terminal, and its
\* transaction was mined, then it ends CONFIRMED or REVERTED, whatever transient
\* errors and overtaken answers its polls meet on the way
\* (tx-tracker.js:397-497).
Polled(id) ==
    []<>(records[id].state \in TerminalStates) \/ []<><<\E p \in Polls : PollStart(p, id)>>_vars
MinedIsNoticed ==
    \A id \in Ids : Polled(id) =>
        (records[id].hash # NoHash /\ mined[records[id].nonce] = records[id].hash
            ~> records[id].state \in Final)
=============================================================================
