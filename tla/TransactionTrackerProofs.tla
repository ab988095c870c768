----------------------- MODULE TransactionTrackerProofs -----------------------
(***************************************************************************)
(* What the records of the tracker say of the chain, for any number of       *)
(* records, transactions, nonces and concurrent polls.  The invariant ties   *)
(* every suspended poll to the transaction it asks about: the hash of a      *)
(* record never changes once it is there, and what a node has shown of a     *)
(* receipt remains true while the answer waits to be applied.                *)
(***************************************************************************)
EXTENDS TransactionTracker, TLAPS

HashOf(id) == records[id].hash

\* The hash of a record belongs to its nonce and comes with submission.
RecordsMatch ==
    \A id \in Ids :
        /\ HashOf(id) # NoHash => TxNonce[HashOf(id)] = records[id].nonce
        /\ records[id].state \in {"none", "RESERVED"} => HashOf(id) = NoHash
        /\ records[id].state \in Final => HashOf(id) # NoHash
        /\ records[id].state = "DROPPED" =>
               records[id].dropProof /\ HashOf(id) \in gone \cup {NoHash}

\* A suspended poll asks about a submitted transaction, and the receipt it
\* brings is the one on the chain.
AnswersHold ==
    \A p \in Polls :
        poll[p].at # "none" =>
            /\ poll[p].id \in Ids
            /\ HashOf(poll[p].id) # NoHash
            /\ poll[p].at = "answered" /\ poll[p].answer \in Receipts =>
                   /\ mined[TxNonce[HashOf(poll[p].id)]] = HashOf(poll[p].id)
                   /\ status[TxNonce[HashOf(poll[p].id)]] = poll[p].answer

GoneNeverMined == \A hash \in gone : mined[TxNonce[hash]] # hash

\* The inductive invariant.
TrackInv ==
    TypeOK /\ RecordsMatch /\ AnswersHold /\ GoneNeverMined /\ FinalMatchesChain

USE HashNull, TxHasNonce, SomeNonce, RecordBound

-----------------------------------------------------------------------------

LEMMA NoRecordType == NoRecord \in Record /\ NoRecord.hash = NoHash
BY DEF NoRecord, Record

LEMMA TrackInvInit == Init => TrackInv
<1> SUFFICES ASSUME Init PROVE TrackInv
    OBVIOUS
<1> USE NoRecordType DEF Init
<1>1. TypeOK
    <2>1. Idle \in PollState
        BY DEF Idle, PollState
    <2>2. records \in [Ids -> Record] /\ poll \in [Polls -> PollState]
        BY <2>1
    <2>3. mined \in [Nonces -> Hashes \cup {NoHash}]
        OBVIOUS
    <2>4. status \in [Nonces -> Receipts \cup {"none"}]
        OBVIOUS
    <2>5. QED
        BY <2>2, <2>3, <2>4 DEF TypeOK
<1>2. \A id \in Ids : records[id].state = "none" /\ records[id].hash = NoHash
    BY DEF NoRecord
<1>3. RecordsMatch /\ FinalMatchesChain
    BY <1>2 DEF RecordsMatch, HashOf, FinalMatchesChain, Final
<1>4. AnswersHold
    BY DEF AnswersHold, Idle
<1>5. GoneNeverMined
    BY DEF GoneNeverMined
<1>6. QED
    BY <1>1, <1>3, <1>4, <1>5 DEF TrackInv

\* A step of the tracker that leaves the chain alone, ends at most some polls
\* and keeps the hash of every record that has one: what is left to show.
LEMMA RecordSteps ==
    ASSUME TrackInv, UNCHANGED chainVars,
           poll' \in [Polls -> PollState],
           \A p \in Polls : poll'[p] \in {poll[p], Idle},
           records' \in [Ids -> Record],
           \A id \in Ids : HashOf(id) # NoHash => HashOf(id)' = HashOf(id),
           RecordsMatch',
           FinalMatchesChain'
    PROVE  TrackInv'
<1>1. TypeOK'
    BY DEF TrackInv, TypeOK, chainVars
<1>2. AnswersHold'
    <2> SUFFICES ASSUME NEW p \in Polls, poll'[p].at # "none"
                 PROVE  /\ poll'[p] = poll[p]
                        /\ poll[p].id \in Ids
                        /\ HashOf(poll[p].id)' = HashOf(poll[p].id)
                        /\ HashOf(poll[p].id) # NoHash
        BY DEF TrackInv, AnswersHold, HashOf, chainVars
    <2>1. poll'[p] = poll[p]
        BY DEF Idle
    <2>2. QED
        BY <2>1 DEF TrackInv, AnswersHold
<1>3. GoneNeverMined'
    BY DEF TrackInv, GoneNeverMined, chainVars
<1>4. QED
    BY <1>1, <1>2, <1>3 DEF TrackInv

\* transition(): legal moves lead from known states to known states.
LEMMA LegalStates ==
    ASSUME NEW from \in States \cup {"none"}, NEW to,
           from # "none", to = from \/ to \in ALLOWED[from]
    PROVE  /\ to \in States
           /\ to = "RESERVED" => from = "RESERVED"
           /\ from \in TerminalStates => to = from
BY DEF ALLOWED, States, TerminalStates, Final

LEMMA Transition ==
    ASSUME TrackInv, UNCHANGED chainVars,
           NEW id \in Ids, NEW to, Known(id), Legal(id, to),
           \/ records' = [records EXCEPT ![id].state = to]
           \/ records' = [records EXCEPT ![id].state = to, ![id].dropProof = TRUE],
           to = "DROPPED" =>
               records'[id].dropProof /\ HashOf(id) \in gone \cup {NoHash},
           to \in Final =>
               /\ HashOf(id) # NoHash
               /\ mined[TxNonce[HashOf(id)]] = HashOf(id)
               /\ to = "CONFIRMED" <=> status[TxNonce[HashOf(id)]] = "success"
    PROVE  /\ records' \in [Ids -> Record]
           /\ \A k \in Ids : HashOf(k)' = HashOf(k)
           /\ RecordsMatch' /\ FinalMatchesChain'
<1>1. records[id] \in Record /\ records \in [Ids -> Record]
    BY DEF TrackInv, TypeOK
<1>2. to \in States /\ (to = "RESERVED" => records[id].state = "RESERVED")
    <2>1. records[id].state \in States \cup {"none"}
        BY <1>1 DEF Record
    <2>2. QED
        BY <2>1, LegalStates DEF Known, Legal
<1>3. records' \in [Ids -> Record]
    BY <1>1, <1>2 DEF Record
<1>4. /\ \A k \in Ids : /\ records'[k].hash = records[k].hash
                         /\ records'[k].nonce = records[k].nonce
      /\ \A k \in Ids \ {id} : records'[k] = records[k]
      /\ records'[id].state = to
    BY <1>1 DEF Record
<1>5. to # "none"
    BY <1>2 DEF States, TerminalStates, Final
<1>6. RecordsMatch'
    BY <1>2, <1>4, <1>5 DEF TrackInv, RecordsMatch, HashOf, chainVars
<1>7. FinalMatchesChain'
    BY <1>4 DEF TrackInv, RecordsMatch, FinalMatchesChain, HashOf, chainVars
<1>8. QED
    BY <1>3, <1>4, <1>6, <1>7 DEF HashOf

LEMMA TrackInvCaller == ASSUME TrackInv, NEW id \in Ids, Caller(id) PROVE TrackInv'
<1>0. /\ records \in [Ids -> Record] /\ poll \in [Polls -> PollState]
    BY DEF TrackInv, TypeOK
<1>1. CASE \E nonce \in Nonces : Create(id, nonce)
    <2> PICK nonce \in Nonces : Create(id, nonce)
        BY <1>1
    <2>1. NewRecord(nonce) \in Record /\ NewRecord(nonce).hash = NoHash
          /\ NewRecord(nonce).state = "RESERVED"
        BY NoRecordType DEF NewRecord, Record, States
    <2>2. records[id].hash = NoHash
        BY DEF Create, Fresh, Known, TrackInv, RecordsMatch, HashOf
    <2>3. records' \in [Ids -> Record]
        BY <1>0, <2>1 DEF Create
    <2>4. RecordsMatch' /\ FinalMatchesChain'
        BY <1>0, <2>1 DEF Create, TrackInv, RecordsMatch, FinalMatchesChain, HashOf,
           Final, chainVars
    <2>5. \A k \in Ids : HashOf(k) # NoHash => HashOf(k)' = HashOf(k)
        BY <1>0, <2>2 DEF Create, HashOf
    <2>6. QED
        BY <1>0, <2>3, <2>4, <2>5, RecordSteps DEF Create
<1>2. CASE \E hash \in Hashes : MarkSubmitted(id, hash)
    <2> PICK hash \in Hashes : MarkSubmitted(id, hash)
        BY <1>2
    <2>1. records[id].hash = NoHash
        BY DEF MarkSubmitted, TrackInv, RecordsMatch, HashOf
    <2>2. records' \in [Ids -> Record]
        BY <1>0 DEF MarkSubmitted, Record, States
    <2>3. /\ \A k \in Ids \ {id} : records'[k] = records[k]
          /\ records'[id].state = "SUBMITTED" /\ records'[id].hash = hash
          /\ records'[id].nonce = TxNonce[hash]
        BY <1>0 DEF MarkSubmitted, Record
    <2>4. RecordsMatch' /\ FinalMatchesChain'
        <3>1. RecordsMatch'
            BY <2>3 DEF MarkSubmitted, TrackInv, RecordsMatch, HashOf, Final, chainVars
        <3>2. FinalMatchesChain'
            BY <2>3 DEF MarkSubmitted, TrackInv, FinalMatchesChain, Final, chainVars
        <3>3. QED
            BY <3>1, <3>2
    <2>5. \A k \in Ids : HashOf(k) # NoHash => HashOf(k)' = HashOf(k)
        BY <2>1, <2>3 DEF HashOf
    <2>6. QED
        BY <1>0, <2>2, <2>4, <2>5, RecordSteps DEF MarkSubmitted
<1>3. CASE MarkUnknown(id)
    BY <1>0, <1>3, Transition, RecordSteps DEF MarkUnknown, Moved, Final
<1>4. CASE MarkPending(id)
    BY <1>0, <1>4, Transition, RecordSteps DEF MarkPending, Moved, Final
<1>5. CASE \E new \in Ids, hash \in Hashes : Replace(id, new, hash)
    <2> PICK new \in Ids, hash \in Hashes : Replace(id, new, hash)
        BY <1>5
    <2> DEFINE successor == [NewRecord(records[id].nonce) EXCEPT
                                !.state = "SUBMITTED", !.hash = hash, !.replaces = id]
    <2>1. /\ successor \in Record /\ successor.hash = hash
          /\ successor.state = "SUBMITTED" /\ successor.nonce = records[id].nonce
        <3>1. NewRecord(records[id].nonce) \in Record
            BY <1>0, NoRecordType DEF NewRecord, Record, States
        <3>2. NewRecord(records[id].nonce).nonce = records[id].nonce
            BY <1>0, NoRecordType DEF NewRecord, Record
        <3>3. id \in 0..MaxRecords
            BY DEF Ids
        <3>4. QED
            BY <3>1, <3>2, <3>3 DEF Record, States
    <2>2. new # id /\ records[new].hash = NoHash
        BY DEF Replace, Fresh, Known, TrackInv, RecordsMatch, HashOf
    <2>3. records' = [records EXCEPT ![new] = successor, ![id].replacedBy = new]
        BY DEF Replace
    <2> HIDE DEF successor
    <2>4. /\ records' \in [Ids -> Record]
          /\ records'[new] = successor
          /\ \A k \in Ids \ {new} : /\ records'[k].state = records[k].state
                                    /\ records'[k].hash = records[k].hash
                                    /\ records'[k].nonce = records[k].nonce
                                    /\ records'[k].dropProof = records[k].dropProof
        <3>1. new \in 0..MaxRecords
            BY DEF Ids
        <3>2. QED
            BY <1>0, <2>1, <2>2, <2>3, <3>1 DEF Record
    <2>5. RecordsMatch' /\ FinalMatchesChain'
        <3>1. RecordsMatch'
            <4>1. TxNonce[hash] = records[id].nonce /\ gone' = gone
                BY DEF Replace, chainVars
            <4>2. ASSUME NEW k \in Ids \ {new}
                  PROVE  /\ records[k].hash # NoHash => TxNonce[records[k].hash] = records[k].nonce
                         /\ records[k].state \in {"none", "RESERVED"} => records[k].hash = NoHash
                         /\ records[k].state \in Final => records[k].hash # NoHash
                         /\ records[k].state = "DROPPED" =>
                                records[k].dropProof /\ records[k].hash \in gone \cup {NoHash}
                BY DEF TrackInv, RecordsMatch, HashOf
            <4>3. QED
                BY <2>1, <2>4, <4>1, <4>2 DEF RecordsMatch, HashOf, Final
        <3>2. FinalMatchesChain'
            BY <2>1, <2>4 DEF Replace, TrackInv, FinalMatchesChain, Final, chainVars
        <3>3. QED
            BY <3>1, <3>2
    <2>6. \A k \in Ids : HashOf(k) # NoHash => HashOf(k)' = HashOf(k)
        BY <2>2, <2>4 DEF HashOf
    <2>7. QED
        BY <1>0, <2>4, <2>5, <2>6, RecordSteps DEF Replace
<1>6. CASE MarkDropped(id)
    <2>1. /\ records' = [records EXCEPT ![id].state = "DROPPED", ![id].dropProof = TRUE]
          /\ records'[id].dropProof
        BY <1>0, <1>6 DEF MarkDropped, Record
    <2>2. QED
        BY <1>0, <1>6, <2>1, Transition, RecordSteps DEF MarkDropped, HashOf, Final
<1>7. QED
    BY <1>1, <1>2, <1>3, <1>4, <1>5, <1>6 DEF Caller

\* A poll that goes on: records and chain stay.
LEMMA PollSteps ==
    ASSUME TrackInv, UNCHANGED <<records, chainVars>>,
           poll' \in [Polls -> PollState], AnswersHold'
    PROVE  TrackInv'
BY DEF TrackInv, TypeOK, RecordsMatch, GoneNeverMined, FinalMatchesChain, HashOf, chainVars

\* The end of a poll, legal or not.
LEMMA PollEnds ==
    ASSUME TrackInv, UNCHANGED chainVars, NEW p \in Polls, poll[p].at # "none",
           NEW to, to # "DROPPED", PollEnd(p, to),
           to \in Final => LET hash == HashOf(poll[p].id) IN
               /\ mined[TxNonce[hash]] = hash
               /\ to = "CONFIRMED" <=> status[TxNonce[hash]] = "success"
    PROVE  TrackInv'
<1> DEFINE id == poll[p].id
<1>0. /\ records \in [Ids -> Record] /\ poll \in [Polls -> PollState]
    BY DEF TrackInv, TypeOK
<1>1. id \in Ids /\ HashOf(id) # NoHash /\ Known(id)
    BY DEF TrackInv, AnswersHold, RecordsMatch, HashOf, Known
<1>2. /\ poll' \in [Polls -> PollState]
      /\ \A q \in Polls : poll'[q] \in {poll[q], Idle}
    BY <1>0 DEF PollEnd, Idle, PollState
<1>3. CASE Legal(id, to)
    BY <1>0, <1>1, <1>2, <1>3, Transition, RecordSteps DEF PollEnd, Moved
<1>4. CASE ~Legal(id, to)
    <2>1. UNCHANGED records
        BY <1>4 DEF PollEnd
    <2>2. RecordsMatch' /\ FinalMatchesChain'
        BY <2>1 DEF TrackInv, RecordsMatch, FinalMatchesChain, HashOf, chainVars
    <2>3. QED
        BY <1>0, <1>2, <2>1, <2>2, RecordSteps DEF HashOf
<1>5. QED
    BY <1>3, <1>4

LEMMA TrackInvPolling == ASSUME TrackInv, NEW p \in Polls, Polling(p) PROVE TrackInv'
<1>0. poll \in [Polls -> PollState] /\ records \in [Ids -> Record]
    BY DEF TrackInv, TypeOK
<1>1. CASE \E id \in Ids : PollStart(p, id)
    <2> PICK id \in Ids : PollStart(p, id)
        BY <1>1
    <2>1. poll' \in [Polls -> PollState]
        BY <1>0 DEF PollStart, PollState, Ids
    <2>2. AnswersHold'
        BY <1>0 DEF PollStart, TrackInv, AnswersHold, HashOf, chainVars
    <2>3. QED
        BY <2>1, <2>2, PollSteps DEF PollStart
<1>2. CASE NetworkRight(p)
    <2>1. poll' \in [Polls -> PollState]
        BY <1>0, <1>2 DEF NetworkRight, PollState
    <2>2. AnswersHold'
        BY <1>0, <1>2 DEF NetworkRight, PollState, TrackInv, AnswersHold, HashOf, chainVars
    <2>3. QED
        BY <1>2, <2>1, <2>2, PollSteps DEF NetworkRight
<1>3. CASE NetworkWrong(p)
    BY <1>3, PollEnds DEF NetworkWrong, Final
<1>4. CASE \E answer \in Answers : NodeAnswers(p, answer)
    <2> PICK answer \in Answers : NodeAnswers(p, answer)
        BY <1>4
    <2>1. poll' \in [Polls -> PollState]
        BY <1>0 DEF NodeAnswers, PollState
    <2>2. AnswersHold'
        BY <1>0 DEF NodeAnswers, PollState, TrackInv, AnswersHold, HashOf, chainVars
    <2>3. QED
        BY <2>1, <2>2, PollSteps DEF NodeAnswers
<1>5. CASE AnswerApplied(p)
    <2>1. poll[p].at = "answered" /\ PollEnd(p, Outcome(poll[p].answer))
        BY <1>5 DEF AnswerApplied
    <2>2. /\ Outcome(poll[p].answer) # "DROPPED"
          /\ Outcome(poll[p].answer) \in Final =>
                 /\ poll[p].answer \in Receipts
                 /\ Outcome(poll[p].answer) = "CONFIRMED" <=> poll[p].answer = "success"
        BY DEF Outcome, Final, Receipts
    <2>3. Outcome(poll[p].answer) \in Final =>
              /\ mined[TxNonce[HashOf(poll[p].id)]] = HashOf(poll[p].id)
              /\ status[TxNonce[HashOf(poll[p].id)]] = poll[p].answer
        BY <2>1, <2>2 DEF TrackInv, AnswersHold
    <2>4. QED
        BY <1>5, <2>1, <2>2, <2>3, PollEnds DEF AnswerApplied
<1>6. QED
    BY <1>1, <1>2, <1>3, <1>4, <1>5 DEF Polling

LEMMA TrackInvChain ==
    ASSUME TrackInv, NEW hash \in Hashes,
           Vanish(hash) \/ \E outcome \in Receipts : Mine(hash, outcome)
    PROVE  TrackInv'
<1>1. UNCHANGED <<records, poll>>
    BY DEF Vanish, Mine, trackerVars
<1>2. \A n \in Nonces : mined[n] # NoHash => mined'[n] = mined[n] /\ status'[n] = status[n]
    BY DEF Vanish, Mine, TrackInv, TypeOK
<1>3. TypeOK'
    BY <1>1 DEF Vanish, Mine, TrackInv, TypeOK
<1>4. RecordsMatch'
    BY <1>1 DEF Vanish, Mine, TrackInv, RecordsMatch, HashOf
<1>5. AnswersHold'
    <2>1. \A id \in Ids : HashOf(id) # NoHash => TxNonce[HashOf(id)] \in Nonces
        BY DEF TrackInv, TypeOK, HashOf, Record
    <2>2. QED
        BY <1>1, <1>2, <2>1 DEF TrackInv, AnswersHold, HashOf
<1>6. GoneNeverMined'
    BY DEF Vanish, Mine, TrackInv, TypeOK, GoneNeverMined
<1>7. FinalMatchesChain'
    <2>1. \A id \in Ids : records[id].nonce \in Nonces
        BY DEF TrackInv, TypeOK, Record
    <2>2. \A id \in Ids : records[id].state \in Final => HashOf(id) # NoHash
        BY DEF TrackInv, RecordsMatch
    <2>3. QED
        BY <1>1, <1>2, <2>1, <2>2 DEF TrackInv, FinalMatchesChain, HashOf
<1>8. QED
    BY <1>3, <1>4, <1>5, <1>6, <1>7 DEF TrackInv

LEMMA TrackInvStep == TrackInv /\ [Next]_vars => TrackInv'
<1> SUFFICES ASSUME TrackInv, [Next]_vars PROVE TrackInv'
    OBVIOUS
<1>1. CASE UNCHANGED vars
    BY <1>1 DEF vars, trackerVars, chainVars, TrackInv, TypeOK, RecordsMatch,
       AnswersHold, GoneNeverMined, FinalMatchesChain, HashOf
<1>2. QED
    BY <1>1, TrackInvCaller, TrackInvPolling, TrackInvChain DEF Next

LEMMA TrackInvHolds == Spec => []TrackInv
BY TrackInvInit, TrackInvStep, PTL DEF Spec

-----------------------------------------------------------------------------

\* Every variable of the tracker keeps its type, through overlapping polls.
THEOREM TrackerTypes == Spec => []TypeOK
<1>1. TrackInv => TypeOK
    BY DEF TrackInv
<1>2. QED
    BY <1>1, TrackInvHolds, PTL

\* CONFIRMED and REVERTED are true of the record's own transaction, whatever
\* polls overtake each other and whatever else the node answers.
THEOREM FinalStatesAreTrue == Spec => []FinalMatchesChain
<1>1. TrackInv => FinalMatchesChain
    BY DEF TrackInv
<1>2. QED
    BY <1>1, TrackInvHolds, PTL

\* No number of polls without a receipt drops a record, and a record dropped
\* on true evidence is never mined.
THEOREM DroppedOnlyOnProof == Spec => []DroppedIsProved
<1>1. TrackInv => DroppedIsProved
    <2> SUFFICES ASSUME TrackInv, NEW id \in Ids, records[id].state = "DROPPED"
                 PROVE  /\ records[id].dropProof
                        /\ HashOf(id) # NoHash => mined[records[id].nonce] # HashOf(id)
        BY DEF DroppedIsProved, HashOf
    <2>1. records[id].dropProof /\ HashOf(id) \in gone \cup {NoHash}
        BY DEF TrackInv, RecordsMatch
    <2>2. HashOf(id) # NoHash =>
              HashOf(id) \in gone /\ TxNonce[HashOf(id)] = records[id].nonce
        BY <2>1 DEF TrackInv, RecordsMatch
    <2>3. QED
        BY <2>1, <2>2 DEF TrackInv, GoneNeverMined
<1>2. QED
    BY <1>1, TrackInvHolds, PTL

\* Terminal records are final: late answers of polls and late calls bounce.
THEOREM TerminalForGood == Spec => TerminalIsFinal
<1> DEFINE Kept(id) == /\ records'[id].state = records[id].state
                       /\ records'[id].hash = records[id].hash
                       /\ records'[id].replacedBy = records[id].replacedBy
<1>1. TrackInv /\ [Next]_vars =>
          [\A id \in Ids : records[id].state \in TerminalStates => Kept(id)]_vars
    <2> SUFFICES ASSUME TrackInv, Next, NEW k \in Ids,
                        records[k].state \in TerminalStates
                 PROVE  Kept(k)
        OBVIOUS
    <2>1. records \in [Ids -> Record]
        BY DEF TrackInv, TypeOK
    <2>2. /\ records[k].state \notin {"none", "RESERVED"}
          /\ \A to : Legal(k, to) => to = records[k].state
        BY DEF TerminalStates, Final, Legal, ALLOWED, States
    <2>3. ASSUME NEW id \in Ids, NEW to, Legal(id, to),
                 \/ records' = [records EXCEPT ![id].state = to]
                 \/ records' = [records EXCEPT ![id].state = to, ![id].dropProof = TRUE]
          PROVE  Kept(k)
        BY <2>1, <2>2, <2>3 DEF Record
    <2>4. ASSUME NEW id \in Ids, Caller(id) PROVE Kept(k)
        <3>1. CASE \E nonce \in Nonces : Create(id, nonce)
            BY <2>1, <2>2, <3>1 DEF Create, Fresh, Known
        <3>2. CASE \E hash \in Hashes : MarkSubmitted(id, hash)
            BY <2>1, <2>2, <3>2 DEF MarkSubmitted
        <3>3. CASE MarkUnknown(id) \/ MarkPending(id) \/ MarkDropped(id)
            BY <2>3, <3>3 DEF MarkUnknown, MarkPending, MarkDropped, Moved
        <3>4. CASE \E new \in Ids, hash \in Hashes : Replace(id, new, hash)
            BY <2>1, <2>2, <3>4 DEF Replace, Fresh, Known
        <3>5. QED
            BY <2>4, <3>1, <3>2, <3>3, <3>4 DEF Caller
    <2>5. ASSUME NEW p \in Polls, Polling(p) PROVE Kept(k)
        <3>1. CASE UNCHANGED records
            BY <3>1
        <3>2. ASSUME NEW to, PollEnd(p, to), poll[p].at # "none" PROVE Kept(k)
            <4>1. poll[p].id \in Ids
                BY <3>2 DEF TrackInv, AnswersHold
            <4>2. QED
                BY <2>3, <3>2, <4>1 DEF PollEnd, Moved
        <3>3. QED
            BY <2>5, <3>1, <3>2 DEF Polling, PollStart, NetworkRight, NetworkWrong,
               NodeAnswers, AnswerApplied
    <2>6. CASE \/ \E hash \in Hashes, outcome \in Receipts : Mine(hash, outcome)
               \/ \E hash \in Hashes : Vanish(hash)
        BY <2>6 DEF Mine, Vanish, trackerVars
    <2>7. QED
        BY <2>4, <2>5, <2>6 DEF Next
<1>2. QED
    BY <1>1, TrackInvHolds, PTL DEF Spec, TerminalIsFinal
=============================================================================
