------------------------ MODULE NonceLifecycleProofs ------------------------
(***************************************************************************)
(* Proofs about the journal: what each operation does to the two copies,    *)
(* and the properties of JournalSpec for every number of nonces and every   *)
(* set of hashes.                                                           *)
(*                                                                         *)
(* Proofs about the nonce lifecycle, for every number of nonces, executors, *)
(* hashes, crashes and reconnections: types, the safety properties that the *)
(* journal exists for, and that the lifecycle implements NonceOwnership;    *)
(* and what holds of the manager whoever calls it.                          *)
(***************************************************************************)
EXTENDS NonceLifecycle, TLAPS

-----------------------------------------------------------------------------
(* The operations                                                           *)

\* What every operation on the record of nonce n has in common: the other
\* records keep their value in memory, and the file either keeps its content
\* or receives all of memory (_save, nonce-journal.js:225-251).
Touches(n) ==
    /\ mem' \in [Nonces -> Record]
    /\ disk' = disk \/ disk' = mem'
    /\ \A k \in Nonces : k # n => mem'[k] = mem[k]

\* A transition moves the record of n to state `to`, or changes nothing.
LEMMA MoveFacts ==
    ASSUME JournalTypeOK, NEW n \in Nonces, NEW to \in States,
           NEW hash \in Hashes \cup {NoHash}, NEW ok \in BOOLEAN,
           Move(n, to, hash, ok)
    PROVE  /\ Touches(n)
           /\ \/ mem'[n] = mem[n] /\ disk' = disk
              \/ MayMove(n, to) /\ mem'[n].state = to /\ mem'[n].hash = hash
  <1>1. CASE MayMove(n, to)
    <2>1. mem' = [mem EXCEPT ![n] = [state |-> to, hash |-> hash]] /\ Save(ok)
      BY <1>1 DEF Move
    <2>2. [state |-> to, hash |-> hash] \in Record
      BY DEF Record
    <2> QED
      BY <1>1, <2>1, <2>2 DEF Touches, Save, JournalTypeOK
  <1>2. CASE ~MayMove(n, to)
    BY <1>2 DEF Move, Touches, JournalTypeOK, journalVars
  <1> QED
    BY <1>1, <1>2

\* The same of reserve().
LEMMA ReserveFacts ==
    ASSUME JournalTypeOK, NEW n \in Nonces, NEW ok \in BOOLEAN, JReserve(n, ok)
    PROVE  /\ Touches(n)
           /\ \/ mem'[n] = mem[n] /\ disk' = disk
              \/ /\ mem[n].state \in Reusable
                 /\ mem'[n] = [state |-> "RESERVED", hash |-> NoHash]
  <1>1. [state |-> "RESERVED", hash |-> NoHash] \in Record
    BY DEF Record, States, Outstanding
  <1>2. CASE mem[n].state \in Reusable
    BY <1>1, <1>2 DEF JReserve, Touches, Save, JournalTypeOK
  <1>3. CASE mem[n].state \notin Reusable
    BY <1>3 DEF JReserve, Touches, JournalTypeOK, journalVars
  <1> QED
    BY <1>2, <1>3

\* Every operation touches one record.  It reserves a reusable record, or
\* follows the table of transitions; the new state has a hash exactly when it
\* claims that a transaction exists.
LEMMA CallFacts ==
    ASSUME JournalTypeOK, NEW n \in Nonces, NEW ok \in BOOLEAN, Call(n, ok)
    PROVE  /\ Touches(n)
           /\ \/ mem'[n] = mem[n] /\ disk' = disk
              \/ /\ mem[n].state \in Reusable
                 /\ mem'[n] = [state |-> "RESERVED", hash |-> NoHash]
              \/ /\ MayMove(n, mem'[n].state)
                 /\ mem'[n].state \in Submitted \cup Confirmed => mem'[n].hash # NoHash
                 /\ mem'[n].state \in {"APPROVED", "ROLLED_BACK"} =>
                        mem'[n].hash = mem[n].hash
  <1>0. mem[n].hash \in Hashes \cup {NoHash}
    BY DEF JournalTypeOK, Record
  <1>1. CASE JReserve(n, ok)
    BY <1>1, ReserveFacts
  <1>2. ASSUME NEW to \in {"APPROVED", "UNKNOWN", "DROPPED", "ROLLED_BACK"},
               Move(n, to, mem[n].hash, ok)
        PROVE  /\ Touches(n)
               /\ \/ mem'[n] = mem[n] /\ disk' = disk
                  \/ /\ MayMove(n, mem'[n].state)
                     /\ mem'[n].state \notin Submitted \cup Confirmed
                     /\ mem'[n].hash = mem[n].hash
    <2>1. to \in States /\ to \notin Submitted \cup Confirmed
      BY DEF States, Terminal, Outstanding, Submitted, Confirmed
    <2>2. /\ Touches(n)
          /\ \/ mem'[n] = mem[n] /\ disk' = disk
             \/ MayMove(n, to) /\ mem'[n].state = to /\ mem'[n].hash = mem[n].hash
      BY <1>0, <1>2, <2>1, MoveFacts
    <2> QED
      BY <2>1, <2>2
  <1>3. CASE JApprove(n, ok) \/ JMarkUnknown(n, ok) \/ JDrop(n, ok) \/ JRolledBack(n, ok)
    BY <1>2, <1>3 DEF JApprove, JMarkUnknown, JDrop, JRolledBack
  <1>4. CASE \E hash \in Hashes \cup {NoHash}, channel \in {"public", "private"} :
                 JCommit(n, hash, channel, ok)
    <2>1. PICK hash \in Hashes \cup {NoHash}, channel \in {"public", "private"} :
                 Move(n, CommitState(hash, channel), hash, ok)
      BY <1>4 DEF JCommit
    <2>2. /\ CommitState(hash, channel) \in States \ {"APPROVED", "ROLLED_BACK"}
          /\ CommitState(hash, channel) \in Submitted \cup Confirmed => hash # NoHash
      BY DEF CommitState, States, Outstanding, Submitted, Confirmed
    <2> QED
      BY <2>1, <2>2, MoveFacts
  <1>5. CASE \E to \in Confirmed, hash \in Hashes : JConfirm(n, to, hash, ok)
    <2>1. PICK to \in Confirmed, hash \in Hashes : JConfirm(n, to, hash, ok)
      BY <1>5
    <2>2. to \in States \ {"APPROVED", "ROLLED_BACK"}
      BY DEF States, Terminal, Confirmed
    <2>3. CASE mem[n].hash # NoHash /\ mem[n].hash = hash
      BY <1>0, <2>1, <2>2, <2>3, MoveFacts DEF JConfirm
    <2>4. CASE ~(mem[n].hash # NoHash /\ mem[n].hash = hash)
      BY <2>1, <2>4 DEF JConfirm, Touches, JournalTypeOK, journalVars
    <2> QED
      BY <2>3, <2>4
  <1> QED
    BY <1>1, <1>3, <1>4, <1>5 DEF Call

-----------------------------------------------------------------------------
(* The journal                                                              *)

\* What makes the properties inductive: a record confirmed in the file is the
\* same in memory, so no later write can replace it.
JournalInv ==
    /\ JournalTypeOK
    /\ HashWhereClaimed
    /\ \A n \in Nonces : disk[n].state \in Confirmed => mem[n] = disk[n]

LEMMA JournalInit_Inv == JournalInit => JournalInv
  BY DEF JournalInit, JournalInv, JournalTypeOK, HashWhereClaimed, EmptyJournal,
         NoRecord, Record, Submitted, Confirmed

LEMMA JournalNext_Inv == JournalInv /\ [JournalNext]_journalVars => JournalInv'
  <1> SUFFICES ASSUME JournalInv, [JournalNext]_journalVars
               PROVE  JournalInv'
    OBVIOUS
  <1>1. ASSUME NEW n \in Nonces, NEW ok \in BOOLEAN, Call(n, ok)
        PROVE  JournalInv'
    <2>1. /\ Touches(n)
          /\ \/ mem'[n] = mem[n] /\ disk' = disk
             \/ /\ mem[n].state \in Reusable
                /\ mem'[n] = [state |-> "RESERVED", hash |-> NoHash]
             \/ /\ MayMove(n, mem'[n].state)
                /\ mem'[n].state \in Submitted \cup Confirmed => mem'[n].hash # NoHash
                /\ mem'[n].state \in {"APPROVED", "ROLLED_BACK"} =>
                       mem'[n].hash = mem[n].hash
      BY <1>1, CallFacts DEF JournalInv
    <2>2. JournalTypeOK'
      BY <2>1 DEF JournalInv, JournalTypeOK, Touches
    <2>3. MayMove(n, mem'[n].state) =>
             /\ mem[n].state \notin Terminal \cup {"NONE"}
             /\ mem'[n].state \notin {"NONE", "RESERVED"}
             /\ mem'[n].state \in {"APPROVED", "ROLLED_BACK"} =>
                    mem[n].state \in {"RESERVED", "APPROVED"}
      BY DEF MayMove, Allowed, States, Terminal, Outstanding, Submitted, Confirmed
    <2>4. ASSUME NEW k \in Nonces
          PROVE  /\ mem'[k].state \in Submitted \cup Confirmed => mem'[k].hash # NoHash
                 /\ mem'[k].state \in {"NONE", "RESERVED", "APPROVED", "ROLLED_BACK"} =>
                        mem'[k].hash = NoHash
                 /\ disk[k].state \in Confirmed => mem'[k] = disk[k]
      <3>1. CASE k = n
        BY <2>1, <2>3, <3>1 DEF JournalInv, HashWhereClaimed, Submitted, Confirmed,
                                 Reusable, Terminal
      <3>2. CASE k # n
        BY <2>1, <3>2 DEF JournalInv, HashWhereClaimed, Touches
      <3> QED
        BY <3>1, <3>2
    <2>5. HashWhereClaimed'
      BY <2>1, <2>4 DEF JournalInv, HashWhereClaimed, Touches
    <2>6. \A k \in Nonces : disk'[k].state \in Confirmed => mem'[k] = disk'[k]
      BY <2>1, <2>4 DEF Touches
    <2> QED
      BY <2>2, <2>5, <2>6 DEF JournalInv
  <1>2. CASE Restart
    BY <1>2 DEF Restart, Load, JournalInv, JournalTypeOK, HashWhereClaimed
  <1>3. CASE UNCHANGED journalVars
    BY <1>3 DEF journalVars, JournalInv, JournalTypeOK, HashWhereClaimed
  <1> QED
    BY <1>1, <1>2, <1>3 DEF JournalNext

LEMMA JournalInvariant == JournalSpec => []JournalInv
  BY JournalInit_Inv, JournalNext_Inv, PTL DEF JournalSpec

\* A record claims a transaction exactly when it has its hash, in memory and
\* in the file, whatever writes fail (nonce-journal.js:330-439).
THEOREM JournalConsistent == JournalSpec => [](JournalTypeOK /\ HashWhereClaimed)
  <1>1. JournalInv => JournalTypeOK /\ HashWhereClaimed
    BY DEF JournalInv
  <1> QED
    BY <1>1, JournalInvariant, PTL

\* A confirmed nonce stays confirmed in the file under its own hash: no
\* sequence of calls, failed writes and restarts reopens it
\* (nonce-journal.js:54-67).
THEOREM ConfirmedForever == JournalSpec => ConfirmedIsForever
  <1>1. ASSUME JournalInv, JournalInv', [JournalNext]_journalVars
        PROVE  [\A n \in Nonces :
                   disk[n].state \in Confirmed => disk'[n] = disk[n]]_journalVars
    <2> SUFFICES ASSUME NEW k \in Nonces, disk[k].state \in Confirmed,
                        JournalNext
                 PROVE  disk'[k] = disk[k]
      BY <1>1
    <2>1. ASSUME NEW n \in Nonces, NEW ok \in BOOLEAN, Call(n, ok)
          PROVE  disk'[k] = disk[k]
      <3>1. /\ Touches(n)
            /\ \/ mem'[n] = mem[n]
               \/ mem[n].state \in Reusable
               \/ MayMove(n, mem'[n].state)
        BY <1>1, <2>1, CallFacts DEF JournalInv
      <3>2. mem[k].state \notin Reusable /\ ~MayMove(k, mem'[k].state)
        BY <1>1 DEF JournalInv, Reusable, MayMove, Allowed, States, Terminal,
                    Outstanding, Submitted, Confirmed
      <3>3. mem'[k] = mem[k]
        BY <3>1, <3>2 DEF Touches
      <3> QED
        BY <1>1, <3>1, <3>3 DEF JournalInv, Touches
    <2> QED
      BY <2>1 DEF JournalNext, Restart
  <1> QED
    BY <1>1, JournalInvariant, PTL DEF JournalSpec, ConfirmedIsForever

\* While memory agrees that a nonce was sent, the file forgets it only for a
\* receipt or for drop evidence (nonce-journal.js:7-10).
THEOREM EvidenceRequired == JournalSpec => SentNeedsEvidence
  <1>1. ASSUME JournalInv, [JournalNext]_journalVars
        PROVE  [\A n \in Nonces :
                   mem[n].state \in Sent /\ disk[n].state \in Sent
                   => disk'[n].state \in Sent \cup Confirmed \cup {"DROPPED"}]_journalVars
    <2> SUFFICES ASSUME NEW k \in Nonces, mem[k].state \in Sent, disk[k].state \in Sent,
                        JournalNext
                 PROVE  disk'[k].state \in Sent \cup Confirmed \cup {"DROPPED"}
      BY <1>1
    <2>1. ASSUME NEW n \in Nonces, NEW ok \in BOOLEAN, Call(n, ok)
          PROVE  disk'[k].state \in Sent \cup Confirmed \cup {"DROPPED"}
      <3>1. /\ Touches(n)
            /\ \/ mem'[n] = mem[n]
               \/ mem[n].state \in Reusable
               \/ MayMove(n, mem'[n].state)
        BY <1>1, <2>1, CallFacts DEF JournalInv
      <3>2. /\ mem[k].state \notin Reusable
            /\ MayMove(k, mem'[k].state) =>
                   mem'[k].state \in Sent \cup Confirmed \cup {"DROPPED"}
        BY DEF Reusable, MayMove, Allowed, States, Terminal, Outstanding, Sent,
               Submitted, Confirmed
      <3>3. mem'[k].state \in Sent \cup Confirmed \cup {"DROPPED"}
        BY <3>1, <3>2 DEF Touches
      <3> QED
        BY <3>1, <3>3 DEF Touches
    <2> QED
      BY <2>1 DEF JournalNext, Restart
  <1> QED
    BY <1>1, JournalInvariant, PTL DEF JournalSpec, SentNeedsEvidence

-----------------------------------------------------------------------------
(* Types                                                                    *)

ManagerTypes == JournalTypeOK /\ ManagerTypeOK

\* A journal call of the manager, or none, keeps the journal's types.
LEMMA CallTypes ==
    ASSUME JournalTypeOK, NEW n \in Nonces, NEW ok \in BOOLEAN,
           Call(n, ok) \/ UNCHANGED journalVars
    PROVE  JournalTypeOK'
  BY CallFacts DEF Touches, JournalTypeOK, journalVars

\* Each operation of the manager keeps its fields and the journal well typed.
LEMMA ReserveTypes ==
    ASSUME ManagerTypes, NEW n \in Nonces, NEW v \in NextRange,
           NEW ok \in BOOLEAN, Reserve(n, v, ok)
    PROVE  ManagerTypes'
  <1>1. JournalTypeOK'
    BY CallTypes DEF Reserve, Call, NoJournalWrite, ManagerTypes
  <1>2. ManagerTypeOK'
    BY NonceBound DEF Reserve, ManagerTypes, ManagerTypeOK, NextRange, Nonces
  <1> QED
    BY <1>1, <1>2 DEF ManagerTypes

LEMMA MarkApprovedTypes ==
    ASSUME ManagerTypes, NEW n \in Nonces, NEW ok \in BOOLEAN, MarkApproved(n, ok)
    PROVE  ManagerTypes'
  <1>1. JournalTypeOK'
    BY CallTypes DEF MarkApproved, Call, NoJournalWrite, ManagerTypes
  <1>2. ManagerTypeOK'
    BY DEF MarkApproved, ManagerTypes, ManagerTypeOK, managerVars, Slots
  <1> QED
    BY <1>1, <1>2 DEF ManagerTypes

LEMMA CommitTypes ==
    ASSUME ManagerTypes, NEW n \in Nonces, NEW hash \in Hashes \cup {NoHash},
           NEW channel \in {"private", "public"}, NEW ok \in BOOLEAN,
           Commit(n, hash, channel, ok)
    PROVE  ManagerTypes'
  <1>1. JournalTypeOK'
    BY CallTypes DEF Commit, Call, NoJournalWrite, ManagerTypes
  <1>2. ManagerTypeOK'
    BY DEF Commit, ManagerTypes, ManagerTypeOK
  <1> QED
    BY <1>1, <1>2 DEF ManagerTypes

LEMMA RollbackTypes ==
    ASSUME ManagerTypes, NEW n \in Nonces, NEW ok \in BOOLEAN, Rollback(n, ok)
    PROVE  ManagerTypes'
  <1>1. JournalTypeOK'
    BY CallTypes DEF Rollback, Call, NoJournalWrite, ManagerTypes
  <1>2. ManagerTypeOK'
    BY NonceBound DEF Rollback, Rewound, ManagerTypes, ManagerTypeOK, NextRange, Nonces
  <1> QED
    BY <1>1, <1>2 DEF ManagerTypes

LEMMA ReleaseDroppedTypes ==
    ASSUME ManagerTypes, NEW n \in Nonces, NEW hash, NEW ok \in BOOLEAN,
           ReleaseDropped(n, hash, ok)
    PROVE  ManagerTypes'
  <1>1. JournalTypeOK'
    BY CallTypes DEF ReleaseDropped, Call, NoJournalWrite, ManagerTypes
  <1>2. next' \in NextRange \cup {Unset}
    BY NonceBound DEF ReleaseDropped, Rewound, ManagerTypes, ManagerTypeOK, NextRange, Nonces
  <1>3. blocked' \subseteq Nonces
    BY DEF ReleaseDropped, NoJournalWrite, ManagerTypes, ManagerTypeOK
  <1>4. pending' \in [Nonces -> Hashes \cup {NoHash, NoSlot}]
    BY DEF ReleaseDropped, ManagerTypes, ManagerTypeOK
  <1> QED
    BY <1>1, <1>2, <1>3, <1>4 DEF ReleaseDropped, ManagerTypes, ManagerTypeOK

LEMMA ReapSlotTypes ==
    ASSUME ManagerTypes, NEW n \in Nonces, NEW hash \in Hashes,
           NEW to \in Confirmed, NEW ok \in BOOLEAN, ReapSlot(n, hash, to, ok)
    PROVE  ManagerTypes'
  <1>1. JournalTypeOK'
    BY CallTypes DEF ReapSlot, Call, NoJournalWrite, ManagerTypes
  <1>2. ManagerTypeOK'
    BY DEF ReapSlot, ManagerTypes, ManagerTypeOK
  <1> QED
    BY <1>1, <1>2 DEF ManagerTypes

LEMMA ResyncTypes ==
    ASSUME ManagerTypes, NEW v \in NextRange, Resync(v)
    PROVE  ManagerTypes'
  BY DEF Resync, Larger, ManagerTypes, ManagerTypeOK, JournalTypeOK, journalVars

LEMMA BindTypes ==
    ASSUME ManagerTypes, NEW v \in NextRange, Bind(v)
    PROVE  ManagerTypes'
  <1>1. JournalTypeOK'
    BY DEF Bind, Load, ManagerTypes, JournalTypeOK
  <1>2. ManagerTypeOK'
    BY DEF Bind, Larger, OutstandingIn, NoPending, ManagerTypes, ManagerTypeOK
  <1> QED
    BY <1>1, <1>2 DEF ManagerTypes

LEMMA BindWithoutJournalTypes ==
    ASSUME ManagerTypes, BindWithoutJournal
    PROVE  ManagerTypes'
  <1>1. JournalTypeOK'
    BY DEF BindWithoutJournal, ManagerTypes, JournalTypeOK, EmptyJournal, NoRecord, Record
  <1>2. ManagerTypeOK'
    BY DEF BindWithoutJournal, NoPending, ManagerTypes, ManagerTypeOK
  <1> QED
    BY <1>1, <1>2 DEF ManagerTypes

LEMMA SealRecoveryTypes ==
    ASSUME ManagerTypes, NEW v \in NextRange \cup {Unset}, SealRecovery(v)
    PROVE  ManagerTypes'
  <1>1. JournalTypeOK'
    BY DEF SealRecovery, ManagerTypes, JournalTypeOK, journalVars
  <1>2. ManagerTypeOK'
    BY DEF SealRecovery, Larger, OutstandingIn, ManagerTypes, ManagerTypeOK
  <1> QED
    BY <1>1, <1>2 DEF ManagerTypes

LEMMA TypeInit == Init => TypeOK
  <1> SUFFICES ASSUME Init
               PROVE  TypeOK
    OBVIOUS
  <1>1. JournalTypeOK
    BY DEF Init, MgrInit, JournalInit, JournalTypeOK, EmptyJournal, NoRecord, Record
  <1>2. ManagerTypeOK
    BY DEF Init, MgrInit, ManagerInit, ManagerTypeOK, NoPending
  <1>3. 0 \in Nonces /\ 0 \in 0..MaxRestarts
    BY NonceBound, RestartBound DEF Nonces
  <1> QED
    BY <1>1, <1>2, <1>3 DEF Init, TypeOK

LEMMA TypeNext == TypeOK /\ [Next]_vars => TypeOK'
  <1> SUFFICES ASSUME TypeOK, [Next]_vars
               PROVE  TypeOK'
    OBVIOUS
  <1>0. ManagerTypes /\ PendingAnswers \subseteq NextRange /\ 0 \in Nonces
    BY NonceBound DEF TypeOK, ManagerTypes, PendingAnswers, Nonces
  <1>1. ASSUME NEW e \in Executors, Execute(e)
        PROVE  TypeOK'
    <2>1. CASE ReserveNonce(e)
      <3>1. PICK n \in Nonces, v \in PendingAnswers, ok \in BOOLEAN :
                /\ Reserve(n, v, ok)
                /\ IF Granted(n, ok)
                   THEN /\ pc' = [pc EXCEPT ![e] = "reserved"]
                        /\ held' = [held EXCEPT ![e] = n]
                   ELSE UNCHANGED <<pc, held>>
        BY <2>1 DEF ReserveNonce
      <3>2. ManagerTypes'
        BY <1>0, <3>1, ReserveTypes
      <3> QED
        BY <2>1, <3>1, <3>2 DEF ReserveNonce, TypeOK, ManagerTypes, processVars,
                                 reapVars, chainVars
    <2>2. CASE GiveUp(e) \/ PublicRefused(e)
      <3>1. ManagerTypes'
        BY <1>0, <2>2, RollbackTypes DEF GiveUp, PublicRefused, TypeOK
      <3>2. atRisk' \in [Nonces -> SUBSET Hashes] /\ used' = used /\ mined' = mined
        BY <2>2 DEF GiveUp, PublicRefused, Refusal, TypeOK, chainVars
      <3> QED
        BY <1>0, <2>2, <3>1, <3>2 DEF GiveUp, PublicRefused, Finish, TypeOK, ManagerTypes,
                                       processVars, reapVars
    <2>3. CASE Approve(e)
      <3>1. ManagerTypes'
        BY <1>0, <2>3, MarkApprovedTypes DEF Approve, TypeOK
      <3> QED
        BY <2>3, <3>1 DEF Approve, TypeOK, ManagerTypes, processVars, reapVars, chainVars
    <2>4. ASSUME NEW channel \in {"private", "public"}, Send(e, channel)
          PROVE  TypeOK'
      BY <2>4 DEF Send, TypeOK, JournalTypeOK, ManagerTypeOK, Slots, nonceVars, managerVars,
                  journalVars, processVars, reapVars
    <2>5. ASSUME NEW channel \in {"private", "public"}, Accepted(e, channel)
          PROVE  TypeOK'
      <3>1. ManagerTypes'
        BY <1>0, <2>5, CommitTypes DEF Accepted, TypeOK
      <3> QED
        BY <1>0, <2>5, <3>1 DEF Accepted, Finish, TypeOK, ManagerTypes, processVars,
                                 reapVars, chainVars
    <2>6. CASE SignFails(e)
      BY <1>0, <2>6 DEF SignFails, Finish, TypeOK, JournalTypeOK, ManagerTypeOK, nonceVars,
                        managerVars, journalVars, processVars, reapVars, chainVars
    <2>7. CASE PrivateFailed(e)
      BY <2>7 DEF PrivateFailed, Refusal, TypeOK, JournalTypeOK, ManagerTypeOK, nonceVars,
                  managerVars, journalVars, processVars, reapVars
    <2> QED
      BY <1>1, <2>1, <2>2, <2>3, <2>4, <2>5, <2>6, <2>7 DEF Execute
  <1>2. CASE Reap
    <2>1. CASE ReapStart
      BY <2>1 DEF ReapStart, TypeOK, JournalTypeOK, ManagerTypeOK, nonceVars, managerVars,
                  journalVars, executorVars, processVars, chainVars
    <2>2. ASSUME NEW n \in Nonces, NEW hash \in Hashes, ReapReceipt(n, hash)
          PROVE  TypeOK'
      <3>1. ManagerTypes'
        BY <1>0, <2>2, ReapSlotTypes DEF ReapReceipt
      <3> QED
        BY <2>2, <3>1 DEF ReapReceipt, TypeOK, ManagerTypes, executorVars, processVars,
                          chainVars
    <2>3. ASSUME NEW n \in Nonces, NEW hash \in Hashes, ReapNothing(n, hash)
          PROVE  TypeOK'
      BY <2>3 DEF ReapNothing, TypeOK, JournalTypeOK, ManagerTypeOK, nonceVars, managerVars,
                  journalVars, executorVars, processVars, chainVars
    <2>4. CASE ReapEnd
      <3>1. ManagerTypes'
        <4>1. CASE UNCHANGED nonceVars
          BY <1>0, <4>1 DEF ManagerTypes, JournalTypeOK, ManagerTypeOK, nonceVars,
                            managerVars, journalVars
        <4>2. CASE \E v \in PendingAnswers : Resync(v)
          BY <1>0, <4>2, ResyncTypes
        <4> QED
          BY <2>4, <4>1, <4>2 DEF ReapEnd
      <3> QED
        BY <2>4, <3>1 DEF ReapEnd, TypeOK, ManagerTypes, executorVars, processVars, chainVars
    <2> QED
      BY <1>2, <2>1, <2>2, <2>3, <2>4 DEF Reap
  <1>3. CASE Reconcile
    <2>1. ManagerTypes'
      BY <1>0, <1>3, ResyncTypes DEF Reconcile
    <2> QED
      BY <1>3, <2>1 DEF Reconcile, TypeOK, ManagerTypes, executorVars, processVars, reapVars,
                        chainVars
  <1>4. ASSUME NEW n \in Nonces, Release(n)
        PROVE  TypeOK'
    <2>1. ManagerTypes'
      BY <1>0, <1>4, ReleaseDroppedTypes DEF Release
    <2> QED
      BY <1>4, <2>1 DEF Release, TypeOK, ManagerTypes, executorVars, processVars, reapVars,
                        chainVars
  <1>5. CASE Chain
    <2>1. ASSUME NEW n \in Nonces, Mine(n)
          PROVE  TypeOK'
      BY <2>1 DEF Mine, TypeOK, JournalTypeOK, ManagerTypeOK, nonceVars, managerVars,
                  journalVars, executorVars, processVars, reapVars
    <2>2. ASSUME NEW n \in Nonces, Evict(n)
          PROVE  TypeOK'
      BY <2>2 DEF Evict, TypeOK, JournalTypeOK, ManagerTypeOK, nonceVars, managerVars,
                  journalVars, executorVars, processVars, reapVars
    <2> QED
      BY <1>5, <2>1, <2>2 DEF Chain
  <1>6. CASE Process
    <2>1. CASE Start \/ Reconnect
      <3>1. ManagerTypes' /\ unrecovered' \subseteq Nonces /\ process' = "recovering"
        BY <1>0, <2>1, BindTypes DEF Start, Reconnect, BindManager, OutstandingIn
      <3>2. restarts' \in 0..MaxRestarts
        BY <2>1, RestartBound DEF Start, Reconnect, TypeOK
      <3> QED
        BY <2>1, <3>1, <3>2 DEF Start, Reconnect, TypeOK, ManagerTypes, executorVars,
                                 reapVars, chainVars
    <2>2. ASSUME NEW n \in Nonces, RecoverRecord(n)
          PROVE  TypeOK'
      <3>1. JournalTypeOK'
        <4>1. ASSUME NEW to \in Confirmed, NEW ok \in BOOLEAN, JConfirm(n, to, mined[n], ok)
              PROVE  JournalTypeOK'
          <5>1. CASE mined[n] = NoHash
            BY <1>0, <4>1, <5>1 DEF JConfirm, ManagerTypes, JournalTypeOK, journalVars
          <5>2. CASE mined[n] \in Hashes
            BY <1>0, <4>1, <5>2, CallTypes DEF Call, ManagerTypes
          <5> QED
            BY <5>1, <5>2 DEF TypeOK
        <4>2. ASSUME NEW ok \in BOOLEAN, JMarkUnknown(n, ok)
              PROVE  JournalTypeOK'
          BY <1>0, <4>2, CallTypes DEF Call, ManagerTypes
        <4>3. CASE UNCHANGED journalVars
          BY <1>0, <4>3 DEF ManagerTypes, JournalTypeOK, journalVars
        <4> QED
          BY <2>2, <4>1, <4>2, <4>3 DEF RecoverRecord
      <3> QED
        BY <2>2, <3>1 DEF RecoverRecord, TypeOK, ManagerTypeOK, managerVars, executorVars,
                          reapVars, chainVars
    <2>3. CASE RecoverDone
      <3>1. ManagerTypes'
        BY <1>0, <2>3, SealRecoveryTypes DEF RecoverDone
      <3> QED
        BY <2>3, <3>1 DEF RecoverDone, TypeOK, ManagerTypes, executorVars, reapVars, chainVars
    <2>4. CASE ReconnectInitFails
      <3>1. ManagerTypes'
        BY <1>0, <2>4, BindWithoutJournalTypes DEF ReconnectInitFails
      <3>2. restarts' \in 0..MaxRestarts
        BY <2>4, RestartBound DEF ReconnectInitFails, TypeOK
      <3> QED
        BY <2>4, <3>1, <3>2 DEF ReconnectInitFails, TypeOK, ManagerTypes, executorVars,
                                 reapVars, chainVars
    <2>5. CASE Crash
      <3>1. ManagerTypes'
        BY <1>0, <2>5, BindWithoutJournalTypes DEF Crash
      <3>2. restarts' \in 0..MaxRestarts
        BY <2>5, RestartBound DEF Crash, TypeOK
      <3> QED
        BY <1>0, <2>5, <3>1, <3>2 DEF Crash, TypeOK, ManagerTypes, chainVars
    <2> QED
      BY <1>6, <2>1, <2>2, <2>3, <2>4, <2>5 DEF Process
  <1>7. CASE UNCHANGED vars
    BY <1>7 DEF vars, TypeOK, JournalTypeOK, ManagerTypeOK, nonceVars, managerVars,
                journalVars, executorVars, processVars, reapVars, chainVars
  <1> QED
    BY <1>1, <1>2, <1>3, <1>4, <1>5, <1>6, <1>7 DEF Next

\* The bot's state has the types its constructors and assignments give it, in
\* every behaviour (nonce.js:37-55, nonce-journal.js:28-67).
THEOREM TypeCorrect == Spec => []TypeOK
  BY TypeInit, TypeNext, PTL DEF Spec

-----------------------------------------------------------------------------
(* The inductive invariant                                                  *)

\* The journal part of IndInv after a step that touches the record of one
\* nonce: only that record has to be looked at, because memory always knows
\* what is at risk and may be written to the file at any time.
LEMMA JournalStep ==
    ASSUME IndInv, NEW n \in Nonces, Touches(n), process # "down",
           mined' = mined, \A k \in Nonces : atRisk'[k] \subseteq atRisk[k],
           mem'[n].state \in Confirmed =>
               mem'[n].hash # NoHash /\ mem'[n].hash = mined[n],
           atRisk'[n] # {} => mem'[n].state \in Outstanding \cup Confirmed
    PROVE  MemoryKnowsRisk' /\ WriteBeforeRisk' /\ ConfirmedHasHash' /\ ConfirmedOnlyIfMined'
  <1>1. ASSUME NEW k \in Nonces
        PROVE  /\ mem'[k].state \in Confirmed =>
                      mem'[k].hash # NoHash /\ mem'[k].hash = mined[k]
               /\ atRisk'[k] # {} => mem'[k].state \in Outstanding \cup Confirmed
    BY DEF Touches, IndInv, MemoryKnowsRisk, ConfirmedHasHash, ConfirmedOnlyIfMined
  <1>2. ASSUME NEW k \in Nonces
        PROVE  /\ disk'[k].state \in Confirmed =>
                      disk'[k].hash # NoHash /\ disk'[k].hash = mined[k]
               /\ atRisk'[k] # {} => disk'[k].state \in Outstanding \cup Confirmed
    BY <1>1 DEF Touches, IndInv, WriteBeforeRisk, ConfirmedHasHash, ConfirmedOnlyIfMined
  <1> QED
    BY <1>1, <1>2 DEF MemoryKnowsRisk, WriteBeforeRisk, ConfirmedHasHash, ConfirmedOnlyIfMined

\* The other executions keep what they own when a step touches the record of
\* a nonce that none of them holds.
LEMMA HolderStep ==
    ASSUME IndInv, NEW n \in Nonces, Touches(n), process' = process,
           NEW f \in Executors, Busy(f), held[f] # n,
           pc'[f] = pc[f], held'[f] = held[f], sending'[f] = sending[f],
           reserved \ {n} \subseteq reserved',
           atRisk'[held[f]] \subseteq atRisk[held[f]]
    PROVE  OwnsNonce(f)'
  <1>1. OwnsNonce(f) /\ held[f] \in Nonces
    BY DEF IndInv, HoldersOwn, TypeOK
  <1> QED
    BY <1>1 DEF OwnsNonce, Touches, Outstanding

\* An unchanged journal counts as touched.
LEMMA Untouched ==
    ASSUME JournalTypeOK, UNCHANGED journalVars, NEW n \in Nonces
    PROVE  Touches(n) /\ mem' = mem /\ disk' = disk
  BY DEF Touches, JournalTypeOK, journalVars

\* The nonce of an execution: reserved, below next, in no slot, and nobody
\* else's.
LEMMA HeldFacts ==
    ASSUME IndInv, NEW e \in Executors, Busy(e)
    PROVE  /\ held[e] \in Nonces /\ held[e] \in reserved \ Slots
           /\ held[e] < next /\ pending[held[e]] = NoSlot
           /\ mem[held[e]].state \in {"RESERVED", "APPROVED"}
           /\ disk[held[e]].state \in Outstanding
           /\ atRisk[held[e]] \subseteq
                  IF pc[e] \in {"private", "public"} THEN {sending[e]} ELSE {}
           /\ process = "up" /\ attached
           /\ \A f \in Executors : f # e /\ Busy(f) => held[f] # held[e]
  BY DEF IndInv, HoldersOwn, OwnsNonce, HoldersDiffer, OwnedBelowNext, TypeOK, Slots,
         AttachedWhileAlive

\* reserve() hands out a nonce at or above next: nothing of it is at risk and
\* nobody owns it.
LEMMA ReserveNonceInv ==
    ASSUME IndInv, TypeOK', NEW e \in Executors, ReserveNonce(e)
    PROVE  IndInv'
  <1>1. PICK n \in Nonces, v \in PendingAnswers, ok \in BOOLEAN :
            /\ Reserve(n, v, ok)
            /\ IF Granted(n, ok)
               THEN /\ pc' = [pc EXCEPT ![e] = "reserved"]
                    /\ held' = [held EXCEPT ![e] = n]
               ELSE UNCHANGED <<pc, held>>
    BY DEF ReserveNonce
  <1>2. /\ process = "up" /\ ~Busy(e) /\ attached
        /\ UNCHANGED <<sending, process, atRisk, mined, pending, blocked, attached>>
        /\ next' = n + 1 /\ reserved' = reserved \cup {n}
        /\ JReserve(n, ok)
    BY <1>1 DEF ReserveNonce, Running, Busy, processVars, chainVars, Reserve, IndInv,
                AttachedWhileAlive
  <1>3. n >= next /\ next \in Int /\ n \in Int
    <2>1. v \in Nat /\ next \in Int /\ n \in Int
      BY NonceBound DEF PendingAnswers, NextRange, IndInv, TypeOK, ManagerTypeOK, Unset, Nonces
    <2> QED
      BY <1>1, <2>1 DEF Reserve, FirstUnblocked, Unset
  <1>4. atRisk[n] = {} /\ n \notin reserved \cup Slots
    BY <1>2, <1>3 DEF IndInv, FreshAboveNext, OwnedBelowNext
  <1>5. /\ Touches(n)
        /\ \/ mem'[n] = mem[n] /\ disk' = disk
           \/ /\ mem[n].state \in Reusable
              /\ mem'[n] = [state |-> "RESERVED", hash |-> NoHash]
    BY <1>2, ReserveFacts DEF IndInv, TypeOK
  <1>6. MemoryKnowsRisk' /\ WriteBeforeRisk' /\ ConfirmedHasHash' /\ ConfirmedOnlyIfMined'
    <2>1. mem'[n].state \in Confirmed => mem'[n].hash # NoHash /\ mem'[n].hash = mined[n]
      BY <1>5 DEF Confirmed, IndInv, ConfirmedHasHash, ConfirmedOnlyIfMined
    <2> QED
      BY <1>2, <1>4, <1>5, <2>1, JournalStep
  <1>7. \A f \in Executors : Busy(f) => held[f] # n
    BY <1>4 DEF IndInv, HoldersOwn, OwnsNonce
  <1>8. ASSUME NEW f \in Executors, Busy(f)'
        PROVE  OwnsNonce(f)' /\ (held'[f] = n => f = e)
    <2>1. CASE Busy(f)
      <3>1. pc'[f] = pc[f] /\ held'[f] = held[f]
        BY <1>1, <1>2, <2>1 DEF IndInv, TypeOK
      <3> QED
        BY <1>2, <1>5, <1>7, <2>1, <3>1, HolderStep
    <2>2. CASE ~Busy(f)
      <3>1. f = e /\ Granted(n, ok) /\ held'[f] = n /\ pc'[f] = "reserved"
        BY <1>1, <1>8, <2>2 DEF Busy, IndInv, TypeOK
      <3>2. mem'[n].state = "RESERVED" /\ disk' = mem'
        BY <1>2, <3>1 DEF Granted, JReserve, Save, IndInv, TypeOK, JournalTypeOK
      <3> QED
        BY <1>2, <1>4, <3>1, <3>2 DEF OwnsNonce, Outstanding
    <2> QED
      BY <2>1, <2>2
  <1>9. HoldersOwn'
    BY <1>8 DEF HoldersOwn
  <1>10. HoldersDiffer'
    <2>1. \A f \in Executors : f # e => pc'[f] = pc[f] /\ held'[f] = held[f]
      BY <1>1 DEF IndInv, TypeOK
    <2>2. \A f \in Executors : Busy(f)' /\ f # e => held'[f] # n /\ Busy(f)
      BY <1>8, <2>1 DEF Busy
    <2>3. Busy(e)' => held'[e] = n
      BY <1>1, <1>2 DEF Busy, IndInv, TypeOK
    <2> QED
      BY <2>1, <2>2, <2>3 DEF HoldersDiffer, IndInv
  <1>11. OwnedBelowNext'
    <2>1. Slots' = Slots
      BY <1>2 DEF Slots
    <2>2. \A k \in reserved \cup Slots : k < next /\ k \in Int
      BY DEF IndInv, OwnedBelowNext, TypeOK, ManagerTypeOK, Slots, Nonces
    <2>3. reserved \cap Slots = {}
      BY DEF IndInv, OwnedBelowNext
    <2>4. \A k \in reserved' \cup Slots' : k < next'
      BY <1>2, <1>3, <2>1, <2>2
    <2> QED
      BY <1>2, <1>4, <2>1, <2>3, <2>4 DEF OwnedBelowNext
  <1>12. FreshAboveNext'
    BY <1>2, <1>3 DEF FreshAboveNext, IndInv, Nonces
  <1>13. AttachedWhileAlive' /\ SlotRisk' /\ MinedWasSent' /\ OneTransactionPerNonce'
    BY <1>2 DEF AttachedWhileAlive, SlotRisk, MinedWasSent, OneTransactionPerNonce, IndInv
  <1>14. AtRiskIsOwned'
    BY <1>2 DEF AtRiskIsOwned, IndInv, Slots
  <1> QED
    BY <1>6, <1>9, <1>10, <1>11, <1>12, <1>13, <1>14 DEF IndInv

\* When an execution ends, the others keep their nonces.
LEMMA FinishHolders ==
    ASSUME IndInv, NEW e \in Executors, Finish(e),
           \A f \in Executors : f # e /\ Busy(f) => OwnsNonce(f)'
    PROVE  HoldersOwn' /\ HoldersDiffer'
  <1>1. \A f \in Executors : Busy(f)' => f # e /\ Busy(f) /\ held'[f] = held[f]
    BY DEF Finish, Busy, IndInv, TypeOK
  <1> QED
    BY <1>1 DEF HoldersOwn, HoldersDiffer, IndInv

\* When an execution moves on with its nonce, all keep what they own.
LEMMA AdvanceHolders ==
    ASSUME IndInv, NEW e \in Executors, Busy(e), NEW to, held' = held,
           pc' = [pc EXCEPT ![e] = to],
           \A f \in Executors : Busy(f) => OwnsNonce(f)'
    PROVE  HoldersOwn' /\ HoldersDiffer'
  <1>1. \A f \in Executors : Busy(f)' => Busy(f) /\ held'[f] = held[f]
    BY DEF Busy, IndInv, TypeOK
  <1> QED
    BY <1>1 DEF HoldersOwn, HoldersDiffer, IndInv

\* An execution that gives its nonce back, when nothing of it is at risk any
\* more, may rewind next: only this nonce becomes available again.
LEMMA RollbackInv ==
    ASSUME IndInv, TypeOK', NEW e \in Executors, Busy(e), NEW ok \in BOOLEAN,
           Rollback(held[e], ok), Finish(e), process' = process, mined' = mined,
           atRisk'[held[e]] = {}, mined[held[e]] = NoHash,
           \A k \in Nonces : k # held[e] => atRisk'[k] = atRisk[k]
    PROVE  IndInv'
  <1> DEFINE n == held[e]
  <1>1. /\ n \in Nonces /\ n \in reserved \ Slots /\ n < next
        /\ mem[n].state \in {"RESERVED", "APPROVED"}
        /\ process = "up" /\ attached
        /\ \A f \in Executors : f # e /\ Busy(f) => held[f] # n
    BY HeldFacts
  <1>2. /\ JRolledBack(n, ok) /\ next' = Rewound(n, Slots) /\ reserved' = reserved \ {n}
        /\ UNCHANGED <<pending, blocked, attached>>
    BY <1>1 DEF Rollback
  <1>3. Touches(n) /\ (mem'[n] = mem[n] \/ mem'[n].state = "ROLLED_BACK")
    <2>1. mem[n].hash \in Hashes \cup {NoHash} /\ JournalTypeOK
      BY <1>1 DEF IndInv, TypeOK, JournalTypeOK, Record
    <2>2. "ROLLED_BACK" \in States
      BY DEF States, Terminal
    <2> QED
      BY <1>1, <1>2, <2>1, <2>2, MoveFacts DEF JRolledBack
  <1>4. MemoryKnowsRisk' /\ WriteBeforeRisk' /\ ConfirmedHasHash' /\ ConfirmedOnlyIfMined'
    <2>1. mem'[n].state \notin Confirmed
      BY <1>1, <1>3 DEF Confirmed
    <2> QED
      BY <1>1, <1>3, <2>1, JournalStep
  <1>5. HoldersOwn' /\ HoldersDiffer'
    <2>1. ASSUME NEW f \in Executors, f # e, Busy(f)
          PROVE  OwnsNonce(f)'
      <3>1. held[f] \in Nonces /\ held[f] # n
        BY <1>1, <2>1 DEF IndInv, TypeOK
      <3>2. pc'[f] = pc[f] /\ held'[f] = held[f] /\ sending'[f] = sending[f]
        BY <2>1 DEF Finish, IndInv, TypeOK
      <3> QED
        BY <1>1, <1>2, <1>3, <2>1, <3>1, <3>2, HolderStep
    <2> QED
      BY <2>1, FinishHolders
  <1>6. next' \in {next, n} /\ (next' # next => next = n + 1 /\ Slots = {})
    BY <1>2 DEF Rewound
  <1>7. n \in Int /\ next \in Int /\ reserved \subseteq Int /\ Slots \subseteq Int
    BY <1>1 DEF IndInv, TypeOK, ManagerTypeOK, NextRange, Unset, Nonces, Slots
  <1>8. OwnedBelowNext'
    <2>1. Slots' = Slots
      BY <1>2 DEF Slots
    <2>2. \A k \in reserved' \cup Slots' : k < next'
      BY <1>2, <1>6, <1>7, <2>1 DEF IndInv, OwnedBelowNext
    <2> QED
      BY <1>2, <2>1, <2>2 DEF IndInv, OwnedBelowNext
  <1>9. FreshAboveNext'
    <2>1. ASSUME NEW k \in Nonces, k >= next'
          PROVE  k = n \/ k >= next
      BY <1>6, <1>7, <2>1 DEF Nonces
    <2> QED
      BY <1>1, <2>1 DEF IndInv, FreshAboveNext
  <1>10. AttachedWhileAlive' /\ SlotRisk' /\ MinedWasSent' /\ OneTransactionPerNonce'
    BY <1>1, <1>2 DEF AttachedWhileAlive, SlotRisk, MinedWasSent, OneTransactionPerNonce, IndInv
  <1>11. AtRiskIsOwned'
    <2>1. Slots' = Slots
      BY <1>2 DEF Slots
    <2> QED
      BY <1>1, <1>2, <2>1 DEF AtRiskIsOwned, IndInv
  <1> QED
    BY <1>4, <1>5, <1>8, <1>9, <1>10, <1>11 DEF IndInv

LEMMA GiveUpInv ==
    ASSUME IndInv, TypeOK', NEW e \in Executors, GiveUp(e) \/ PublicRefused(e)
    PROVE  IndInv'
  <1>1. Busy(e)
    BY DEF GiveUp, PublicRefused, Busy
  <1>2. PICK ok \in BOOLEAN : Rollback(held[e], ok)
    BY DEF GiveUp, PublicRefused
  <1>3. Finish(e) /\ process' = process /\ mined' = mined
    BY DEF GiveUp, PublicRefused, Refusal, processVars, chainVars
  <1>4. held[e] \in Nonces /\ atRisk \in [Nonces -> SUBSET Hashes]
    BY DEF IndInv, TypeOK
  <1>5. CASE GiveUp(e)
    <2>1. atRisk[held[e]] = {} /\ atRisk' = atRisk
      BY <1>1, <1>5, HeldFacts DEF GiveUp, chainVars
    <2>2. mined[held[e]] = NoHash
      BY <1>4, <2>1 DEF IndInv, MinedWasSent
    <2> QED
      BY <1>1, <1>2, <1>3, <2>1, <2>2, RollbackInv
  <1>6. CASE PublicRefused(e)
    <2>1. atRisk[held[e]] \subseteq {sending[e]} /\ mined[held[e]] # sending[e]
      BY <1>1, <1>6, HeldFacts DEF PublicRefused, Refusal
    <2>2. atRisk' = [atRisk EXCEPT ![held[e]] = @ \ {sending[e]}]
      BY <1>6 DEF PublicRefused, Refusal
    <2>3. atRisk'[held[e]] = {} /\ \A k \in Nonces : k # held[e] => atRisk'[k] = atRisk[k]
      BY <1>4, <2>1, <2>2
    <2>4. mined[held[e]] = NoHash
      BY <1>4, <2>1 DEF IndInv, MinedWasSent
    <2> QED
      BY <1>1, <1>2, <1>3, <2>3, <2>4, RollbackInv
  <1> QED
    BY <1>5, <1>6

\* Approving changes the record of the nonce, which nobody else holds.
LEMMA ApproveInv ==
    ASSUME IndInv, TypeOK', NEW e \in Executors, Approve(e)
    PROVE  IndInv'
  <1> DEFINE n == held[e]
  <1>1. Busy(e) /\ atRisk[n] = {}
    <2>1. Busy(e) /\ pc[e] = "reserved"
      BY DEF Approve, Busy
    <2> QED
      BY <2>1, HeldFacts
  <1>2. /\ n \in Nonces /\ n \in reserved /\ process = "up" /\ attached
        /\ mem[n].state \in {"RESERVED", "APPROVED"} /\ disk[n].state \in Outstanding
        /\ \A f \in Executors : f # e /\ Busy(f) => held[f] # n
    BY <1>1, HeldFacts
  <1>3. PICK ok \in BOOLEAN : JApprove(n, ok)
    BY <1>2 DEF Approve, MarkApproved
  <1>4. /\ pc' = [pc EXCEPT ![e] = "approved"]
        /\ UNCHANGED <<managerVars, held, sending, process, atRisk, mined>>
    BY DEF Approve, MarkApproved, processVars, chainVars
  <1>5. Touches(n) /\ mem'[n].state \in {"RESERVED", "APPROVED"}
    <2>1. mem[n].hash \in Hashes \cup {NoHash} /\ JournalTypeOK
      BY <1>2 DEF IndInv, TypeOK, JournalTypeOK, Record
    <2>2. "APPROVED" \in States
      BY DEF States, Outstanding
    <2> QED
      BY <1>2, <1>3, <2>1, <2>2, MoveFacts DEF JApprove
  <1>6. MemoryKnowsRisk' /\ WriteBeforeRisk' /\ ConfirmedHasHash' /\ ConfirmedOnlyIfMined'
    <2>1. mem'[n].state \in Outstanding \ Confirmed
      BY <1>5 DEF Outstanding, Confirmed
    <2> QED
      BY <1>2, <1>4, <1>5, <2>1, JournalStep
  <1>7. HoldersOwn' /\ HoldersDiffer'
    <2>1. ASSUME NEW f \in Executors, Busy(f)
          PROVE  OwnsNonce(f)'
      <3>1. CASE f = e
        <4>1. disk'[n].state \in Outstanding
          BY <1>2, <1>5 DEF Touches, Outstanding
        <4> QED
          BY <1>1, <1>2, <1>4, <1>5, <3>1, <4>1 DEF OwnsNonce, managerVars
      <3>2. CASE f # e
        <4>1. held[f] \in Nonces /\ held[f] # n /\ pc'[f] = pc[f]
          BY <1>2, <1>4, <2>1, <3>2 DEF IndInv, TypeOK
        <4> QED
          BY <1>2, <1>4, <1>5, <2>1, <4>1, HolderStep DEF managerVars
      <3> QED
        BY <3>1, <3>2
    <2> QED
      BY <1>1, <1>4, <2>1, AdvanceHolders
  <1>8. /\ OwnedBelowNext' /\ FreshAboveNext' /\ AttachedWhileAlive' /\ SlotRisk'
        /\ MinedWasSent' /\ OneTransactionPerNonce' /\ AtRiskIsOwned'
    BY <1>4 DEF OwnedBelowNext, FreshAboveNext, AttachedWhileAlive, SlotRisk, MinedWasSent,
                OneTransactionPerNonce, AtRiskIsOwned, IndInv, Slots, managerVars
  <1> QED
    BY <1>6, <1>7, <1>8 DEF IndInv

\* Sending puts exactly one transaction of the nonce at risk, after the file
\* has recorded the nonce.
LEMMA SendInv ==
    ASSUME IndInv, TypeOK', NEW e \in Executors,
           NEW channel \in {"private", "public"}, Send(e, channel)
    PROVE  IndInv'
  <1> DEFINE n == held[e]
  <1>1. Busy(e) /\ atRisk[n] = {}
    <2>1. Busy(e) /\ pc[e] \in {"approved", "fallback"}
      BY DEF Send, Busy
    <2> QED
      BY <2>1, HeldFacts
  <1>2. /\ n \in Nonces /\ n \in reserved /\ n < next /\ pending[n] = NoSlot
        /\ process = "up" /\ mem[n].state \in {"RESERVED", "APPROVED"}
        /\ disk[n].state \in Outstanding
        /\ \A f \in Executors : f # e /\ Busy(f) => held[f] # n
    BY <1>1, HeldFacts
  <1>3. PICK hash \in Hashes : /\ atRisk' = [atRisk EXCEPT ![n] = @ \cup {hash}]
                               /\ sending' = [sending EXCEPT ![e] = hash]
    BY DEF Send
  <1>4. /\ pc' = [pc EXCEPT ![e] = channel]
        /\ UNCHANGED <<nonceVars, held, process, mined>>
    BY DEF Send, processVars
  <1>5. /\ atRisk'[n] = {hash} /\ sending'[e] = hash /\ pc'[e] \in {"private", "public"}
        /\ \A k \in Nonces : k # n => atRisk'[k] = atRisk[k]
        /\ \A f \in Executors : f # e => sending'[f] = sending[f] /\ pc'[f] = pc[f]
    BY <1>1, <1>2, <1>3, <1>4 DEF IndInv, TypeOK
  <1>6. MemoryKnowsRisk' /\ WriteBeforeRisk' /\ ConfirmedHasHash' /\ ConfirmedOnlyIfMined'
    BY <1>2, <1>4, <1>5 DEF MemoryKnowsRisk, WriteBeforeRisk, ConfirmedHasHash,
            ConfirmedOnlyIfMined, IndInv, nonceVars, journalVars, Outstanding
  <1>7. HoldersOwn' /\ HoldersDiffer'
    <2>1. ASSUME NEW f \in Executors, Busy(f)
          PROVE  OwnsNonce(f)'
      <3>1. OwnsNonce(f) /\ held[f] \in Nonces
        BY <2>1 DEF IndInv, HoldersOwn, TypeOK
      <3>2. CASE f = e
        BY <1>4, <1>5, <3>1, <3>2 DEF OwnsNonce, nonceVars, managerVars, journalVars
      <3>3. CASE f # e
        <4>1. held[f] # n /\ pc'[f] = pc[f] /\ sending'[f] = sending[f]
          BY <1>2, <1>5, <2>1, <3>3
        <4> QED
          BY <1>4, <1>5, <3>1, <4>1 DEF OwnsNonce, nonceVars, managerVars, journalVars
      <3> QED
        BY <3>2, <3>3
    <2> QED
      BY <1>1, <1>4, <2>1, AdvanceHolders
  <1>8. OwnedBelowNext' /\ AttachedWhileAlive'
    BY <1>4 DEF OwnedBelowNext, AttachedWhileAlive, IndInv, Slots, nonceVars, managerVars
  <1>9. FreshAboveNext'
    <2>1. n \in Int /\ next \in Int
      BY <1>2 DEF Nonces, IndInv, TypeOK, ManagerTypeOK, NextRange, Unset
    <2> QED
      BY <1>2, <1>4, <1>5, <2>1 DEF FreshAboveNext, IndInv, nonceVars, managerVars
  <1>10. SlotRisk' /\ MinedWasSent' /\ OneTransactionPerNonce'
    BY <1>1, <1>2, <1>4, <1>5, SlotNull DEF SlotRisk, MinedWasSent, OneTransactionPerNonce,
            IndInv, nonceVars, managerVars
  <1>11. AtRiskIsOwned'
    BY <1>2, <1>4, <1>5 DEF AtRiskIsOwned, IndInv, Slots, nonceVars, managerVars
  <1> QED
    BY <1>6, <1>7, <1>8, <1>9, <1>10, <1>11 DEF IndInv

\* A committed nonce moves from `reserved` to a slot that stands for the very
\* transaction that was sent, or for an unknown one.
LEMMA AcceptedInv ==
    ASSUME IndInv, TypeOK', NEW e \in Executors,
           NEW channel \in {"private", "public"}, Accepted(e, channel)
    PROVE  IndInv'
  <1> DEFINE n == held[e]
  <1>1. Busy(e) /\ atRisk[n] \subseteq {sending[e]}
    <2>1. Busy(e) /\ pc[e] = channel
      BY DEF Accepted, Busy
    <2> QED
      BY <2>1, HeldFacts
  <1>2. /\ n \in Nonces /\ n \in reserved \ Slots /\ n < next /\ attached
        /\ process = "up" /\ mem[n].state \in {"RESERVED", "APPROVED"}
        /\ \A f \in Executors : f # e /\ Busy(f) => held[f] # n
    BY <1>1, HeldFacts
  <1>3. PICK hash \in {sending[e], NoHash}, ok \in BOOLEAN : Commit(n, hash, channel, ok)
    BY DEF Accepted
  <1>4. /\ reserved' = reserved \ {n} /\ pending' = [pending EXCEPT ![n] = hash]
        /\ UNCHANGED <<next, blocked, attached>>
        /\ JCommit(n, hash, channel, ok)
    BY <1>2, <1>3 DEF Commit
  <1>5. Finish(e) /\ UNCHANGED <<process, atRisk, mined>>
    BY DEF Accepted, processVars, chainVars
  <1>6. hash \in Hashes \cup {NoHash} /\ hash # NoSlot
    BY <1>3, SlotNull DEF IndInv, TypeOK
  <1>7. Touches(n) /\ mem'[n].state \in Outstanding \ Confirmed
    <2>1. CommitState(hash, channel) \in States /\ CommitState(hash, channel) \in Outstanding \ Confirmed
      BY DEF CommitState, States, Outstanding, Submitted, Confirmed
    <2>2. mem[n].state \in Outstanding \ Confirmed /\ JournalTypeOK
      BY <1>2 DEF Outstanding, Confirmed, IndInv, TypeOK
    <2> QED
      BY <1>2, <1>4, <1>6, <2>1, <2>2, MoveFacts DEF JCommit
  <1>8. MemoryKnowsRisk' /\ WriteBeforeRisk' /\ ConfirmedHasHash' /\ ConfirmedOnlyIfMined'
    BY <1>2, <1>5, <1>7, JournalStep
  <1>9. HoldersOwn' /\ HoldersDiffer'
    <2>1. ASSUME NEW f \in Executors, f # e, Busy(f)
          PROVE  OwnsNonce(f)'
      <3>1. held[f] \in Nonces /\ held[f] # n
        BY <1>2, <2>1 DEF IndInv, TypeOK
      <3>2. pc'[f] = pc[f] /\ held'[f] = held[f] /\ sending'[f] = sending[f]
        BY <1>5, <2>1 DEF Finish, IndInv, TypeOK
      <3> QED
        BY <1>2, <1>4, <1>5, <1>7, <2>1, <3>1, <3>2, HolderStep
    <2> QED
      BY <1>5, <2>1, FinishHolders
  <1>10. Slots' = Slots \cup {n}
    BY <1>2, <1>4, <1>6 DEF Slots, IndInv, TypeOK, ManagerTypeOK
  <1>11. OwnedBelowNext'
    BY <1>2, <1>4, <1>10 DEF OwnedBelowNext, IndInv
  <1>12. FreshAboveNext' /\ AttachedWhileAlive' /\ MinedWasSent' /\ OneTransactionPerNonce'
    BY <1>4, <1>5 DEF FreshAboveNext, AttachedWhileAlive, MinedWasSent,
                      OneTransactionPerNonce, IndInv
  <1>13. SlotRisk'
    <2>1. pending'[n] = hash /\ \A k \in Nonces : k # n => pending'[k] = pending[k]
      BY <1>2, <1>4 DEF IndInv, TypeOK, ManagerTypeOK
    <2> QED
      BY <1>1, <1>3, <1>5, <2>1, HashNull DEF SlotRisk, IndInv
  <1>14. AtRiskIsOwned'
    BY <1>4, <1>5, <1>10 DEF AtRiskIsOwned, IndInv
  <1> QED
    BY <1>8, <1>9, <1>11, <1>12, <1>13, <1>14 DEF IndInv

\* A failed signature only ends the execution.
LEMMA SignFailsInv ==
    ASSUME IndInv, TypeOK', NEW e \in Executors, SignFails(e)
    PROVE  IndInv'
  <1>1. Finish(e) /\ UNCHANGED <<nonceVars, process, atRisk, mined>>
    BY DEF SignFails, processVars, chainVars
  <1>2. HoldersOwn' /\ HoldersDiffer'
    <2>1. ASSUME NEW f \in Executors, f # e, Busy(f)
          PROVE  OwnsNonce(f)'
      <3>1. OwnsNonce(f) /\ pc'[f] = pc[f] /\ held'[f] = held[f] /\ sending'[f] = sending[f]
        BY <1>1, <2>1 DEF Finish, IndInv, TypeOK, HoldersOwn
      <3> QED
        BY <1>1, <3>1 DEF OwnsNonce, nonceVars, managerVars, journalVars
    <2> QED
      BY <1>1, <2>1, FinishHolders
  <1> QED
    BY <1>1, <1>2 DEF IndInv, nonceVars, managerVars, journalVars, Slots, OwnedBelowNext,
            MemoryKnowsRisk, FreshAboveNext, SlotRisk, MinedWasSent, ConfirmedHasHash,
            OneTransactionPerNonce, WriteBeforeRisk, AtRiskIsOwned, ConfirmedOnlyIfMined,
            AttachedWhileAlive

\* The relay refused: nothing of the nonce is at risk when the public path is
\* tried.
LEMMA PrivateFailedInv ==
    ASSUME IndInv, TypeOK', NEW e \in Executors, PrivateFailed(e)
    PROVE  IndInv'
  <1> DEFINE n == held[e]
  <1>1. /\ Busy(e) /\ pc[e] = "private" /\ mined[n] # sending[e]
        /\ pc' = [pc EXCEPT ![e] = "fallback"]
        /\ sending' = [sending EXCEPT ![e] = NoHash]
        /\ atRisk' = [atRisk EXCEPT ![n] = @ \ {sending[e]}]
        /\ UNCHANGED <<nonceVars, held, process, mined>>
    BY DEF PrivateFailed, Refusal, Busy, processVars
  <1>2. /\ n \in Nonces /\ atRisk[n] \subseteq {sending[e]}
        /\ \A f \in Executors : f # e /\ Busy(f) => held[f] # n
    BY <1>1, HeldFacts
  <1>3. atRisk'[n] = {} /\ \A k \in Nonces : k # n => atRisk'[k] = atRisk[k]
    BY <1>1, <1>2 DEF IndInv, TypeOK
  <1>4. mined[n] = NoHash
    BY <1>1, <1>2 DEF IndInv, MinedWasSent
  <1>5. HoldersOwn' /\ HoldersDiffer'
    <2>1. ASSUME NEW f \in Executors, Busy(f)
          PROVE  OwnsNonce(f)'
      <3>1. OwnsNonce(f) /\ held[f] \in Nonces
        BY <2>1 DEF IndInv, HoldersOwn, TypeOK
      <3>2. CASE f = e
        BY <1>1, <1>3, <3>1, <3>2 DEF OwnsNonce, nonceVars, managerVars, journalVars
      <3>3. CASE f # e
        <4>1. held[f] # n /\ pc'[f] = pc[f] /\ sending'[f] = sending[f]
          BY <1>1, <1>2, <2>1, <3>3 DEF IndInv, TypeOK
        <4> QED
          BY <1>1, <1>3, <3>1, <4>1 DEF OwnsNonce, nonceVars, managerVars, journalVars
      <3> QED
        BY <3>2, <3>3
    <2> QED
      BY <1>1, <2>1, AdvanceHolders
  <1> QED
    BY <1>1, <1>3, <1>4, <1>5 DEF IndInv, nonceVars, managerVars, journalVars, Slots,
            OwnedBelowNext, MemoryKnowsRisk, FreshAboveNext, SlotRisk, MinedWasSent,
            ConfirmedHasHash, OneTransactionPerNonce, WriteBeforeRisk, AtRiskIsOwned,
            ConfirmedOnlyIfMined, AttachedWhileAlive

\* A receipt releases the slot and confirms the record only under the hash
\* the chain has consumed; a nonce still held by an execution has no hash in
\* the journal and is left alone.
LEMMA ReapReceiptInv ==
    ASSUME IndInv, TypeOK', NEW n \in Nonces, NEW hash \in Hashes, ReapReceipt(n, hash)
    PROVE  IndInv'
  <1>1. PICK to \in Confirmed, ok \in BOOLEAN : ReapSlot(n, hash, to, ok)
    BY DEF ReapReceipt
  <1>2. /\ mined[n] = hash /\ hash # NoHash /\ process = "up" /\ attached
        /\ UNCHANGED <<pc, held, sending, process, atRisk, mined>>
    BY HashNull DEF ReapReceipt, Running, executorVars, processVars, chainVars, IndInv,
       AttachedWhileAlive
  <1>3. /\ pending' = [pending EXCEPT ![n] = NoSlot] /\ JConfirm(n, to, hash, ok)
        /\ UNCHANGED <<next, reserved, blocked, attached>>
    BY <1>1, <1>2 DEF ReapSlot
  <1>4. /\ Touches(n)
        /\ \/ mem'[n] = mem[n] /\ disk' = disk
           \/ /\ mem[n].state \notin {"RESERVED", "APPROVED"}
              /\ mem'[n].state \in Confirmed /\ mem'[n].hash = hash
    <2>1. CASE mem[n].hash # NoHash /\ mem[n].hash = hash
      <3>1. to \in States /\ Move(n, to, hash, ok) /\ JournalTypeOK
        BY <1>3, <2>1 DEF JConfirm, States, Terminal, IndInv, TypeOK
      <3>2. MayMove(n, to) => mem[n].state \notin {"RESERVED", "APPROVED"}
        BY DEF MayMove, Allowed, States, Terminal, Outstanding, Submitted, Confirmed
      <3> QED
        BY <3>1, <3>2, MoveFacts
    <2>2. CASE ~(mem[n].hash # NoHash /\ mem[n].hash = hash)
      BY <1>3, <2>2, Untouched DEF JConfirm, IndInv, TypeOK
    <2> QED
      BY <2>1, <2>2
  <1>5. MemoryKnowsRisk' /\ WriteBeforeRisk' /\ ConfirmedHasHash' /\ ConfirmedOnlyIfMined'
    <2>1. mem'[n].state \in Confirmed => mem'[n].hash # NoHash /\ mem'[n].hash = mined[n]
      BY <1>2, <1>4 DEF IndInv, ConfirmedHasHash, ConfirmedOnlyIfMined
    <2>2. atRisk'[n] # {} => mem'[n].state \in Outstanding \cup Confirmed
      BY <1>2, <1>4 DEF IndInv, MemoryKnowsRisk
    <2> QED
      BY <1>2, <1>4, <2>1, <2>2, JournalStep
  <1>6. HoldersOwn' /\ HoldersDiffer'
    <2>1. ASSUME NEW f \in Executors, Busy(f)
          PROVE  OwnsNonce(f)'
      <3>1. CASE held[f] = n
        <4>1. OwnsNonce(f)
          BY <2>1 DEF IndInv, HoldersOwn
        <4>2. mem'[n] = mem[n] /\ disk' = disk
          BY <1>4, <3>1, <4>1 DEF OwnsNonce
        <4> QED
          BY <1>2, <1>3, <3>1, <4>1, <4>2 DEF OwnsNonce
      <3>2. CASE held[f] # n
        BY <1>2, <1>3, <1>4, <2>1, <3>2, HolderStep
      <3> QED
        BY <3>1, <3>2
    <2> QED
      BY <1>2, <2>1 DEF HoldersOwn, HoldersDiffer, Busy, IndInv
  <1>7. Slots' = Slots \ {n} /\ \A k \in Nonces : pending'[k] \in {pending[k], NoSlot}
    BY <1>3 DEF Slots, IndInv, TypeOK, ManagerTypeOK
  <1>8. OwnedBelowNext'
    BY <1>3, <1>7 DEF OwnedBelowNext, IndInv
  <1>9. SlotRisk'
    BY <1>2, <1>7, SlotNull DEF SlotRisk, IndInv
  <1>10. /\ FreshAboveNext' /\ AttachedWhileAlive' /\ MinedWasSent' /\ OneTransactionPerNonce'
    BY <1>2, <1>3 DEF FreshAboveNext, AttachedWhileAlive, MinedWasSent,
            OneTransactionPerNonce, IndInv
  <1>11. AtRiskIsOwned'
    BY <1>2, <1>3, <1>7 DEF AtRiskIsOwned, IndInv
  <1> QED
    BY <1>5, <1>6, <1>8, <1>9, <1>10, <1>11 DEF IndInv

\* next only grows in a resync, and nothing else changes.
LEMMA ResyncInv ==
    ASSUME IndInv, TypeOK', NEW v \in NextRange, Resync(v) \/ UNCHANGED nonceVars,
           UNCHANGED <<executorVars, process, chainVars>>
    PROVE  IndInv'
  <1>1. /\ UNCHANGED <<pending, reserved, blocked, attached, mem, disk>>
        /\ UNCHANGED <<pc, held, sending, process, atRisk, used, mined>>
    BY DEF Resync, nonceVars, managerVars, journalVars, executorVars, chainVars
  <1>2. next \in Int /\ next' \in Int /\ next' >= next
    BY DEF Resync, Larger, nonceVars, managerVars, IndInv, TypeOK, ManagerTypeOK, NextRange, Unset
  <1>3. OwnedBelowNext'
    <2>1. Slots' = Slots
      BY <1>1 DEF Slots
    <2>2. \A k \in reserved \cup Slots : k \in Int
      BY DEF Slots, IndInv, TypeOK, ManagerTypeOK, Nonces
    <2> QED
      BY <1>1, <1>2, <2>1, <2>2 DEF OwnedBelowNext, IndInv
  <1>4. FreshAboveNext'
    BY <1>1, <1>2 DEF FreshAboveNext, IndInv, Nonces
  <1>5. HoldersOwn' /\ HoldersDiffer'
    BY <1>1 DEF HoldersOwn, HoldersDiffer, OwnsNonce, Busy, IndInv
  <1> QED
    BY <1>1, <1>3, <1>4, <1>5 DEF IndInv, Slots, MemoryKnowsRisk, SlotRisk, MinedWasSent,
            ConfirmedHasHash, OneTransactionPerNonce, WriteBeforeRisk, AtRiskIsOwned,
            ConfirmedOnlyIfMined, AttachedWhileAlive

\* A released slot had nothing at risk, whatever next is rewound to.
LEMMA ReleaseInv ==
    ASSUME IndInv, TypeOK', NEW n \in Nonces, Release(n)
    PROVE  IndInv'
  <1>1. PICK ok \in BOOLEAN : ReleaseDropped(n, pending[n], ok)
    BY DEF Release
  <1>2. /\ n \in Slots /\ process = "up" /\ attached /\ mined[n] = NoHash
        /\ UNCHANGED <<pc, held, sending, process, atRisk, mined>>
    BY DEF Release, Running, DropProof, executorVars, processVars, chainVars, IndInv,
       AttachedWhileAlive
  <1>3. atRisk[n] = {}
    <2>1. CASE pending[n] = NoHash
      BY <2>1 DEF Release, DropProof
    <2>2. CASE pending[n] # NoHash
      <3>1. pending[n] \in Hashes
        BY <1>2, <2>2 DEF Slots, IndInv, TypeOK, ManagerTypeOK
      <3> QED
        BY <2>2, <3>1 DEF Release, DropProof, Dead, IndInv, SlotRisk
    <2> QED
      BY <2>1, <2>2
  <1>4. /\ pending' = [pending EXCEPT ![n] = NoSlot] /\ JDrop(n, ok)
        /\ next' = Rewound(n, Slots \ {n}) /\ blocked \ {n} \subseteq blocked'
        /\ UNCHANGED <<reserved, attached>>
    BY <1>1, <1>2 DEF ReleaseDropped
  <1>5. Touches(n) /\ (mem'[n] = mem[n] \/ mem'[n].state = "DROPPED")
    <2>1. mem[n].hash \in Hashes \cup {NoHash} /\ JournalTypeOK
      BY DEF IndInv, TypeOK, JournalTypeOK, Record
    <2>2. "DROPPED" \in States
      BY DEF States, Terminal
    <2> QED
      BY <1>4, <2>1, <2>2, MoveFacts DEF JDrop
  <1>6. MemoryKnowsRisk' /\ WriteBeforeRisk' /\ ConfirmedHasHash' /\ ConfirmedOnlyIfMined'
    <2>1. mem'[n].state \in Confirmed => mem'[n].hash # NoHash /\ mem'[n].hash = mined[n]
      BY <1>5 DEF IndInv, ConfirmedHasHash, ConfirmedOnlyIfMined, Confirmed
    <2> QED
      BY <1>2, <1>3, <1>5, <2>1, JournalStep
  <1>7. HoldersOwn' /\ HoldersDiffer'
    <2>1. ASSUME NEW f \in Executors, Busy(f)
          PROVE  OwnsNonce(f)'
      <3>1. held[f] # n
        BY <1>2, <2>1, HeldFacts
      <3> QED
        BY <1>2, <1>4, <1>5, <2>1, <3>1, HolderStep
    <2> QED
      BY <1>2, <2>1 DEF HoldersOwn, HoldersDiffer, Busy, IndInv
  <1>8. Slots' = Slots \ {n} /\ \A k \in Nonces : pending'[k] \in {pending[k], NoSlot}
    BY <1>4 DEF Slots, IndInv, TypeOK, ManagerTypeOK
  <1>9. next' \in {next, n} /\ (next' # next => next = n + 1 /\ Slots \ {n} = {})
    BY <1>4 DEF Rewound
  <1>10. n \in Int /\ next \in Int /\ reserved \subseteq Int /\ Slots \subseteq Int
    BY DEF IndInv, TypeOK, ManagerTypeOK, NextRange, Unset, Nonces, Slots
  <1>11. OwnedBelowNext'
    <2>1. n \notin reserved
      BY <1>2 DEF IndInv, OwnedBelowNext
    <2>2. \A k \in reserved' \cup Slots' : k < next'
      BY <1>4, <1>8, <1>9, <1>10, <2>1 DEF IndInv, OwnedBelowNext
    <2> QED
      BY <1>4, <1>8, <2>2 DEF IndInv, OwnedBelowNext
  <1>12. FreshAboveNext'
    <2>1. ASSUME NEW k \in Nonces, k >= next'
          PROVE  k = n \/ k >= next
      BY <1>9, <1>10, <2>1 DEF Nonces
    <2> QED
      BY <1>2, <1>3, <2>1 DEF IndInv, FreshAboveNext
  <1>13. SlotRisk'
    BY <1>2, <1>8, SlotNull DEF SlotRisk, IndInv
  <1>14. AttachedWhileAlive' /\ MinedWasSent' /\ OneTransactionPerNonce'
    BY <1>2, <1>4 DEF AttachedWhileAlive, MinedWasSent, OneTransactionPerNonce, IndInv
  <1>15. AtRiskIsOwned'
    BY <1>2, <1>3, <1>4, <1>8 DEF AtRiskIsOwned, IndInv
  <1> QED
    BY <1>6, <1>7, <1>11, <1>12, <1>13, <1>14, <1>15 DEF IndInv

\* The chain consumes a nonce with its one transaction, or loses it.
LEMMA ChainInv ==
    ASSUME IndInv, TypeOK', NEW n \in Nonces, Mine(n) \/ Evict(n)
    PROVE  IndInv'
  <1>1. UNCHANGED <<nonceVars, pc, held, sending, process>>
    BY DEF Mine, Evict, executorVars, processVars
  <1>2. /\ \A k \in Nonces : atRisk'[k] \subseteq atRisk[k]
        /\ \A k \in Nonces : mined[k] # NoHash => mined'[k] = mined[k]
        /\ \A k \in Nonces : mined'[k] # NoHash => mined'[k] \in atRisk'[k]
    <2>1. CASE Mine(n)
      BY <2>1 DEF Mine, IndInv, TypeOK, MinedWasSent
    <2>2. CASE Evict(n)
      BY <2>2 DEF Evict, IndInv, TypeOK, MinedWasSent
    <2> QED
      BY <2>1, <2>2
  <1>3. ConfirmedOnlyIfMined'
    BY <1>1, <1>2 DEF IndInv, ConfirmedOnlyIfMined, ConfirmedHasHash, nonceVars, journalVars
  <1>4. HoldersOwn' /\ HoldersDiffer'
    <2>1. ASSUME NEW f \in Executors, Busy(f)
          PROVE  OwnsNonce(f)'
      <3>1. OwnsNonce(f) /\ held[f] \in Nonces
        BY <2>1 DEF IndInv, HoldersOwn, TypeOK
      <3> QED
        BY <1>1, <1>2, <3>1 DEF OwnsNonce, nonceVars, managerVars, journalVars
    <2> QED
      BY <1>1, <2>1 DEF HoldersOwn, HoldersDiffer, Busy, IndInv
  <1>5. AtRiskIsOwned' /\ FreshAboveNext'
    BY <1>1, <1>2 DEF AtRiskIsOwned, FreshAboveNext, IndInv, nonceVars, managerVars, Slots
  <1>6. WriteBeforeRisk' /\ MemoryKnowsRisk' /\ SlotRisk' /\ OneTransactionPerNonce'
    BY <1>1, <1>2 DEF WriteBeforeRisk, MemoryKnowsRisk, SlotRisk, OneTransactionPerNonce,
                      IndInv, nonceVars, managerVars, journalVars
  <1> QED
    BY <1>1, <1>2, <1>3, <1>4, <1>5, <1>6 DEF IndInv, nonceVars, managerVars, journalVars,
            Slots, OwnedBelowNext, MinedWasSent, ConfirmedHasHash, AttachedWhileAlive

\* A new manager with the journal: next starts above every record of the file
\* and what the file calls outstanding is blocked, so all that is at risk is
\* owned again.
LEMMA BindInv ==
    ASSUME IndInv, TypeOK', NEW v \in NextRange, Bind(v), process' = "recovering",
           \A e \in Executors : ~Busy(e), UNCHANGED <<executorVars, chainVars>>
    PROVE  IndInv'
  <1>1. PICK m \in NextRange \cup {Unset} :
            OnePast(JournalNonces(disk), m) /\ next' = Larger(v, m)
    BY DEF Bind
  <1>2. /\ pending' = NoPending /\ reserved' = {} /\ blocked' = OutstandingIn(disk)
        /\ attached' = TRUE /\ mem' = disk /\ disk' = disk
        /\ UNCHANGED <<pc, held, sending, atRisk, used, mined>>
    BY DEF Bind, Load, executorVars, chainVars
  <1>3. Slots' = {} /\ \A k \in Nonces : pending'[k] = NoSlot
    BY <1>2 DEF Slots, NoPending
  <1>4. HoldersOwn' /\ HoldersDiffer'
    BY <1>2 DEF HoldersOwn, HoldersDiffer, Busy
  <1>5. OwnedBelowNext'
    BY <1>2, <1>3 DEF OwnedBelowNext
  <1>6. FreshAboveNext'
    <2> SUFFICES ASSUME NEW k \in Nonces, k >= next', atRisk[k] # {}
                 PROVE  FALSE
      BY <1>2 DEF FreshAboveNext
    <2>1. k \in JournalNonces(disk)
      BY DEF JournalNonces, IndInv, WriteBeforeRisk, Outstanding, Confirmed, Submitted
    <2>2. PICK top \in JournalNonces(disk) : m = top + 1 /\ k <= top
      BY <1>1, <2>1 DEF OnePast
    <2>3. k \in Int /\ top \in Int /\ v \in Int
      BY NonceBound DEF JournalNonces, Nonces, NextRange
    <2>4. next' >= m
      BY <1>1, <2>2, <2>3 DEF Larger
    <2> QED
      BY <1>1, <2>2, <2>3, <2>4 DEF Larger
  <1>7. AtRiskIsOwned'
    <2> SUFFICES ASSUME NEW k \in Nonces, atRisk[k] # {}, mined[k] = NoHash
                 PROVE  k \in OutstandingIn(disk)
      BY <1>2 DEF AtRiskIsOwned
    <2>1. disk[k].state \notin Confirmed
      BY DEF IndInv, ConfirmedHasHash, ConfirmedOnlyIfMined
    <2> QED
      BY <2>1 DEF OutstandingIn, IndInv, WriteBeforeRisk
  <1>8. /\ MemoryKnowsRisk' /\ WriteBeforeRisk' /\ ConfirmedHasHash' /\ ConfirmedOnlyIfMined'
        /\ MinedWasSent' /\ OneTransactionPerNonce' /\ AttachedWhileAlive'
    BY <1>2 DEF MemoryKnowsRisk, WriteBeforeRisk, ConfirmedHasHash, ConfirmedOnlyIfMined,
                MinedWasSent, OneTransactionPerNonce, AttachedWhileAlive, IndInv
  <1>9. SlotRisk'
    BY <1>3, SlotNull DEF SlotRisk
  <1> QED
    BY <1>4, <1>5, <1>6, <1>7, <1>8, <1>9 DEF IndInv

\* Recovery of one record: confirmed by the chain, made UNKNOWN, or left.
LEMMA RecoverRecordInv ==
    ASSUME IndInv, TypeOK', NEW n \in Nonces, RecoverRecord(n)
    PROVE  IndInv'
  <1>1. /\ process = "recovering"
        /\ UNCHANGED <<managerVars, pc, held, sending, process, atRisk, mined>>
    BY DEF RecoverRecord, executorVars, chainVars
  <1>2. /\ Touches(n)
        /\ \/ mem'[n] = mem[n] /\ disk' = disk
           \/ mem'[n].state \in Confirmed /\ mem'[n].hash # NoHash /\ mem'[n].hash = mined[n]
           \/ mem'[n].state = "UNKNOWN"
    <2>1. mem[n].hash \in Hashes \cup {NoHash} /\ JournalTypeOK
      BY DEF IndInv, TypeOK, JournalTypeOK, Record
    <2>2. ASSUME NEW to \in Confirmed, NEW ok \in BOOLEAN, JConfirm(n, to, mined[n], ok)
          PROVE  /\ Touches(n)
                 /\ \/ mem'[n] = mem[n] /\ disk' = disk
                    \/ /\ mem'[n].state \in Confirmed /\ mem'[n].hash # NoHash
                       /\ mem'[n].hash = mined[n]
      <3>1. CASE mem[n].hash # NoHash /\ mem[n].hash = mined[n]
        <4>1. to \in States /\ Move(n, to, mem[n].hash, ok)
          BY <2>2, <3>1 DEF JConfirm, States, Terminal
        <4> QED
          BY <2>1, <3>1, <4>1, MoveFacts
      <3>2. CASE ~(mem[n].hash # NoHash /\ mem[n].hash = mined[n])
        BY <2>1, <2>2, <3>2, Untouched DEF JConfirm
      <3> QED
        BY <3>1, <3>2
    <2>3. ASSUME NEW ok \in BOOLEAN, JMarkUnknown(n, ok)
          PROVE  /\ Touches(n)
                 /\ \/ mem'[n] = mem[n] /\ disk' = disk
                    \/ mem'[n].state = "UNKNOWN"
      <3>1. "UNKNOWN" \in States
        BY DEF States, Outstanding
      <3> QED
        BY <2>1, <2>3, <3>1, MoveFacts DEF JMarkUnknown
    <2>4. CASE UNCHANGED journalVars
      BY <2>1, <2>4, Untouched
    <2> QED
      BY <2>2, <2>3, <2>4 DEF RecoverRecord
  <1>3. MemoryKnowsRisk' /\ WriteBeforeRisk' /\ ConfirmedHasHash' /\ ConfirmedOnlyIfMined'
    <2>1. mem'[n].state \in Confirmed => mem'[n].hash # NoHash /\ mem'[n].hash = mined[n]
      BY <1>2 DEF IndInv, ConfirmedHasHash, ConfirmedOnlyIfMined, Confirmed
    <2>2. atRisk'[n] # {} => mem'[n].state \in Outstanding \cup Confirmed
      BY <1>1, <1>2 DEF IndInv, MemoryKnowsRisk, Outstanding
    <2> QED
      BY <1>1, <1>2, <2>1, <2>2, JournalStep
  <1>4. \A e \in Executors : ~Busy(e)
    BY <1>1 DEF IndInv, HoldersOwn, OwnsNonce
  <1>5. HoldersOwn' /\ HoldersDiffer'
    BY <1>1, <1>4 DEF HoldersOwn, HoldersDiffer, Busy
  <1> QED
    BY <1>1, <1>3, <1>5 DEF IndInv, managerVars, Slots, OwnedBelowNext, FreshAboveNext,
            SlotRisk, MinedWasSent, OneTransactionPerNonce, AtRiskIsOwned, AttachedWhileAlive

\* The end of recovery: next and the set of blocked nonces only grow.
LEMMA RecoverDoneInv ==
    ASSUME IndInv, TypeOK', RecoverDone
    PROVE  IndInv'
  <1>1. PICK v \in PendingAnswers \cup {Unset} : SealRecovery(v)
    BY DEF RecoverDone
  <1>2. /\ process = "recovering" /\ process' = "up" /\ blocked \subseteq blocked'
        /\ UNCHANGED <<pending, reserved, attached, mem, disk, pc, held, sending, atRisk, mined>>
    BY <1>1 DEF RecoverDone, SealRecovery, executorVars, chainVars, journalVars
  <1>3. next \in Int /\ next' \in Int /\ next' >= next
    <2>1. PICK m \in NextRange \cup {Unset} : next' = Larger(Larger(next, v), m)
      BY <1>1 DEF SealRecovery
    <2>2. v \in Int /\ m \in Int /\ next \in Int
      BY DEF PendingAnswers, NextRange, Unset, IndInv, TypeOK, ManagerTypeOK
    <2> QED
      BY <2>1, <2>2 DEF Larger
  <1>4. \A e \in Executors : ~Busy(e)
    BY <1>2 DEF IndInv, HoldersOwn, OwnsNonce
  <1>5. HoldersOwn' /\ HoldersDiffer'
    BY <1>2, <1>4 DEF HoldersOwn, HoldersDiffer, Busy
  <1>6. Slots' = Slots
    BY <1>2 DEF Slots
  <1>7. OwnedBelowNext'
    <2>1. \A k \in reserved \cup Slots : k \in Int
      BY DEF Slots, IndInv, TypeOK, ManagerTypeOK, Nonces
    <2> QED
      BY <1>2, <1>3, <1>6, <2>1 DEF OwnedBelowNext, IndInv
  <1>8. FreshAboveNext'
    BY <1>2, <1>3 DEF FreshAboveNext, IndInv, Nonces
  <1>9. AtRiskIsOwned'
    BY <1>2, <1>6 DEF AtRiskIsOwned, IndInv
  <1> QED
    BY <1>2, <1>5, <1>7, <1>8, <1>9 DEF IndInv, MemoryKnowsRisk, SlotRisk, MinedWasSent,
            ConfirmedHasHash, OneTransactionPerNonce, WriteBeforeRisk, ConfirmedOnlyIfMined,
            AttachedWhileAlive

\* A crash loses all memory and nothing else.
LEMMA CrashInv ==
    ASSUME IndInv, TypeOK', Crash
    PROVE  IndInv'
  <1>1. /\ process' = "down" /\ pending' = NoPending /\ reserved' = {} /\ disk' = disk
        /\ mem' = EmptyJournal /\ pc' = [e \in Executors |-> "idle"]
        /\ UNCHANGED <<atRisk, mined>>
    BY DEF Crash, BindWithoutJournal, chainVars
  <1>2. Slots' = {} /\ \A k \in Nonces : pending'[k] = NoSlot /\ mem'[k].state = "NONE"
    BY <1>1 DEF Slots, NoPending, EmptyJournal, NoRecord
  <1>3. HoldersOwn' /\ HoldersDiffer'
    BY <1>1 DEF HoldersOwn, HoldersDiffer, Busy
  <1>4. ConfirmedHasHash' /\ ConfirmedOnlyIfMined'
    BY <1>1, <1>2 DEF ConfirmedHasHash, ConfirmedOnlyIfMined, IndInv, Confirmed
  <1>5. SlotRisk'
    BY <1>2, SlotNull DEF SlotRisk
  <1> QED
    BY <1>1, <1>2, <1>3, <1>4, <1>5 DEF IndInv, OwnedBelowNext, MemoryKnowsRisk,
            FreshAboveNext, MinedWasSent, OneTransactionPerNonce, WriteBeforeRisk,
            AtRiskIsOwned, AttachedWhileAlive

LEMMA IndInvInit == Init => IndInv
  <1> SUFFICES ASSUME Init
               PROVE  IndInv
    OBVIOUS
  <1>1. TypeOK
    BY TypeInit
  <1>2. /\ process = "down" /\ reserved = {} /\ pending = NoPending /\ mem = EmptyJournal
        /\ disk = EmptyJournal /\ pc = [e \in Executors |-> "idle"]
        /\ atRisk = [n \in Nonces |-> {}] /\ mined = [n \in Nonces |-> NoHash]
    BY DEF Init, MgrInit, JournalInit, ManagerInit
  <1>3. Slots = {} /\ \A e \in Executors : ~Busy(e)
    BY <1>2 DEF Slots, NoPending, Busy
  <1>4. \A n \in Nonces, copy \in {mem, disk} : copy[n].state \notin Confirmed
    BY <1>2 DEF EmptyJournal, NoRecord, Confirmed
  <1>5. HoldersOwn /\ HoldersDiffer /\ ConfirmedHasHash /\ ConfirmedOnlyIfMined
    BY <1>3, <1>4 DEF HoldersOwn, HoldersDiffer, ConfirmedHasHash, ConfirmedOnlyIfMined
  <1>6. SlotRisk /\ MinedWasSent /\ OneTransactionPerNonce /\ WriteBeforeRisk
    BY <1>2 DEF SlotRisk, MinedWasSent, OneTransactionPerNonce, WriteBeforeRisk
  <1> QED
    BY <1>1, <1>2, <1>3, <1>5, <1>6 DEF IndInv, OwnedBelowNext, MemoryKnowsRisk,
            FreshAboveNext, AtRiskIsOwned, AttachedWhileAlive

\* No step breaks the invariant, unless a reconnection loses the journal.
LEMMA IndInvNext ==
    ASSUME ~ReconnectInitMayFail, IndInv, [Next]_vars
    PROVE  IndInv'
  <1>1. TypeOK'
    BY TypeNext DEF IndInv
  <1>2. ASSUME NEW e \in Executors, Execute(e)
        PROVE  IndInv'
    BY <1>1, <1>2, ReserveNonceInv, GiveUpInv, ApproveInv, SendInv, AcceptedInv, SignFailsInv,
       PrivateFailedInv DEF Execute
  <1>3. CASE Reap
    <2>1. CASE ReapStart \/ \E n \in Nonces, hash \in Hashes : ReapNothing(n, hash)
      <3>1. UNCHANGED <<nonceVars, executorVars, process, chainVars>>
        BY <2>1 DEF ReapStart, ReapNothing, processVars
      <3>2. 0 \in NextRange
        BY NonceBound DEF NextRange
      <3> QED
        BY <1>1, <3>1, <3>2, ResyncInv
    <2>2. CASE ReapEnd
      <3>1. PICK v \in NextRange : Resync(v) \/ UNCHANGED nonceVars
        <4>1. 0 \in NextRange /\ PendingAnswers \subseteq NextRange
          BY NonceBound DEF NextRange, PendingAnswers
        <4> QED
          BY <2>2, <4>1 DEF ReapEnd
      <3>2. UNCHANGED <<executorVars, process, chainVars>>
        BY <2>2 DEF ReapEnd, processVars
      <3> QED
        BY <1>1, <3>1, <3>2, ResyncInv
    <2> QED
      BY <1>1, <1>3, <2>1, <2>2, ReapReceiptInv DEF Reap
  <1>4. CASE Reconcile
    <2>1. PICK v \in NextRange : Resync(v)
      BY <1>4 DEF Reconcile, PendingAnswers
    <2>2. UNCHANGED <<executorVars, process, chainVars>>
      BY <1>4 DEF Reconcile, processVars
    <2> QED
      BY <1>1, <2>1, <2>2, ResyncInv
  <1>5. CASE Process
    <2>1. CASE Start \/ Reconnect
      <3>1. PICK v \in NextRange : Bind(v)
        BY <2>1 DEF Start, Reconnect, BindManager, PendingAnswers
      <3>2. /\ process' = "recovering" /\ UNCHANGED <<executorVars, chainVars>>
            /\ \A e \in Executors : ~Busy(e)
        BY <2>1 DEF Start, Reconnect, BindManager, Quiet, Busy, IndInv, HoldersOwn, OwnsNonce
      <3> QED
        BY <1>1, <3>1, <3>2, BindInv
    <2>2. ~ReconnectInitFails
      BY DEF ReconnectInitFails
    <2> QED
      BY <1>1, <1>5, <2>1, <2>2, RecoverRecordInv, RecoverDoneInv, CrashInv DEF Process
  <1>6. CASE UNCHANGED vars
    <2>1. UNCHANGED <<nonceVars, executorVars, process, chainVars>>
      BY <1>6 DEF vars, processVars
    <2>2. 0 \in NextRange
      BY NonceBound DEF NextRange
    <2> QED
      BY <1>1, <2>1, <2>2, ResyncInv
  <1> QED
    BY <1>1, <1>2, <1>3, <1>4, <1>5, <1>6, ReleaseInv, ChainInv DEF Next, Chain

LEMMA Invariant == ASSUME ~ReconnectInitMayFail PROVE Spec => []IndInv
  <1>1. IndInv /\ [Next]_vars => IndInv'
    BY IndInvNext
  <1> QED
    BY <1>1, IndInvInit, PTL DEF Spec

-----------------------------------------------------------------------------
(* The properties                                                           *)

\* As long as no reconnection loses the journal, two transactions that can
\* execute never share a nonce, whatever crashes, failed writes and lost
\* answers happen (nonce-journal.js:3-10).
THEOREM NoncesAreSafe ==
    ASSUME ~ReconnectInitMayFail
    PROVE  Spec => []OneTransactionPerNonce
  <1>1. IndInv => OneTransactionPerNonce
    BY DEF IndInv
  <1> QED
    BY <1>1, Invariant, PTL

\* The file knows of every nonce that is at risk, and the running process
\* owns it until the chain has consumed it (nonce-journal.js:13-14).
THEOREM RiskIsRecorded ==
    ASSUME ~ReconnectInitMayFail
    PROVE  Spec => [](WriteBeforeRisk /\ AtRiskIsOwned)
  <1>1. IndInv => WriteBeforeRisk /\ AtRiskIsOwned
    BY DEF IndInv
  <1> QED
    BY <1>1, Invariant, PTL

-----------------------------------------------------------------------------
(* Confirmations, whether or not a reconnection loses the journal            *)

\* What a confirmed record says, and that it says something.
ConfInv == TypeOK /\ ConfirmedHasHash /\ ConfirmedOnlyIfMined

\* A record that was not confirmed before stays unconfirmed, and the file
\* keeps its content or receives all of memory.
NoNewConfirmation ==
    /\ \A n \in Nonces : mem'[n].state \in Confirmed => mem'[n] = mem[n]
    /\ disk' = disk \/ disk' = mem'

LEMMA QuietMove ==
    ASSUME JournalTypeOK, NEW n \in Nonces, NEW to \in States \ Confirmed,
           NEW hash, NEW ok \in BOOLEAN, Move(n, to, hash, ok)
    PROVE  NoNewConfirmation
  <1>1. CASE MayMove(n, to)
    BY <1>1 DEF Move, Save, NoNewConfirmation, JournalTypeOK
  <1>2. CASE ~MayMove(n, to)
    BY <1>2 DEF Move, journalVars, NoNewConfirmation
  <1> QED
    BY <1>1, <1>2

\* Only terminal() with a receipt confirms.
LEMMA QuietCalls ==
    ASSUME JournalTypeOK, NEW n \in Nonces, NEW ok \in BOOLEAN,
           \/ JReserve(n, ok) \/ JApprove(n, ok) \/ JMarkUnknown(n, ok)
           \/ JDrop(n, ok) \/ JRolledBack(n, ok)
           \/ \E hash, channel : JCommit(n, hash, channel, ok)
           \/ NoJournalWrite
    PROVE  NoNewConfirmation
  <1>1. CASE JReserve(n, ok)
    <2>1. CASE mem[n].state \in Reusable
      BY <1>1, <2>1 DEF JReserve, Save, NoNewConfirmation, JournalTypeOK, Confirmed
    <2>2. CASE mem[n].state \notin Reusable
      BY <1>1, <2>2 DEF JReserve, journalVars, NoNewConfirmation
    <2> QED
      BY <2>1, <2>2
  <1>2. CASE \E hash, channel : JCommit(n, hash, channel, ok)
    <2> PICK hash, channel : JCommit(n, hash, channel, ok)
      BY <1>2
    <2>1. CommitState(hash, channel) \in States \ Confirmed
      BY DEF CommitState, States, Outstanding, Submitted, Confirmed
    <2> QED
      BY <2>1, QuietMove DEF JCommit
  <1>3. {"APPROVED", "UNKNOWN", "DROPPED", "ROLLED_BACK"} \subseteq States \ Confirmed
    BY DEF States, Terminal, Outstanding, Confirmed
  <1>4. CASE JApprove(n, ok) \/ JMarkUnknown(n, ok) \/ JDrop(n, ok) \/ JRolledBack(n, ok)
    BY <1>3, <1>4, QuietMove DEF JApprove, JMarkUnknown, JDrop, JRolledBack
  <1>5. CASE NoJournalWrite
    BY <1>5 DEF NoJournalWrite, journalVars, NoNewConfirmation
  <1> QED
    BY <1>1, <1>2, <1>4, <1>5

\* A record confirmed by this step carries the hash the chain has mined.
LEMMA ConfirmCall ==
    ASSUME ConfInv, NEW n \in Nonces, NEW to \in Confirmed, NEW ok \in BOOLEAN,
           mined' = mined, JConfirm(n, to, mined[n], ok) \/ NoJournalWrite
    PROVE  ConfirmedHasHash' /\ ConfirmedOnlyIfMined'
  <1> USE DEF ConfInv, TypeOK, JournalTypeOK, ConfirmedHasHash, ConfirmedOnlyIfMined
  <1>1. CASE JConfirm(n, to, mined[n], ok) /\ mem' # mem
    <2>1. /\ mem[n].hash = mined[n] /\ mem[n].hash # NoHash
          /\ mem' = [mem EXCEPT ![n] = [state |-> to, hash |-> mem[n].hash]]
          /\ disk' = disk \/ disk' = mem'
      BY <1>1 DEF JConfirm, Move, Save, journalVars
    <2> QED
      BY <2>1
  <1>2. CASE mem' = mem
    <2>1. disk' = disk \/ disk' = mem'
      BY <1>2 DEF JConfirm, Move, Save, NoJournalWrite, journalVars
    <2> QED
      BY <1>2, <2>1
  <1> QED
    BY <1>1, <1>2 DEF NoJournalWrite, journalVars

LEMMA ConfQuiet ==
    ASSUME ConfInv, NoNewConfirmation, mined' = mined
    PROVE  ConfirmedHasHash' /\ ConfirmedOnlyIfMined'
BY DEF ConfInv, NoNewConfirmation, ConfirmedHasHash, ConfirmedOnlyIfMined

\* A step of an execution never confirms anything.
LEMMA ExecuteIsQuiet ==
    ASSUME JournalTypeOK, NEW e \in Executors, held[e] \in Nonces, Execute(e)
    PROVE  NoNewConfirmation /\ mined' = mined
  <1>1. CASE ReserveNonce(e)
    BY <1>1, QuietCalls DEF ReserveNonce, Reserve, chainVars
  <1>2. CASE GiveUp(e)
    BY <1>2, QuietCalls DEF GiveUp, Rollback, chainVars
  <1>3. CASE Approve(e)
    BY <1>3, QuietCalls DEF Approve, MarkApproved, chainVars
  <1>4. CASE \E channel \in {"private", "public"} : Send(e, channel)
    BY <1>4, QuietCalls DEF Send, nonceVars, NoJournalWrite
  <1>5. CASE \E channel \in {"private", "public"} : Accepted(e, channel)
    BY <1>5, QuietCalls DEF Accepted, Commit, chainVars
  <1>6. CASE SignFails(e)
    BY <1>6, QuietCalls DEF SignFails, nonceVars, chainVars, NoJournalWrite
  <1>7. CASE PrivateFailed(e)
    BY <1>7, QuietCalls DEF PrivateFailed, Refusal, nonceVars, NoJournalWrite
  <1>8. CASE PublicRefused(e)
    BY <1>8, QuietCalls DEF PublicRefused, Refusal, Rollback
  <1> QED
    BY <1>1, <1>2, <1>3, <1>4, <1>5, <1>6, <1>7, <1>8 DEF Execute

LEMMA ConfInvNext == ConfInv /\ [Next]_vars => ConfInv'
  <1> SUFFICES ASSUME ConfInv, [Next]_vars
               PROVE  ConfirmedHasHash' /\ ConfirmedOnlyIfMined'
    BY TypeNext DEF ConfInv
  <1>0. JournalTypeOK
    BY DEF ConfInv, TypeOK
  <1>1. ASSUME NEW e \in Executors, Execute(e)
        PROVE  NoNewConfirmation /\ mined' = mined
    BY <1>0, <1>1, ExecuteIsQuiet DEF ConfInv, TypeOK
  <1>2. CASE Reap
    <2>1. CASE \E n \in Nonces, hash \in Hashes : ReapReceipt(n, hash)
      <3>1. PICK n \in Nonces, hash \in Hashes : ReapReceipt(n, hash)
        BY <2>1
      <3>2. PICK to \in Confirmed, ok \in BOOLEAN : ReapSlot(n, hash, to, ok)
        BY <3>1 DEF ReapReceipt
      <3> QED
        BY <3>1, <3>2, ConfirmCall DEF ReapReceipt, ReapSlot, chainVars
    <2>2. CASE ~\E n \in Nonces, hash \in Hashes : ReapReceipt(n, hash)
      <3>1. NoJournalWrite /\ mined' = mined
        BY <1>2, <2>2 DEF Reap, ReapStart, ReapNothing, ReapEnd, Resync, nonceVars,
           chainVars, NoJournalWrite, journalVars
      <3> QED
        BY <3>1, ConfQuiet DEF NoNewConfirmation, NoJournalWrite, journalVars
    <2> QED
      BY <2>1, <2>2
  <1>3. CASE Reconcile
    BY <1>3, ConfQuiet DEF Reconcile, Resync, chainVars, NoNewConfirmation, journalVars
  <1>4. CASE \E n \in Nonces : Release(n)
    <2>1. NoNewConfirmation
      BY <1>0, <1>4, QuietCalls DEF Release, ReleaseDropped
    <2> QED
      BY <1>4, <2>1, ConfQuiet DEF Release, chainVars
  <1>5. CASE Chain
    <2>1. UNCHANGED <<mem, disk>>
      BY <1>5 DEF Chain, Mine, Evict, nonceVars, journalVars
    <2>2. \A n \in Nonces : mined[n] # NoHash => mined'[n] = mined[n]
      BY <1>5 DEF Chain, Mine, Evict, ConfInv, TypeOK
    <2> QED
      BY <2>1, <2>2 DEF ConfInv, ConfirmedHasHash, ConfirmedOnlyIfMined
  <1>6. CASE Process
    <2>1. CASE Start \/ Reconnect
      <3>1. mem' = disk /\ disk' = disk /\ mined' = mined
        BY <2>1 DEF Start, Reconnect, BindManager, Bind, Load, chainVars
      <3> QED
        BY <3>1 DEF ConfInv, ConfirmedHasHash, ConfirmedOnlyIfMined
    <2>2. CASE ReconnectInitFails \/ Crash
      <3>1. mem' = EmptyJournal /\ disk' = disk /\ mined' = mined
        BY <2>2 DEF ReconnectInitFails, Crash, BindWithoutJournal, chainVars
      <3> QED
        BY <3>1 DEF ConfInv, ConfirmedHasHash, ConfirmedOnlyIfMined, EmptyJournal,
           NoRecord, Confirmed
    <2>3. CASE \E n \in Nonces : RecoverRecord(n)
      <3>1. PICK n \in Nonces : RecoverRecord(n)
        BY <2>3
      <3>2. mined' = mined
        BY <3>1 DEF RecoverRecord, chainVars
      <3>3. CASE \E to \in Confirmed, ok \in BOOLEAN : JConfirm(n, to, mined[n], ok)
        BY <3>2, <3>3, ConfirmCall
      <3>4. CASE (\E ok \in BOOLEAN : JMarkUnknown(n, ok)) \/ UNCHANGED journalVars
        BY <1>0, <3>2, <3>4, QuietCalls, ConfQuiet DEF NoJournalWrite
      <3> QED
        BY <3>1, <3>3, <3>4 DEF RecoverRecord
    <2>4. CASE RecoverDone
      BY <2>4, ConfQuiet DEF RecoverDone, SealRecovery, chainVars, NoNewConfirmation,
         journalVars
    <2> QED
      BY <1>6, <2>1, <2>2, <2>3, <2>4 DEF Process
  <1>7. CASE UNCHANGED vars
    BY <1>7, ConfQuiet DEF vars, nonceVars, journalVars, chainVars, NoNewConfirmation
  <1> QED
    BY <1>1, <1>2, <1>3, <1>4, <1>5, <1>6, <1>7, ConfQuiet DEF Next

\* The journal confirms only what the chain has consumed, under the hash it
\* consumed it with, even while the bot runs on without a journal
\* (nonce-journal.js:391-426).
THEOREM ConfirmationsAreTrue == Spec => []ConfirmedOnlyIfMined
  <1>1. Init => ConfInv
    BY IndInvInit DEF IndInv, ConfInv
  <1>2. ConfInv => ConfirmedOnlyIfMined
    BY DEF ConfInv
  <1> QED
    BY <1>1, <1>2, ConfInvNext, PTL DEF Spec

-----------------------------------------------------------------------------
(* Releases                                                                  *)

\* What a step does to the slots of a process that lives on: a slot goes only
\* with its receipt, or with the evidence that its transaction is dead.
LEMMA SlotStep ==
    ASSUME IndInv, [Next]_vars, process = "up", process' = "up", restarts' = restarts,
           NEW n \in Nonces, pending[n] # NoSlot, pending'[n] = NoSlot
    PROVE  mined[n] # NoHash \/ atRisk[n] = {}
  <1>0. pending \in [Nonces -> Hashes \cup {NoHash, NoSlot}] /\ restarts \in Nat
    BY RestartBound DEF IndInv, TypeOK, ManagerTypeOK
  <1>1. ASSUME NEW e \in Executors, Execute(e)
        PROVE  FALSE
    <2>1. ASSUME NEW channel \in {"private", "public"}, Accepted(e, channel)
          PROVE  FALSE
      <3>1. PICK hash \in {sending[e], NoHash}, ok \in BOOLEAN :
                Commit(held[e], hash, channel, ok)
        BY <2>1 DEF Accepted
      <3>2. pending' = [pending EXCEPT ![held[e]] = hash] /\ hash # NoSlot
        BY <3>1, SlotNull DEF Commit, IndInv, TypeOK
      <3> QED
        BY <1>0, <3>2
    <2> QED
      BY <1>1, <2>1 DEF Execute, ReserveNonce, Reserve, GiveUp, Rollback, Approve,
              MarkApproved, Send, SignFails, PrivateFailed, PublicRefused, nonceVars,
              managerVars
  <1>2. CASE Reap
    <2>1. ASSUME NEW k \in Nonces, NEW hash \in Hashes, ReapReceipt(k, hash)
          PROVE  mined[n] # NoHash
      BY <1>0, <2>1, HashNull DEF ReapReceipt, ReapSlot
    <2> QED
      BY <1>2, <2>1 DEF Reap, ReapStart, ReapNothing, ReapEnd, Resync, nonceVars, managerVars
  <1>3. ASSUME NEW k \in Nonces, Release(k)
        PROVE  atRisk[n] = {}
    <2>1. k = n /\ DropProof(n)
      BY <1>0, <1>3 DEF Release, ReleaseDropped
    <2> QED
      BY <1>0, <2>1 DEF DropProof, Dead, IndInv, SlotRisk, TypeOK
  <1>4. CASE Process
    BY <1>0, <1>4 DEF Process, Start, RecoverRecord, RecoverDone, Reconnect,
            ReconnectInitFails, Crash
  <1>5. CASE Reconcile \/ Chain \/ UNCHANGED vars
    BY <1>5 DEF Reconcile, Resync, Chain, Mine, Evict, vars, nonceVars, managerVars
  <1> QED
    BY <1>1, <1>2, <1>3, <1>4, <1>5 DEF Next

\* A slot leaves `pending` in a running process only on a receipt or on true
\* drop evidence, for any number of executions, crashes and failed writes; the
\* absence of an answer never releases one (nonce.js:612-624).
THEOREM SlotsReleasedOnProof ==
    ASSUME ~ReconnectInitMayFail
    PROVE  Spec => ReleasedOnProof
  <1>1. IndInv /\ [Next]_vars =>
            [\A n \in Nonces :
                process = "up" /\ process' = "up" /\ restarts' = restarts
                /\ pending[n] # NoSlot /\ pending'[n] = NoSlot
                => mined[n] # NoHash \/ atRisk[n] = {}]_vars
    BY SlotStep
  <1> QED
    BY <1>1, Invariant, PTL DEF Spec, ReleasedOnProof
-----------------------------------------------------------------------------
(* The abstract promise: every step is one of NonceOwnership, or a stutter   *)

\* A nonce an execution took is not blocked, and a manager under recovery has
\* granted none.
GrantedNotBlocked ==
    /\ reserved \cap blocked = {}
    /\ process = "recovering" => reserved = {}

LEMMA GrantedNotBlockedNext ==
    ASSUME TypeOK, GrantedNotBlocked, [Next]_vars
    PROVE  GrantedNotBlocked'
  <1>1. ASSUME NEW e \in Executors, Execute(e)
        PROVE  GrantedNotBlocked'
    <2>1. CASE ReserveNonce(e)
      BY <2>1 DEF ReserveNonce, Reserve, FirstUnblocked, GrantedNotBlocked, Running,
                  processVars
    <2>2. CASE GiveUp(e) \/ PublicRefused(e)
      BY <2>2 DEF GiveUp, PublicRefused, Rollback, GrantedNotBlocked, processVars
    <2>3. CASE Approve(e) \/ SignFails(e) \/ PrivateFailed(e)
      BY <2>3 DEF Approve, MarkApproved, SignFails, PrivateFailed, GrantedNotBlocked,
                  nonceVars, managerVars, processVars
    <2>4. ASSUME NEW channel \in {"private", "public"},
                 Send(e, channel) \/ Accepted(e, channel)
          PROVE  GrantedNotBlocked'
      BY <2>4 DEF Send, Accepted, Commit, GrantedNotBlocked, nonceVars, managerVars,
                  processVars
    <2> QED
      BY <1>1, <2>1, <2>2, <2>3, <2>4 DEF Execute
  <1>2. CASE Reap
    BY <1>2 DEF Reap, ReapStart, ReapReceipt, ReapSlot, ReapNothing, ReapEnd, Resync,
                GrantedNotBlocked, nonceVars, managerVars, processVars
  <1>3. CASE Reconcile \/ Chain \/ UNCHANGED vars
    BY <1>3 DEF Reconcile, Resync, Chain, Mine, Evict, vars, GrantedNotBlocked, nonceVars,
                managerVars, processVars
  <1>4. ASSUME NEW n \in Nonces, Release(n)
        PROVE  GrantedNotBlocked'
    BY <1>4 DEF Release, ReleaseDropped, GrantedNotBlocked, processVars
  <1>5. CASE Process
    <2>1. CASE Start \/ Reconnect \/ ReconnectInitFails \/ Crash
      BY <2>1 DEF Start, Reconnect, BindManager, Bind, ReconnectInitFails, Crash,
                  BindWithoutJournal, GrantedNotBlocked
    <2>2. ASSUME NEW n \in Nonces, RecoverRecord(n)
          PROVE  GrantedNotBlocked'
      BY <2>2 DEF RecoverRecord, GrantedNotBlocked, managerVars
    <2>3. CASE RecoverDone
      BY <2>3 DEF RecoverDone, SealRecovery, GrantedNotBlocked
    <2> QED
      BY <1>5, <2>1, <2>2, <2>3 DEF Process
  <1> QED
    BY <1>1, <1>2, <1>3, <1>4, <1>5 DEF Next

RefInv == IndInv /\ GrantedNotBlocked

\* What the abstract status of a nonce says of it.
LEMMA StatusOf ==
    ASSUME NEW n \in Nonces
    PROVE  /\ Status[n] \in Ownership!Status
           /\ Status[n] = "spent" <=> mined[n] # NoHash
           /\ Status[n] = "risked" <=> mined[n] = NoHash /\ atRisk[n] # {}
           /\ Status[n] = "held" <=> mined[n] = NoHash /\ atRisk[n] = {} /\ Owned(n)
           /\ Status[n] = "free" <=> mined[n] = NoHash /\ atRisk[n] = {} /\ ~Owned(n)
  BY DEF Status, Ownership!Status

LEMMA StatusOfNext ==
    ASSUME NEW n \in Nonces
    PROVE  /\ Status'[n] \in Ownership!Status
           /\ Status'[n] = "spent" <=> mined'[n] # NoHash
           /\ Status'[n] = "risked" <=> mined'[n] = NoHash /\ atRisk'[n] # {}
           /\ Status'[n] = "held" <=> mined'[n] = NoHash /\ atRisk'[n] = {} /\ Owned(n)'
           /\ Status'[n] = "free" <=> mined'[n] = NoHash /\ atRisk'[n] = {} /\ ~Owned(n)'
  BY DEF Status, Ownership!Status

\* A step that leaves every other nonce alone moves the status of one.
LEMMA StatusMove ==
    ASSUME NEW n \in Nonces,
           \A k \in Nonces \ {n} :
               mined'[k] = mined[k] /\ atRisk'[k] = atRisk[k] /\ (Owned(k)' <=> Owned(k))
    PROVE  Status' = [Status EXCEPT ![n] = Status'[n]]
  BY DEF Status

LEMMA StatusStays ==
    ASSUME UNCHANGED <<mined, atRisk>>, \A k \in Nonces : (Owned(k)' <=> Owned(k))
    PROVE  Status' = Status
  BY DEF Status

\* What the process owns depends on three fields of the manager.
LEMMA OwnedKept ==
    ASSUME process # "down", process' # "down", UNCHANGED <<reserved, pending, blocked>>
    PROVE  \A k \in Nonces : (Owned(k)' <=> Owned(k))
  BY DEF Owned, Slots

\* Using, while an execution goes on, and when it ends.
LEMMA UsingKept ==
    ASSUME UNCHANGED <<pc, held>>
    PROVE  Using' = Using
  BY DEF Using

LEMMA UsingAdvances ==
    ASSUME TypeOK, NEW e \in Executors, pc[e] # "idle", NEW to, to # "idle",
           pc' = [pc EXCEPT ![e] = to], held' = held
    PROVE  Using' = Using
  BY DEF Using, TypeOK

LEMMA UsingEnds ==
    ASSUME TypeOK, NEW e \in Executors, Finish(e)
    PROVE  Using' = [Using EXCEPT ![e] = Unset]
  BY DEF Using, TypeOK, Finish

LEMMA UsingNobody ==
    ASSUME \A e \in Executors : pc[e] = "idle"
    PROVE  Using = [e \in Executors |-> Unset]
  BY DEF Using

\* reserve() takes a nonce that is free: granted to the caller, or taken out
\* of circulation when its journal write fails.
LEMMA ReserveNonceRefines ==
    ASSUME RefInv, NEW e \in Executors, ReserveNonce(e)
    PROVE  Ownership!Next
  <1>1. PICK n \in Nonces, v \in PendingAnswers, ok \in BOOLEAN :
            /\ Reserve(n, v, ok)
            /\ IF Granted(n, ok)
               THEN /\ pc' = [pc EXCEPT ![e] = "reserved"]
                    /\ held' = [held EXCEPT ![e] = n]
               ELSE UNCHANGED <<pc, held>>
    BY DEF ReserveNonce
  <1>2. /\ process = "up" /\ process' = "up" /\ pc[e] = "idle"
        /\ UNCHANGED <<atRisk, mined, pending, blocked>>
        /\ reserved' = reserved \cup {n} /\ n \notin blocked
    BY <1>1 DEF ReserveNonce, Reserve, FirstUnblocked, Running, processVars, chainVars
  <1>3. n >= next /\ n \in Int /\ next \in Int
    <2>1. v \in Nat /\ next \in Int /\ n \in Int
      BY NonceBound DEF PendingAnswers, NextRange, RefInv, IndInv, TypeOK, ManagerTypeOK,
                        Unset, Nonces
    <2> QED
      BY <1>1, <2>1 DEF Reserve, FirstUnblocked, Unset
  <1>4. n \notin reserved \cup Slots /\ atRisk[n] = {} /\ mined[n] = NoHash
    BY <1>2, <1>3 DEF RefInv, IndInv, OwnedBelowNext, FreshAboveNext, MinedWasSent
  <1>5. ~Owned(n) /\ Owned(n)'
    BY <1>2, <1>4 DEF Owned
  <1>6. \A k \in Nonces \ {n} : (Owned(k)' <=> Owned(k))
    BY <1>2 DEF Owned, Slots
  <1>7. Ownership!Becomes(n, "free", "held")
    <2>1. Status[n] = "free" /\ Status'[n] = "held"
      BY <1>2, <1>4, <1>5, StatusOf, StatusOfNext
    <2> QED
      BY <1>2, <1>6, <2>1, StatusMove DEF Ownership!Becomes
  <1>8. CASE Granted(n, ok)
    <2>1. Using[e] = Unset /\ Using' = [Using EXCEPT ![e] = n]
      BY <1>1, <1>2, <1>8 DEF Using, RefInv, IndInv, TypeOK
    <2> QED
      BY <1>7, <2>1 DEF Ownership!Next, Ownership!Grant
  <1>9. CASE ~Granted(n, ok)
    <2>1. Using' = Using
      BY <1>1, <1>9, UsingKept
    <2> QED
      BY <1>7, <2>1 DEF Ownership!Next, Ownership!Take
  <1> QED
    BY <1>8, <1>9

\* What an execution uses is its own, and not past a refusal.
LEMMA UsingHeld ==
    ASSUME RefInv, NEW e \in Executors, Busy(e)
    PROVE  /\ Using[e] = held[e] /\ Using[e] # Unset /\ held[e] \in Nonces
           /\ Owned(held[e]) /\ held[e] \in reserved \ (Slots \cup blocked)
           /\ process = "up"
  BY HeldFacts, NonceBound DEF RefInv, GrantedNotBlocked, Using, Busy, Owned, Unset, Nonces

\* The end of an execution that gives its nonce back: refused, or not sent.
LEMMA GiveUpRefines ==
    ASSUME RefInv, NEW e \in Executors, GiveUp(e) \/ PublicRefused(e)
    PROVE  Ownership!Next
  <1>0. PICK n \in Nonces : n = held[e]
    BY DEF RefInv, IndInv, TypeOK
  <1>1. Busy(e) /\ Finish(e) /\ process' = process /\ UNCHANGED mined
    BY DEF GiveUp, PublicRefused, Busy, processVars, chainVars, Refusal
  <1>2. PICK ok \in BOOLEAN : Rollback(n, ok)
    BY <1>0 DEF GiveUp, PublicRefused
  <1>3. /\ n \in Nonces /\ n \notin Slots \cup blocked /\ process = "up" /\ Owned(n)
        /\ Using[e] = n /\ Using[e] # Unset
    BY <1>0, <1>1, UsingHeld
  <1>4. reserved' = reserved \ {n} /\ UNCHANGED <<pending, blocked>>
    BY <1>2 DEF Rollback
  <1>5. mined[n] = NoHash /\ atRisk'[n] = {} /\ \A k \in Nonces \ {n} : atRisk'[k] = atRisk[k]
    <2>1. CASE GiveUp(e)
      BY <1>0, <1>1, <1>3, <2>1, HeldFacts DEF GiveUp, chainVars, RefInv, IndInv, MinedWasSent
    <2>2. CASE PublicRefused(e)
      BY <1>0, <1>1, <1>3, <2>2, HeldFacts DEF PublicRefused, Refusal, RefInv, IndInv, TypeOK,
                                         MinedWasSent
    <2> QED
      BY <2>1, <2>2
  <1>6. ~Owned(n)' /\ \A k \in Nonces \ {n} : (Owned(k)' <=> Owned(k))
    BY <1>1, <1>3, <1>4 DEF Owned, Slots
  <1>7. \/ Ownership!Becomes(n, "held", "free")
        \/ Ownership!Becomes(n, "risked", "free")
    <2>1. Status'[n] = "free" /\ Status[n] \in {"held", "risked"}
      BY <1>1, <1>3, <1>5, <1>6, StatusOf, StatusOfNext
    <2>2. Status' = [Status EXCEPT ![n] = "free"]
      BY <1>1, <1>3, <1>5, <1>6, <2>1, StatusMove
    <2> QED
      BY <2>1, <2>2 DEF Ownership!Becomes
  <1>8. Using' = [Using EXCEPT ![e] = Unset]
    BY <1>1, UsingEnds DEF RefInv, IndInv
  <1> QED
    BY <1>3, <1>7, <1>8 DEF Ownership!Next, Ownership!Leave

\* The end of an execution whose nonce is pending now, or left reserved.
LEMMA LeaveRefines ==
    ASSUME RefInv, NEW e \in Executors,
           SignFails(e) \/ \E channel \in {"private", "public"} : Accepted(e, channel)
    PROVE  Ownership!Next
  <1>0. PICK n \in Nonces : n = held[e]
    BY DEF RefInv, IndInv, TypeOK
  <1>1. Busy(e) /\ Finish(e) /\ process' = process /\ UNCHANGED <<mined, atRisk>>
    BY DEF SignFails, Accepted, Busy, processVars, chainVars
  <1>2. n \in Nonces /\ process = "up" /\ n \in reserved /\ Using[e] # Unset
    BY <1>0, <1>1, UsingHeld
  <1>3. \A k \in Nonces : (Owned(k)' <=> Owned(k))
    <2>1. CASE SignFails(e)
      BY <1>1, <1>2, <2>1, OwnedKept DEF SignFails, nonceVars, managerVars
    <2>2. ASSUME NEW channel \in {"private", "public"}, Accepted(e, channel)
          PROVE  \A k \in Nonces : (Owned(k)' <=> Owned(k))
      <3>1. PICK hash \in {sending[e], NoHash}, ok \in BOOLEAN : Commit(n, hash, channel, ok)
        BY <1>0, <2>2 DEF Accepted
      <3>2. hash # NoSlot
        BY SlotNull DEF RefInv, IndInv, TypeOK
      <3>3. /\ reserved' = reserved \ {n} /\ blocked' = blocked
            /\ pending' = [pending EXCEPT ![n] = hash]
        BY <3>1 DEF Commit
      <3>4. pending \in [Nonces -> Hashes \cup {NoHash, NoSlot}]
        BY DEF RefInv, IndInv, TypeOK, ManagerTypeOK
      <3> QED
        BY <1>1, <1>2, <3>2, <3>3, <3>4 DEF Owned, Slots
    <2> QED
      BY <2>1, <2>2
  <1>4. Status' = Status
    BY <1>1, <1>3, StatusStays
  <1>5. Using' = [Using EXCEPT ![e] = Unset]
    BY <1>1, UsingEnds DEF RefInv, IndInv
  <1> QED
    BY <1>2, <1>4, <1>5 DEF Ownership!Next, Ownership!Leave

LEMMA SendRefines ==
    ASSUME RefInv, NEW e \in Executors, NEW channel \in {"private", "public"},
           Send(e, channel)
    PROVE  Ownership!Next
  <1>0. PICK n \in Nonces : n = held[e]
    BY DEF RefInv, IndInv, TypeOK
  <1>1. /\ Busy(e) /\ pc[e] \notin {"private", "public"} /\ process' = process
        /\ UNCHANGED <<mined, reserved, pending, blocked, held>>
        /\ pc' = [pc EXCEPT ![e] = channel]
    BY DEF Send, Busy, processVars, nonceVars, managerVars
  <1>2. n \in Nonces /\ process = "up" /\ Owned(n) /\ Using[e] = n /\ Using[e] # Unset
    BY <1>0, <1>1, UsingHeld
  <1>3. atRisk[n] = {} /\ mined[n] = NoHash
    BY <1>0, <1>1, <1>2, HeldFacts DEF RefInv, IndInv, MinedWasSent
  <1>4. atRisk'[n] # {} /\ \A k \in Nonces \ {n} : atRisk'[k] = atRisk[k]
    BY <1>0, <1>2 DEF Send, RefInv, IndInv, TypeOK
  <1>5. \A k \in Nonces : (Owned(k)' <=> Owned(k))
    BY <1>1, <1>2, OwnedKept
  <1>6. Ownership!Becomes(n, "held", "risked")
    <2>1. Status[n] = "held" /\ Status'[n] = "risked"
      BY <1>1, <1>2, <1>3, <1>4, StatusOf, StatusOfNext
    <2> QED
      BY <1>1, <1>2, <1>4, <1>5, <2>1, StatusMove DEF Ownership!Becomes
  <1>7. Using' = Using
    BY <1>1, UsingAdvances DEF RefInv, IndInv, Busy
  <1> QED
    BY <1>2, <1>6, <1>7 DEF Ownership!Next, Ownership!Risk

\* The relay's refusal; nothing changes when the transaction was gone already.
LEMMA PrivateFailedRefines ==
    ASSUME RefInv, NEW e \in Executors, PrivateFailed(e)
    PROVE  Ownership!Next \/ UNCHANGED <<Status, Using>>
  <1>0. PICK n \in Nonces : n = held[e]
    BY DEF RefInv, IndInv, TypeOK
  <1>1. /\ Busy(e) /\ pc[e] = "private" /\ process' = process /\ mined[n] # sending[e]
        /\ UNCHANGED <<mined, reserved, pending, blocked, held>>
        /\ pc' = [pc EXCEPT ![e] = "fallback"]
        /\ atRisk' = [atRisk EXCEPT ![n] = @ \ {sending[e]}]
    BY <1>0 DEF PrivateFailed, Refusal, Busy, processVars, nonceVars, managerVars
  <1>2. n \in Nonces /\ process = "up" /\ Owned(n) /\ Using[e] = n /\ Using[e] # Unset
    BY <1>0, <1>1, UsingHeld
  <1>3. atRisk'[n] = {} /\ mined[n] = NoHash
    BY <1>0, <1>1, <1>2, HeldFacts DEF RefInv, IndInv, TypeOK, MinedWasSent
  <1>4. \A k \in Nonces \ {n} : atRisk'[k] = atRisk[k]
    BY <1>1 DEF RefInv, IndInv, TypeOK
  <1>5. \A k \in Nonces : (Owned(k)' <=> Owned(k))
    BY <1>1, <1>2, OwnedKept
  <1>6. Using' = Using
    BY <1>1, UsingAdvances DEF RefInv, IndInv, Busy
  <1>7. CASE atRisk[n] = {}
    <2>1. atRisk' = atRisk
      BY <1>1, <1>7 DEF RefInv, IndInv, TypeOK
    <2> QED
      BY <1>1, <1>5, <1>6, <2>1, StatusStays
  <1>8. CASE atRisk[n] # {}
    <2>1. Status[n] = "risked" /\ Status'[n] = "held"
      BY <1>1, <1>2, <1>3, <1>5, <1>8, StatusOf, StatusOfNext
    <2>2. Ownership!Becomes(n, "risked", "held")
      BY <1>1, <1>2, <1>4, <1>5, <2>1, StatusMove DEF Ownership!Becomes
    <2> QED
      BY <1>2, <1>6, <2>2 DEF Ownership!Next, Ownership!Refused
  <1> QED
    BY <1>7, <1>8

\* A receipt releases a slot of a nonce that is spent; the other steps of
\* reap() change nothing the promise speaks of.
LEMMA ReapReceiptRefines ==
    ASSUME RefInv, NEW n \in Nonces, NEW hash \in Hashes, ReapReceipt(n, hash)
    PROVE  UNCHANGED <<Status, Using>>
  <1>1. /\ process = "up" /\ process' = process /\ mined[n] = hash
        /\ UNCHANGED <<mined, atRisk, reserved, blocked, pc, held>>
        /\ pending' = [pending EXCEPT ![n] = NoSlot]
    BY DEF ReapReceipt, ReapSlot, Running, executorVars, processVars, chainVars
  <1>2. \A k \in Nonces \ {n} : (Owned(k)' <=> Owned(k))
    BY <1>1 DEF Owned, Slots, RefInv, IndInv, TypeOK, ManagerTypeOK
  <1>3. Status[n] = "spent" /\ Status'[n] = "spent"
    BY <1>1, HashNull, StatusOf, StatusOfNext
  <1>4. Status' = [Status EXCEPT ![n] = "spent"]
    BY <1>1, <1>2, <1>3, StatusMove
  <1>5. Status' = Status
    BY <1>3, <1>4 DEF Status
  <1> QED
    BY <1>1, <1>5, UsingKept

\* Steps that leave the chain, the executions and ownership alone.
LEMMA QuietRefines ==
    ASSUME RefInv, UNCHANGED <<process, reserved, pending, blocked, pc, held, mined, atRisk>>,
           process # "down" \/ UNCHANGED disk
    PROVE  UNCHANGED <<Status, Using>>
  <1>1. \A k \in Nonces : (Owned(k)' <=> Owned(k))
    BY DEF Owned, Slots
  <1> QED
    BY <1>1, StatusStays, UsingKept

\* releaseDropped() gives back a nonce whose transaction is dead.
LEMMA ReleaseRefines ==
    ASSUME RefInv, NEW n \in Nonces, Release(n)
    PROVE  Ownership!Next \/ UNCHANGED <<Status, Using>>
  <1>1. /\ process = "up" /\ process' = process /\ n \in Slots
        /\ mined[n] = NoHash /\ UNCHANGED <<mined, atRisk, reserved, pc, held>>
    BY DEF Release, DropProof, ReleaseDropped, Running, executorVars, processVars, chainVars
  <1>2. /\ pending' = [pending EXCEPT ![n] = NoSlot]
        /\ blocked' = blocked \/ blocked' = blocked \ {n}
    BY DEF Release, ReleaseDropped
  <1>3. atRisk[n] = {}
    BY <1>1 DEF Release, DropProof, Dead, RefInv, IndInv, SlotRisk, TypeOK, ManagerTypeOK,
                Slots
  <1>4. Owned(n) /\ \A k \in Nonces \ {n} : (Owned(k)' <=> Owned(k))
    BY <1>1, <1>2 DEF Owned, Slots, RefInv, IndInv, TypeOK, ManagerTypeOK
  <1>5. Using' = Using
    BY <1>1, UsingKept
  <1>6. \A e \in Executors : Using[e] # n
    BY <1>1, HeldFacts, NonceBound DEF Using, Busy, RefInv, Unset, Nonces
  <1>7. Status[n] = "held"
    BY <1>1, <1>3, <1>4, StatusOf
  <1>8. CASE Owned(n)'
    BY <1>1, <1>4, <1>5, <1>8, StatusStays
  <1>9. CASE ~Owned(n)'
    <2>1. Status'[n] = "free"
      BY <1>1, <1>3, <1>9, StatusOfNext
    <2>2. Ownership!Becomes(n, "held", "free")
      BY <1>1, <1>4, <1>7, <2>1, StatusMove DEF Ownership!Becomes
    <2> QED
      BY <1>5, <1>6, <2>2 DEF Ownership!Next, Ownership!Return
  <1> QED
    BY <1>8, <1>9

\* The chain spends what was at risk, or the mempool loses it.
LEMMA MineRefines ==
    ASSUME RefInv, NEW n \in Nonces, Mine(n)
    PROVE  Ownership!Next
  <1>1. PICK hash \in atRisk[n] : mined' = [mined EXCEPT ![n] = hash]
    BY DEF Mine
  <1>2. /\ mined[n] = NoHash /\ hash \in Hashes
        /\ UNCHANGED <<process, reserved, pending, blocked, disk, pc, held, atRisk>>
    BY <1>1 DEF Mine, RefInv, IndInv, TypeOK, nonceVars, managerVars, journalVars,
                executorVars, processVars
  <1>3. \A k \in Nonces : (Owned(k)' <=> Owned(k))
    BY <1>2 DEF Owned, Slots
  <1>4. mined'[n] = hash /\ \A k \in Nonces \ {n} : mined'[k] = mined[k]
    BY <1>1 DEF RefInv, IndInv, TypeOK
  <1>5. Status[n] = "risked" /\ Status'[n] = "spent"
    BY <1>1, <1>2, <1>4, HashNull, StatusOf, StatusOfNext
  <1>6. Ownership!Becomes(n, "risked", "spent")
    BY <1>2, <1>3, <1>4, <1>5, StatusMove DEF Ownership!Becomes
  <1>7. Using' = Using
    BY <1>2, UsingKept
  <1> QED
    BY <1>6, <1>7 DEF Ownership!Next, Ownership!Spend

LEMMA EvictRefines ==
    ASSUME RefInv, NEW n \in Nonces, Evict(n)
    PROVE  Ownership!Next \/ UNCHANGED <<Status, Using>>
  <1>1. PICK hash \in atRisk[n] \ {mined[n]} : atRisk' = [atRisk EXCEPT ![n] = @ \ {hash}]
    BY DEF Evict
  <1>2. UNCHANGED <<process, reserved, pending, blocked, disk, pc, held, mined>>
    BY DEF Evict, nonceVars, managerVars, journalVars, executorVars, processVars
  <1>3. \A k \in Nonces : (Owned(k)' <=> Owned(k))
    BY <1>2 DEF Owned, Slots
  <1>4. mined[n] = NoHash /\ atRisk'[n] = {} /\ \A k \in Nonces \ {n} : atRisk'[k] = atRisk[k]
    BY <1>1 DEF RefInv, IndInv, TypeOK, OneTransactionPerNonce, MinedWasSent
  <1>5. Owned(n)
    <2>1. CASE process # "down"
      BY <1>1, <1>4, <2>1 DEF Owned, RefInv, IndInv, AtRiskIsOwned
    <2>2. CASE process = "down"
      BY <1>1, <1>4, <2>2 DEF Owned, RefInv, IndInv, WriteBeforeRisk, ConfirmedOnlyIfMined,
                              ConfirmedHasHash
    <2> QED
      BY <2>1, <2>2
  <1>6. Status[n] = "risked" /\ Status'[n] = "held"
    BY <1>1, <1>2, <1>3, <1>4, <1>5, StatusOf, StatusOfNext
  <1>7. Ownership!Becomes(n, "risked", "held")
    BY <1>2, <1>3, <1>4, <1>6, StatusMove DEF Ownership!Becomes
  <1>8. Using' = Using
    BY <1>2, UsingKept
  <1> QED
    BY <1>7, <1>8 DEF Ownership!Next, Ownership!Clear

\* A start, a crash, a reconnection or the end of a recovery replaces what
\* the process owns while no execution goes on.
LEMMA RecallRefines ==
    ASSUME RefInv, UNCHANGED <<mined, atRisk>>, \A e \in Executors : pc'[e] = "idle"
    PROVE  Ownership!Next
  <1>1. Using' = [e \in Executors |-> Unset]
    BY DEF Using
  <1>2. Status' \in [Nonces -> Ownership!Status]
    BY StatusOfNext DEF Status
  <1>3. ASSUME NEW n \in Nonces
        PROVE  IF Status[n] \in {"risked", "spent"} THEN Status'[n] = Status[n]
               ELSE Status'[n] \in {"free", "held"}
    <2>1. mined'[n] = mined[n] /\ atRisk'[n] = atRisk[n]
      OBVIOUS
    <2> QED
      BY <2>1, StatusOf, StatusOfNext DEF Ownership!Status
  <1> QED
    BY <1>1, <1>2, <1>3 DEF Ownership!Next, Ownership!Recall

\* Every step of the lifecycle is a step of the promise, or a stutter.
LEMMA StepRefines ==
    ASSUME ~ReconnectInitMayFail, RefInv, [Next]_vars
    PROVE  [Ownership!Next]_<<Status, Using>>
  <1>1. ASSUME NEW e \in Executors, Execute(e)
        PROVE  [Ownership!Next]_<<Status, Using>>
    <2>1. CASE Approve(e)
      <3>1. /\ UNCHANGED <<process, reserved, pending, blocked, mined, atRisk, held>>
            /\ process = "up" /\ pc[e] # "idle" /\ pc' = [pc EXCEPT ![e] = "approved"]
        BY <2>1 DEF Approve, MarkApproved, Running, managerVars, processVars, chainVars
      <3>2. Status' = Status
        BY <3>1, OwnedKept, StatusStays
      <3>3. Using' = Using
        BY <3>1, UsingAdvances DEF RefInv, IndInv
      <3> QED
        BY <3>2, <3>3
    <2> QED
      BY <1>1, <2>1, ReserveNonceRefines, GiveUpRefines, LeaveRefines, SendRefines,
         PrivateFailedRefines DEF Execute
  <1>2. CASE Reap
    <2>1. CASE ReapStart \/ ReapEnd \/ \E n \in Nonces, hash \in Hashes : ReapNothing(n, hash)
      BY <2>1, QuietRefines DEF ReapStart, ReapEnd, Resync, ReapNothing, Running, nonceVars,
              managerVars, journalVars, executorVars, processVars, chainVars
    <2> QED
      BY <1>2, <2>1, ReapReceiptRefines DEF Reap
  <1>3. CASE Reconcile
    BY <1>3, QuietRefines DEF Reconcile, Resync, Running, journalVars, executorVars,
            processVars, chainVars
  <1>4. CASE Chain
    BY <1>4, MineRefines, EvictRefines DEF Chain
  <1>5. CASE Process
    <2>1. CASE Start \/ Reconnect \/ Crash \/ RecoverDone
      <3>1. UNCHANGED <<mined, atRisk>>
        BY <2>1 DEF Start, Reconnect, Crash, RecoverDone, chainVars
      <3>2. \A e \in Executors : pc'[e] = "idle"
        BY <2>1, HeldFacts DEF Start, Reconnect, Quiet, Crash, RecoverDone, executorVars,
                               Busy, RefInv
      <3> QED
        BY <3>1, <3>2, RecallRefines
    <2>2. CASE \E n \in Nonces : RecoverRecord(n)
      BY <2>2, QuietRefines DEF RecoverRecord, managerVars, executorVars, chainVars
    <2>3. ~ReconnectInitFails
      BY DEF ReconnectInitFails
    <2> QED
      BY <1>5, <2>1, <2>2, <2>3 DEF Process
  <1>6. CASE UNCHANGED vars
    BY <1>6, QuietRefines DEF vars, nonceVars, managerVars, journalVars, executorVars,
            processVars, chainVars
  <1> QED
    BY <1>1, <1>2, <1>3, <1>4, <1>5, <1>6, ReleaseRefines DEF Next

\* As long as no reconnection loses the journal, the bot keeps the promise of
\* NonceOwnership: only a free nonce is granted, only its holder puts it at
\* risk, and what is risked or spent stays so through crashes, failed writes
\* and lost answers (nonce-journal.js:7-17).
THEOREM LifecycleKeepsPromise ==
    ASSUME ~ReconnectInitMayFail
    PROVE  Spec => OwnershipPromise
  <1>1. Init => RefInv /\ Ownership!Init
    <2>1. ASSUME Init
          PROVE  GrantedNotBlocked /\ Ownership!Init
      <3>1. /\ process = "down" /\ reserved = {} /\ disk = EmptyJournal
            /\ pc = [e \in Executors |-> "idle"] /\ atRisk = [n \in Nonces |-> {}]
            /\ mined = [n \in Nonces |-> NoHash]
        BY <2>1 DEF Init, MgrInit, JournalInit, ManagerInit
      <3>2. \A n \in Nonces : ~Owned(n)
        BY <3>1 DEF Owned, EmptyJournal, NoRecord, Outstanding, Submitted
      <3>3. Status = [n \in Nonces |-> "free"]
        BY <3>1, <3>2 DEF Status
      <3> QED
        BY <3>1, <3>3, UsingNobody DEF GrantedNotBlocked, Ownership!Init
    <2> QED
      BY <2>1, IndInvInit DEF RefInv
  <1>2. RefInv /\ [Next]_vars => RefInv'
    BY IndInvNext, GrantedNotBlockedNext DEF RefInv, IndInv
  <1>3. RefInv /\ [Next]_vars => [Ownership!Next]_<<Status, Using>>
    BY StepRefines
  <1> QED
    BY <1>1, <1>2, <1>3, PTL DEF Spec, OwnershipPromise, Ownership!Spec, Ownership!ownershipVars
-----------------------------------------------------------------------------
(* What the promise is worth: the abstract specification excludes double use. *)

\* Executions use different nonces, and none that could be granted again.
UsedByOne ==
    /\ \A e, f \in Executors : Using[e] = Using[f] /\ Using[e] # Unset => e = f
    /\ \A e \in Executors : Using[e] # Unset => Status[Using[e]] # "free"

OwnershipTypes ==
    /\ Status \in [Nonces -> Ownership!Status]
    /\ Using \in [Executors -> Nonces \cup {Unset}]

\* Any state the abstract specification allows, wherever it comes from.
LEMMA OwnershipInit == Ownership!Init => OwnershipTypes /\ UsedByOne
  BY DEF Ownership!Init, Ownership!Status, OwnershipTypes, UsedByOne

\* Nobody uses a free nonce, so that its grant is exclusive; only its user, or
\* nobody, gives a nonce back.
LEMMA OwnershipStep ==
    ASSUME OwnershipTypes, UsedByOne, [Ownership!Next]_<<Status, Using>>
    PROVE  OwnershipTypes' /\ UsedByOne'
  <1> USE DEF OwnershipTypes, UsedByOne, Ownership!Becomes
  <1>1. {"free", "held", "risked", "spent"} = Ownership!Status
    BY DEF Ownership!Status
  <1>2. ASSUME NEW e \in Executors, Ownership!Risk(e) \/ Ownership!Refused(e)
        PROVE  OwnershipTypes' /\ UsedByOne'
    BY <1>1, <1>2 DEF Ownership!Risk, Ownership!Refused
  <1>3. ASSUME NEW e \in Executors, Ownership!Leave(e)
        PROVE  OwnershipTypes' /\ UsedByOne'
    <2>1. Using' = [Using EXCEPT ![e] = Unset] /\ Using[e] # Unset
      BY <1>3 DEF Ownership!Leave
    <2>2. Status' \in [Nonces -> Ownership!Status]
      BY <1>1, <1>3 DEF Ownership!Leave
    <2>3. \A n \in Nonces : n # Using[e] => Status'[n] = Status[n]
      BY <1>3 DEF Ownership!Leave
    <2> QED
      BY <2>1, <2>2, <2>3
  <1>4. ASSUME NEW e \in Executors, NEW n \in Nonces, Ownership!Grant(e, n)
        PROVE  OwnershipTypes' /\ UsedByOne'
    <2>1. \A f \in Executors : Using[f] # n \/ n = Unset
      BY <1>4 DEF Ownership!Grant
    <2> QED
      BY <1>1, <1>4, <2>1 DEF Ownership!Grant
  <1>5. ASSUME NEW n \in Nonces, Ownership!Take(n) \/ Ownership!Return(n)
                                 \/ Ownership!Clear(n) \/ Ownership!Spend(n)
        PROVE  OwnershipTypes' /\ UsedByOne'
    BY <1>1, <1>5 DEF Ownership!Take, Ownership!Return, Ownership!Clear, Ownership!Spend
  <1>6. CASE Ownership!Recall
    BY <1>6 DEF Ownership!Recall
  <1>7. CASE UNCHANGED <<Status, Using>>
    BY <1>7
  <1> QED
    BY <1>2, <1>3, <1>4, <1>5, <1>6, <1>7 DEF Ownership!Next

\* Whatever keeps the promise of NonceOwnership never has two executions on one
\* nonce, nor an execution on a nonce that reserve() could hand out again
\* (nonce-journal.js:7-17).
THEOREM PromiseExcludesSharing == OwnershipPromise => []UsedByOne
  <1>1. OwnershipTypes /\ UsedByOne /\ [Ownership!Next]_<<Status, Using>>
            => OwnershipTypes' /\ UsedByOne'
    BY OwnershipStep
  <1> QED
    BY <1>1, OwnershipInit, PTL DEF OwnershipPromise, Ownership!Spec, Ownership!ownershipVars

\* The bot therefore has it, as long as no reconnection loses the journal.
THEOREM ExecutionsNeverShare ==
    ASSUME ~ReconnectInitMayFail
    PROVE  Spec => []UsedByOne
  BY LifecycleKeepsPromise, PromiseExcludesSharing, PTL

-----------------------------------------------------------------------------
(* The manager under arbitrary callers                                      *)

\* Whoever calls the manager, the journal sees only journal calls: what is
\* proved of JournalSpec holds of the manager's journal.
THEOREM ManagerUsesJournal == MgrSpec => JournalSpec
  <1>1. MgrInit => JournalInit
    BY DEF MgrInit
  <1>2. [MgrNext]_nonceVars => [JournalNext]_journalVars
    <2> SUFFICES ASSUME [MgrNext]_nonceVars
                 PROVE  [JournalNext]_journalVars
      OBVIOUS
    <2>1. ASSUME NEW n \in Nonces, NEW ok \in BOOLEAN, MgrCall(n, ok)
          PROVE  Call(n, ok) \/ UNCHANGED journalVars
      <3>1. CASE \E hash \in Hashes \cup {NoHash} : Commit(n, hash, "public", ok)
        BY <3>1 DEF Commit, Call, NoJournalWrite
      <3>2. CASE pending[n] \in Hashes /\ ReapSlot(n, pending[n], "CONFIRMED_SUCCESS", ok)
        BY <3>2 DEF ReapSlot, Call, NoJournalWrite, Confirmed
      <3>3. CASE RecoverCall(n, ok)
        BY <3>3 DEF RecoverCall, Call
      <3>4. CASE (\E v \in NextRange : Reserve(n, v, ok)) \/ MarkApproved(n, ok) \/ Rollback(n, ok)
        BY <3>4 DEF Reserve, MarkApproved, Rollback, Call, NoJournalWrite
      <3>5. CASE CommitAgain(n)
        BY <3>5 DEF CommitAgain
      <3>6. CASE \E hash \in Hashes \cup {NoHash} : ReleaseDropped(n, hash, ok)
        BY <3>6 DEF ReleaseDropped, Call, NoJournalWrite
      <3> QED
        BY <2>1, <3>1, <3>2, <3>3, <3>4, <3>5, <3>6 DEF MgrCall
    <2>2. ASSUME NEW v \in NextRange, Bind(v) \/ Resync(v)
          PROVE  Restart \/ UNCHANGED journalVars
      BY <2>2 DEF Bind, Resync, Restart
    <2>3. ASSUME NEW v \in NextRange \cup {Unset}, SealRecovery(v)
          PROVE  UNCHANGED journalVars
      BY <2>3 DEF SealRecovery
    <2>4. CASE UNCHANGED nonceVars
      BY <2>4 DEF nonceVars
    <2> QED
      BY <2>1, <2>2, <2>3, <2>4 DEF MgrNext, JournalNext
  <1> QED
    BY <1>1, <1>2, PTL DEF MgrSpec, JournalSpec

\* NoReserveConflict is not inductive: a rollback or release makes `next` slide
\* back onto a nonce, so the record of every nonce that can be given back must
\* be one that the journal lets go.
MgrInv ==
    /\ ManagerTypes
    /\ OwnedBelowNext
    /\ NoReserveConflict
    /\ attached =>
        /\ next # Unset
        /\ \A n \in reserved : mem[n].state \in {"RESERVED", "APPROVED"}
        /\ \A n \in Slots : mem[n].state \in Submitted \cup {"UNKNOWN"}

\* The parts of MgrInv that are not types.
LEMMA MgrInvParts ==
    ASSUME ManagerTypes', OwnedBelowNext', attached => next' # Unset,
           attached' = attached,
           attached => \A k \in Nonces :
               /\ k >= next' /\ k \notin blocked' => mem'[k].state \in Reusable
               /\ k \in reserved' => mem'[k].state \in {"RESERVED", "APPROVED"}
               /\ pending'[k] # NoSlot => mem'[k].state \in Submitted \cup {"UNKNOWN"}
    PROVE  MgrInv'
  <1>1. reserved' \subseteq Nonces
    BY DEF ManagerTypes, ManagerTypeOK
  <1> QED
    BY <1>1 DEF MgrInv, NoReserveConflict, Slots

\* What the manager's journal calls do to the record of their nonce.
LEMMA MovedTo ==
    ASSUME JournalTypeOK, NEW n \in Nonces, NEW to \in States,
           NEW hash \in Hashes \cup {NoHash}, NEW ok \in BOOLEAN, Move(n, to, hash, ok)
    PROVE  /\ \A k \in Nonces : k # n => mem'[k] = mem[k]
           /\ MayMove(n, to) => mem'[n].state = to
           /\ ~MayMove(n, to) => mem'[n] = mem[n]
  <1>1. CASE MayMove(n, to)
    BY <1>1 DEF Move, JournalTypeOK
  <1>2. CASE ~MayMove(n, to)
    BY <1>2 DEF Move, journalVars
  <1> QED
    BY <1>1, <1>2

\* The rows of the table of transitions that the manager's calls meet.
LEMMA AllowedRows ==
    /\ {"ROLLED_BACK", "UNKNOWN"} \cup Submitted \subseteq Allowed["RESERVED"]
    /\ {"ROLLED_BACK", "UNKNOWN"} \cup Submitted \subseteq Allowed["APPROVED"]
    /\ "DROPPED" \in Allowed["UNKNOWN"]
    /\ \A s \in Submitted : "DROPPED" \in Allowed[s]
  <1>1. {"RESERVED", "APPROVED", "UNKNOWN"} \cup Submitted \subseteq States
    BY DEF States, Outstanding
  <1>2. {"RESERVED", "APPROVED", "UNKNOWN"} \cap Submitted = {}
    BY DEF Submitted
  <1> QED
    BY <1>1, <1>2 DEF Allowed

LEMMA MgrReserve ==
    ASSUME MgrInv, NEW n \in Nonces, NEW v \in NextRange, NEW ok \in BOOLEAN,
           Reserve(n, v, ok)
    PROVE  MgrInv'
  <1>1. ManagerTypes'
    BY ReserveTypes DEF MgrInv
  <1>2. next \in Int /\ v \in Int /\ v >= 0
    BY NonceBound DEF MgrInv, ManagerTypes, ManagerTypeOK, NextRange, Unset
  <1>3. n >= next /\ n \notin blocked /\ n \in Int
    BY <1>2 DEF Reserve, FirstUnblocked, Unset, Nonces
  <1>4. /\ next' = n + 1 /\ reserved' = reserved \cup {n}
        /\ UNCHANGED <<pending, blocked, attached>>
    BY DEF Reserve
  <1>5. OwnedBelowNext'
    <2>1. n \notin Slots /\ Slots' = Slots /\ Slots \subseteq Nonces /\ reserved \subseteq Nonces
      BY <1>2, <1>3, <1>4 DEF MgrInv, OwnedBelowNext, Slots, ManagerTypes, ManagerTypeOK
    <2> QED
      BY <1>2, <1>3, <1>4, <2>1 DEF MgrInv, OwnedBelowNext, Nonces
  <1>6. attached => \A k \in Nonces :
            /\ k >= next' /\ k \notin blocked' => mem'[k].state \in Reusable
            /\ k \in reserved' => mem'[k].state \in {"RESERVED", "APPROVED"}
            /\ pending'[k] # NoSlot => mem'[k].state \in Submitted \cup {"UNKNOWN"}
    <2> SUFFICES ASSUME attached, NEW k \in Nonces
                 PROVE  /\ k >= next' /\ k \notin blocked' => mem'[k].state \in Reusable
                        /\ k \in reserved' => mem'[k].state \in {"RESERVED", "APPROVED"}
                        /\ pending'[k] # NoSlot =>
                               mem'[k].state \in Submitted \cup {"UNKNOWN"}
      OBVIOUS
    <2>1. mem[n].state \in Reusable
      BY <1>3 DEF MgrInv, NoReserveConflict
    <2>2. mem' = [mem EXCEPT ![n] = [state |-> "RESERVED", hash |-> NoHash]]
      BY <2>1 DEF Reserve, JReserve
    <2>3. mem'[n].state = "RESERVED" /\ (k # n => mem'[k] = mem[k])
      BY <2>2 DEF MgrInv, ManagerTypes, JournalTypeOK
    <2>4. pending[n] = NoSlot
      BY <1>2, <1>3 DEF MgrInv, OwnedBelowNext, Slots
    <2>5. CASE k = n
      BY <1>3, <1>4, <2>3, <2>4, <2>5
    <2>6. CASE k # n
      BY <1>2, <1>3, <1>4, <2>3, <2>6 DEF MgrInv, NoReserveConflict, Slots, Nonces
    <2> QED
      BY <2>5, <2>6
  <1>7. next' # Unset
    BY <1>3, <1>4 DEF Unset, Nonces
  <1> QED
    BY <1>1, <1>4, <1>5, <1>6, <1>7, MgrInvParts

\* A call that leaves the manager's fields, or only blocks more.
LEMMA MgrQuiet ==
    ASSUME MgrInv, ManagerTypes', NEW n \in Nonces,
           UNCHANGED <<next, pending, reserved, attached>>, blocked \subseteq blocked',
           \A k \in Nonces : k # n => mem'[k] = mem[k],
           attached =>
               \/ mem'[n] = mem[n]
               \/ n \in blocked /\ n \notin reserved /\ pending[n] = NoSlot
               \/ mem[n].state = "RESERVED" /\ mem'[n].state = "APPROVED"
    PROVE  MgrInv'
  <1>1. OwnedBelowNext'
    BY DEF MgrInv, OwnedBelowNext, Slots
  <1>2. attached => \A k \in Nonces :
            /\ k >= next' /\ k \notin blocked' => mem'[k].state \in Reusable
            /\ k \in reserved' => mem'[k].state \in {"RESERVED", "APPROVED"}
            /\ pending'[k] # NoSlot => mem'[k].state \in Submitted \cup {"UNKNOWN"}
    <2>1. "RESERVED" \notin Reusable \cup Submitted \cup {"UNKNOWN"}
      BY DEF Reusable, Submitted
    <2> QED
      BY <2>1 DEF MgrInv, NoReserveConflict, Slots
  <1> QED
    BY <1>1, <1>2, MgrInvParts DEF MgrInv

LEMMA MgrMarkApproved ==
    ASSUME MgrInv, NEW n \in Nonces, NEW ok \in BOOLEAN, MarkApproved(n, ok)
    PROVE  MgrInv'
  <1>1. ManagerTypes' /\ JournalTypeOK /\ mem[n].hash \in Hashes \cup {NoHash}
    BY MarkApprovedTypes DEF MgrInv, ManagerTypes, JournalTypeOK, Record
  <1>2. CASE attached
    <2>1. "APPROVED" \in States /\ Move(n, "APPROVED", mem[n].hash, ok)
      BY <1>2 DEF MarkApproved, JApprove, States, Outstanding
    <2>2. MayMove(n, "APPROVED") => mem[n].state = "RESERVED"
      BY DEF MayMove, Allowed, Submitted, Confirmed
    <2> QED
      BY <1>1, <2>1, <2>2, MovedTo, MgrQuiet DEF MarkApproved, managerVars
  <1>3. CASE ~attached
    BY <1>1, <1>3, MgrQuiet DEF MarkApproved, managerVars, NoJournalWrite, journalVars
  <1> QED
    BY <1>2, <1>3

LEMMA MgrCommit ==
    ASSUME MgrInv, NEW n \in Nonces, NEW hash \in Hashes \cup {NoHash}, NEW ok \in BOOLEAN,
           Commit(n, hash, "public", ok)
    PROVE  MgrInv'
  <1>1. ManagerTypes' /\ JournalTypeOK
    BY CommitTypes DEF MgrInv, ManagerTypes
  <1>2. /\ n \in reserved /\ reserved' = reserved \ {n} /\ hash # NoSlot
        /\ pending' = [pending EXCEPT ![n] = hash]
        /\ pending \in [Nonces -> Hashes \cup {NoHash, NoSlot}]
        /\ UNCHANGED <<next, blocked, attached>>
    BY SlotNull DEF Commit, MgrInv, ManagerTypes, ManagerTypeOK
  <1>3. Slots' = Slots \cup {n}
    BY <1>2 DEF Slots
  <1>4. OwnedBelowNext'
    BY <1>2, <1>3 DEF MgrInv, OwnedBelowNext
  <1>5. attached => /\ mem'[n].state \in Submitted \cup {"UNKNOWN"}
                    /\ \A k \in Nonces : k # n => mem'[k] = mem[k]
    <2> SUFFICES ASSUME attached
                 PROVE  /\ mem'[n].state \in Submitted \cup {"UNKNOWN"}
                        /\ \A k \in Nonces : k # n => mem'[k] = mem[k]
      OBVIOUS
    <2>1. CommitState(hash, "public") \in Submitted \cup {"UNKNOWN"}
      BY DEF CommitState, Submitted
    <2>2. CommitState(hash, "public") \in States
      BY <2>1 DEF States, Outstanding
    <2>3. Move(n, CommitState(hash, "public"), hash, ok)
      BY DEF Commit, JCommit
    <2>4. mem[n].state \in {"RESERVED", "APPROVED"}
      BY <1>2 DEF MgrInv
    <2>5. MayMove(n, CommitState(hash, "public"))
      <3>1. {"RESERVED", "APPROVED"} \subseteq States
        BY DEF States, Outstanding
      <3>2. CommitState(hash, "public") \in Allowed[mem[n].state]
        BY <2>1, <2>4, AllowedRows
      <3> QED
        BY <2>4, <3>1, <3>2 DEF MayMove
    <2> QED
      BY <1>1, <2>1, <2>2, <2>3, <2>5, MovedTo
  <1>6. attached => \A k \in Nonces :
            /\ k >= next' /\ k \notin blocked' => mem'[k].state \in Reusable
            /\ k \in reserved' => mem'[k].state \in {"RESERVED", "APPROVED"}
            /\ pending'[k] # NoSlot => mem'[k].state \in Submitted \cup {"UNKNOWN"}
    <2> SUFFICES ASSUME attached, NEW k \in Nonces
                 PROVE  /\ k >= next' /\ k \notin blocked' => mem'[k].state \in Reusable
                        /\ k \in reserved' => mem'[k].state \in {"RESERVED", "APPROVED"}
                        /\ pending'[k] # NoSlot =>
                               mem'[k].state \in Submitted \cup {"UNKNOWN"}
      OBVIOUS
    <2>1. CASE k = n
      <3>1. ~(k >= next')
        BY <1>2, <2>1, NonceBound DEF MgrInv, OwnedBelowNext, ManagerTypes, ManagerTypeOK,
                NextRange, Unset, Nonces
      <3> QED
        BY <1>2, <1>5, <2>1, <3>1
    <2>2. CASE k # n
      BY <1>2, <1>5, <2>2 DEF MgrInv, NoReserveConflict, Slots
    <2> QED
      BY <2>1, <2>2
  <1> QED
    BY <1>1, <1>2, <1>4, <1>6, MgrInvParts DEF MgrInv

LEMMA MgrCommitAgain ==
    ASSUME MgrInv, NEW n \in Nonces, CommitAgain(n)
    PROVE  MgrInv'
  <1>1. ManagerTypes'
    BY DEF CommitAgain, MgrInv, ManagerTypes, ManagerTypeOK, JournalTypeOK, journalVars
  <1> QED
    BY <1>1, MgrQuiet DEF CommitAgain, journalVars

\* A call that gives nonce n up, and may let `next` slide back onto it.
LEMMA MgrGiven ==
    ASSUME MgrInv, ManagerTypes', NEW n \in Nonces,
           n \in reserved \cup Slots,
           reserved' = reserved \ {n}, pending' = [pending EXCEPT ![n] = NoSlot],
           UNCHANGED attached, next' = next \/ next' = Rewound(n, Slots'),
           blocked' = blocked \/ blocked' = blocked \ {n},
           attached => \A k \in Nonces : k # n => mem'[k] = mem[k],
           attached /\ next' # next => mem'[n].state \in Reusable
    PROVE  MgrInv'
  <1>1. pending \in [Nonces -> Hashes \cup {NoHash, NoSlot}] /\ next \in Int /\ n \in Int
    BY NonceBound DEF MgrInv, ManagerTypes, ManagerTypeOK, NextRange, Unset, Nonces
  <1>2. Slots' = Slots \ {n} /\ n < next
    BY <1>1 DEF Slots, MgrInv, OwnedBelowNext
  <1>3. next' = next \/ (next' = n /\ next = n + 1 /\ Slots' = {})
    BY DEF Rewound
  <1>4. reserved \subseteq Nonces /\ Slots \subseteq Nonces
    BY DEF MgrInv, ManagerTypes, ManagerTypeOK, Slots
  <1>5. OwnedBelowNext'
    BY <1>1, <1>2, <1>3, <1>4 DEF MgrInv, OwnedBelowNext, Nonces
  <1>6. attached => \A k \in Nonces :
            /\ k >= next' /\ k \notin blocked' => mem'[k].state \in Reusable
            /\ k \in reserved' => mem'[k].state \in {"RESERVED", "APPROVED"}
            /\ pending'[k] # NoSlot => mem'[k].state \in Submitted \cup {"UNKNOWN"}
    <2> SUFFICES ASSUME attached, NEW k \in Nonces
                 PROVE  /\ k >= next' /\ k \notin blocked' => mem'[k].state \in Reusable
                        /\ k \in reserved' => mem'[k].state \in {"RESERVED", "APPROVED"}
                        /\ pending'[k] # NoSlot =>
                               mem'[k].state \in Submitted \cup {"UNKNOWN"}
      OBVIOUS
    <2>1. CASE k = n
      BY <1>1, <1>2, <1>3, <2>1
    <2>2. CASE k # n
      <3>1. k >= next' => k >= next
        BY <1>1, <1>3, <2>2 DEF Nonces
      <3> QED
        BY <1>1, <2>2, <3>1 DEF MgrInv, NoReserveConflict, Slots
    <2> QED
      BY <2>1, <2>2
  <1>7. attached => next' # Unset
    BY <1>3 DEF MgrInv, Nonces, Unset
  <1> QED
    BY <1>5, <1>6, <1>7, MgrInvParts

LEMMA MgrRollback ==
    ASSUME MgrInv, NEW n \in Nonces, NEW ok \in BOOLEAN, Rollback(n, ok)
    PROVE  MgrInv'
  <1>1. ManagerTypes' /\ JournalTypeOK /\ mem[n].hash \in Hashes \cup {NoHash}
    BY RollbackTypes DEF MgrInv, ManagerTypes, JournalTypeOK, Record
  <1>2. pending[n] = NoSlot /\ pending' = pending
    BY DEF Rollback, MgrInv, OwnedBelowNext, Slots
  <1>3. pending' = [pending EXCEPT ![n] = NoSlot] /\ Slots' = Slots
    BY <1>2 DEF Slots, MgrInv, ManagerTypes, ManagerTypeOK
  <1>4. attached => /\ mem'[n].state \in Reusable
                    /\ \A k \in Nonces : k # n => mem'[k] = mem[k]
    <2> SUFFICES ASSUME attached
                 PROVE  /\ mem'[n].state \in Reusable
                        /\ \A k \in Nonces : k # n => mem'[k] = mem[k]
      OBVIOUS
    <2>1. mem[n].state \in {"RESERVED", "APPROVED"}
      BY DEF Rollback, MgrInv
    <2>2. "ROLLED_BACK" \in States /\ {"RESERVED", "APPROVED"} \subseteq States
      BY DEF States, Terminal, Outstanding
    <2>3. "ROLLED_BACK" \in Allowed[mem[n].state]
      BY <2>1, AllowedRows
    <2>4. MayMove(n, "ROLLED_BACK")
      BY <2>1, <2>2, <2>3 DEF MayMove
    <2>5. Move(n, "ROLLED_BACK", mem[n].hash, ok)
      BY DEF Rollback, JRolledBack
    <2> QED
      BY <1>1, <2>2, <2>4, <2>5, MovedTo DEF Reusable
  <1> QED
    BY <1>1, <1>3, <1>4, MgrGiven DEF Rollback

LEMMA MgrReleaseDropped ==
    ASSUME MgrInv, NEW n \in Nonces, NEW hash, NEW ok \in BOOLEAN,
           ReleaseDropped(n, hash, ok)
    PROVE  MgrInv'
  <1>1. ManagerTypes' /\ JournalTypeOK /\ mem[n].hash \in Hashes \cup {NoHash}
    BY ReleaseDroppedTypes DEF MgrInv, ManagerTypes, JournalTypeOK, Record
  <1>2. /\ n \in Slots /\ reserved' = reserved \ {n}
        /\ pending' = [pending EXCEPT ![n] = NoSlot] /\ UNCHANGED attached
        /\ next' = Rewound(n, Slots \ {n})
    BY DEF ReleaseDropped, MgrInv, OwnedBelowNext
  <1>3. Slots' = Slots \ {n}
    BY <1>2 DEF Slots, MgrInv, ManagerTypes, ManagerTypeOK
  <1>4. attached => /\ mem'[n].state \in Reusable
                    /\ \A k \in Nonces : k # n => mem'[k] = mem[k]
    <2> SUFFICES ASSUME attached
                 PROVE  /\ mem'[n].state \in Reusable
                        /\ \A k \in Nonces : k # n => mem'[k] = mem[k]
      OBVIOUS
    <2>1. mem[n].state \in Submitted \cup {"UNKNOWN"}
      BY <1>2 DEF MgrInv
    <2>2. "DROPPED" \in States /\ Submitted \cup {"UNKNOWN"} \subseteq States
      BY DEF States, Terminal, Outstanding
    <2>3. "DROPPED" \in Allowed[mem[n].state]
      BY <2>1, AllowedRows
    <2>4. MayMove(n, "DROPPED")
      BY <2>1, <2>2, <2>3 DEF MayMove
    <2>5. Move(n, "DROPPED", mem[n].hash, ok)
      BY DEF ReleaseDropped, JDrop
    <2> QED
      BY <1>1, <2>2, <2>4, <2>5, MovedTo DEF Reusable
  <1>5. blocked' = blocked \/ blocked' = blocked \ {n}
    BY DEF ReleaseDropped
  <1> QED
    BY <1>1, <1>2, <1>3, <1>4, <1>5, MgrGiven

LEMMA MgrConfirmed ==
    ASSUME JournalTypeOK, NEW n \in Nonces, NEW to \in Confirmed, NEW hash \in Hashes,
           NEW ok \in BOOLEAN, JConfirm(n, to, hash, ok)
    PROVE  \A k \in Nonces : k # n => mem'[k] = mem[k]
  <1>1. mem[n].hash \in Hashes \cup {NoHash} /\ to \in States
    BY DEF JournalTypeOK, Record, States, Terminal
  <1>2. CASE mem[n].hash # NoHash /\ mem[n].hash = hash
    BY <1>1, <1>2, MovedTo DEF JConfirm
  <1>3. CASE ~(mem[n].hash # NoHash /\ mem[n].hash = hash)
    BY <1>3 DEF JConfirm, journalVars
  <1> QED
    BY <1>2, <1>3

LEMMA MgrReapSlot ==
    ASSUME MgrInv, NEW n \in Nonces, NEW ok \in BOOLEAN, pending[n] \in Hashes,
           ReapSlot(n, pending[n], "CONFIRMED_SUCCESS", ok)
    PROVE  MgrInv'
  <1>1. "CONFIRMED_SUCCESS" \in Confirmed /\ pending[n] # NoSlot
    BY SlotNull DEF Confirmed
  <1>2. ManagerTypes' /\ JournalTypeOK
    BY <1>1, ReapSlotTypes DEF MgrInv, ManagerTypes
  <1>3. /\ n \in Slots /\ reserved' = reserved \ {n}
        /\ pending' = [pending EXCEPT ![n] = NoSlot]
        /\ UNCHANGED <<next, blocked, attached>>
    BY <1>1 DEF ReapSlot, MgrInv, OwnedBelowNext, Slots
  <1>4. attached => \A k \in Nonces : k # n => mem'[k] = mem[k]
    BY <1>1, <1>2, MgrConfirmed DEF ReapSlot
  <1> QED
    BY <1>2, <1>3, <1>4, MgrGiven

LEMMA MgrRecoverCall ==
    ASSUME MgrInv, NEW n \in Nonces, NEW ok \in BOOLEAN, RecoverCall(n, ok)
    PROVE  MgrInv'
  <1>1. JournalTypeOK /\ mem[n].hash \in Hashes \cup {NoHash} /\ UNCHANGED managerVars
    BY DEF RecoverCall, MgrInv, ManagerTypes, JournalTypeOK, Record
  <1>2. ManagerTypes'
    BY <1>1, CallTypes DEF RecoverCall, Call, MgrInv, ManagerTypes, ManagerTypeOK, managerVars
  <1>3. \A k \in Nonces : k # n => mem'[k] = mem[k]
    <2>1. "UNKNOWN" \in States
      BY DEF States, Outstanding
    <2>2. CASE JMarkUnknown(n, ok)
      BY <1>1, <2>1, <2>2, MovedTo DEF JMarkUnknown
    <2>3. CASE \E to \in Confirmed, hash \in Hashes : JConfirm(n, to, hash, ok)
      BY <1>1, <2>3, MgrConfirmed
    <2> QED
      BY <2>2, <2>3 DEF RecoverCall
  <1>4. n \in blocked /\ n \notin reserved /\ pending[n] = NoSlot
    BY DEF RecoverCall, Slots
  <1> QED
    BY <1>1, <1>2, <1>3, <1>4, MgrQuiet DEF managerVars

\* Moving `next` up, and blocking more, gives nothing away.
LEMMA MgrRaised ==
    ASSUME MgrInv, ManagerTypes', UNCHANGED <<pending, reserved, attached, journalVars>>,
           blocked \subseteq blocked', next' >= next
    PROVE  MgrInv'
  <1>1. next \in Int /\ next' \in Int /\ next >= Unset
    BY NonceBound DEF MgrInv, ManagerTypes, ManagerTypeOK, NextRange, Unset
  <1>2. OwnedBelowNext' /\ (attached => next' # Unset)
    BY <1>1 DEF MgrInv, OwnedBelowNext, Slots, Unset, ManagerTypes, ManagerTypeOK, Nonces
  <1>3. attached => \A k \in Nonces :
            /\ k >= next' /\ k \notin blocked' => mem'[k].state \in Reusable
            /\ k \in reserved' => mem'[k].state \in {"RESERVED", "APPROVED"}
            /\ pending'[k] # NoSlot => mem'[k].state \in Submitted \cup {"UNKNOWN"}
    BY <1>1 DEF MgrInv, NoReserveConflict, Slots, journalVars, Nonces
  <1> QED
    BY <1>2, <1>3, MgrInvParts

LEMMA MgrBind ==
    ASSUME MgrInv, NEW v \in NextRange, Bind(v)
    PROVE  MgrInv'
  <1>1. ManagerTypes'
    BY BindTypes DEF MgrInv
  <1>2. PICK m \in NextRange \cup {Unset} :
            OnePast(JournalNonces(disk), m) /\ next' = Larger(v, m)
    BY DEF Bind
  <1>3. v \in Int /\ m \in Int /\ v >= 0
    BY NonceBound DEF NextRange, Unset
  <1>4. next' >= v /\ next' >= m /\ next' \in Int
    BY <1>2, <1>3 DEF Larger
  <1>5. reserved' = {} /\ pending' = NoPending /\ mem' = disk /\ Slots' = {}
    BY DEF Bind, Load, Slots, NoPending
  <1>6. ASSUME NEW k \in Nonces, k >= next'
        PROVE  mem'[k].state \in Reusable
    <2>1. k \notin JournalNonces(disk)
      <3>1. JournalNonces(disk) \subseteq Nonces
        BY DEF JournalNonces
      <3>2. ASSUME NEW top \in Nonces, m = top + 1, k <= top
            PROVE  FALSE
        BY <1>3, <1>4, <1>6, <3>2 DEF Nonces
      <3> QED
        BY <1>2, <3>1, <3>2 DEF OnePast
    <2> QED
      BY <1>5, <2>1 DEF JournalNonces, Reusable
  <1>7. OwnedBelowNext' /\ NoReserveConflict'
    BY <1>5, <1>6 DEF OwnedBelowNext, NoReserveConflict
  <1> QED
    BY <1>1, <1>3, <1>4, <1>5, <1>7 DEF MgrInv, Unset

LEMMA MgrInvNext == MgrInv /\ [MgrNext]_nonceVars => MgrInv'
  <1> SUFFICES ASSUME MgrInv, [MgrNext]_nonceVars
               PROVE  MgrInv'
    OBVIOUS
  <1>0. next \in Int /\ ManagerTypes
    BY NonceBound DEF MgrInv, ManagerTypes, ManagerTypeOK, NextRange, Unset
  <1>1. ASSUME NEW n \in Nonces, NEW ok \in BOOLEAN, MgrCall(n, ok)
        PROVE  MgrInv'
    BY <1>1, MgrReserve, MgrMarkApproved, MgrCommit, MgrCommitAgain, MgrRollback,
       MgrReleaseDropped, MgrReapSlot, MgrRecoverCall DEF MgrCall
  <1>2. ASSUME NEW v \in NextRange, Bind(v)
        PROVE  MgrInv'
    BY <1>2, MgrBind
  <1>3. ASSUME NEW v \in NextRange, Resync(v)
        PROVE  MgrInv'
    <2>1. ManagerTypes' /\ next' >= next
      BY <1>0, <1>3, ResyncTypes, NonceBound DEF Resync, Larger, NextRange
    <2> QED
      BY <1>3, <2>1, MgrRaised DEF Resync
  <1>4. ASSUME NEW v \in NextRange \cup {Unset}, SealRecovery(v)
        PROVE  MgrInv'
    <2>1. PICK m \in NextRange \cup {Unset} : next' = Larger(Larger(next, v), m)
      BY <1>4 DEF SealRecovery
    <2>2. next' >= next
      BY <1>0, <2>1, NonceBound DEF Larger, NextRange, Unset
    <2> QED
      BY <1>0, <1>4, <2>2, SealRecoveryTypes, MgrRaised DEF SealRecovery
  <1>5. CASE UNCHANGED nonceVars
    <2>1. ManagerTypes'
      BY <1>0, <1>5 DEF nonceVars, managerVars, journalVars, ManagerTypes, ManagerTypeOK,
              JournalTypeOK
    <2> QED
      BY <1>0, <1>5, <2>1, MgrRaised DEF nonceVars, managerVars
  <1> QED
    BY <1>1, <1>2, <1>3, <1>4, <1>5 DEF MgrNext

\* However the manager is called, and whatever writes fail, reserve() never
\* takes a nonce whose record the journal refuses to overwrite (nonce.js:85-90).
THEOREM NoConflicts == MgrSpec => []NoReserveConflict
  <1>1. MgrInit => MgrInv
    <2> SUFFICES ASSUME MgrInit
                 PROVE  MgrInv
      OBVIOUS
    <2>1. ManagerTypes
      BY DEF MgrInit, JournalInit, ManagerInit, ManagerTypes, JournalTypeOK, ManagerTypeOK,
             EmptyJournal, NoRecord, Record, NoPending
    <2>2. ~attached /\ reserved = {} /\ Slots = {}
      BY DEF MgrInit, ManagerInit, Slots, NoPending
    <2> QED
      BY <2>1, <2>2 DEF MgrInv, OwnedBelowNext, NoReserveConflict
  <1>2. MgrInv => NoReserveConflict
    BY DEF MgrInv
  <1> QED
    BY <1>1, <1>2, MgrInvNext, PTL DEF MgrSpec
=============================================================================
