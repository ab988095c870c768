---------------------------- MODULE NonceJournal ----------------------------
(***************************************************************************)
(* bot/nonce-journal.js: the durable record of every transaction nonce the  *)
(* bot has allocated.  The journal keeps its records in memory (`mem`) and  *)
(* rewrites the whole file (`disk`) after every change, by writing a        *)
(* temporary file and renaming it.  A write that throws leaves the old file *)
(* in place, but the record in memory has already changed: memory runs      *)
(* ahead of the file until a later write succeeds and stores all of it.     *)
(*                                                                          *)
(* A record is reduced to its lifecycle state and its transaction hash; the *)
(* wallet, timestamps, fingerprint and stored evidence only decide          *)
(* validation, which happens before anything is changed.  Each operation is *)
(* total: a call the code rejects by throwing leaves both copies unchanged. *)
(* Definitions named Mut* are seeded bugs for the mutation runs; nothing in *)
(* the specification uses them.                                             *)
(***************************************************************************)
EXTENDS Integers

CONSTANTS
    MaxNonce,    \* BOUND: nonces are 0..MaxNonce
    Hashes,      \* the transaction hashes a nonce can be used with
    NoHash       \* txHash === null

ASSUME NonceBound == MaxNonce \in Nat
ASSUME HashNull == NoHash \notin Hashes

VARIABLES
    mem,         \* journal.records, by nonce
    disk         \* the journal file, by nonce

journalVars == <<mem, disk>>

Nonces == 0..MaxNonce

Submitted   == {"SUBMITTED_PUBLIC", "SUBMITTED_PRIVATE"}
Confirmed   == {"CONFIRMED_SUCCESS", "CONFIRMED_REVERT"}
Terminal    == Confirmed \cup {"DROPPED", "ROLLED_BACK"}
Outstanding == {"RESERVED", "APPROVED", "UNKNOWN"} \cup Submitted
States      == Terminal \cup Outstanding

\* reserve() overwrites these records; any other record is a conflict.
\* "NONE" stands for a nonce that has no record.
Reusable == {"NONE", "ROLLED_BACK", "DROPPED"}

Allowed ==
    [s \in States |->
        CASE s = "RESERVED" -> Submitted \cup {"APPROVED", "UNKNOWN", "ROLLED_BACK"}
          [] s = "APPROVED" -> Submitted \cup {"UNKNOWN", "ROLLED_BACK"}
          [] s \in Submitted -> Confirmed \cup {"UNKNOWN", "DROPPED"}
          [] s = "UNKNOWN"  -> Confirmed \cup {"DROPPED"}
          [] OTHER          -> {}]

Record == [state : States \cup {"NONE"}, hash : Hashes \cup {NoHash}]
NoRecord == [state |-> "NONE", hash |-> NoHash]
EmptyJournal == [n \in Nonces |-> NoRecord]

MutMayMove(n, to) == mem[n].state \in States \ Terminal
MutMayMoveConfirmed(n, to) ==
    mem[n].state \in States /\ (mem[n].state \in Confirmed \/ to \in Allowed[mem[n].state])
MayMove(n, to) == mem[n].state \in States /\ to \in Allowed[mem[n].state]

-----------------------------------------------------------------------------
(* Operations.  `ok` says whether the file write of the call succeeds.      *)

\* _save(): the rename stores every record held in memory, or nothing.
Save(ok) == disk' = IF ok THEN mem' ELSE disk

\* _transition() followed by the assignment of txHash and _save().
Move(n, to, hash, ok) ==
    IF MayMove(n, to)
    THEN /\ mem' = [mem EXCEPT ![n] = [state |-> to, hash |-> hash]]
         /\ Save(ok)
    ELSE UNCHANGED journalVars

\* reserve(nonce): a new record, or a finished one overwritten.
JReserve(n, ok) ==
    IF mem[n].state \in Reusable
    THEN /\ mem' = [mem EXCEPT ![n] = [state |-> "RESERVED", hash |-> NoHash]]
         /\ Save(ok)
    ELSE UNCHANGED journalVars

\* approve(nonce, fingerprint)
JApprove(n, ok) == Move(n, "APPROVED", mem[n].hash, ok)

\* commit(nonce, {hash, channel}): without a hash the record is a tombstone.
CommitState(hash, channel) ==
    IF hash = NoHash THEN "UNKNOWN"
    ELSE IF channel = "private" THEN "SUBMITTED_PRIVATE" ELSE "SUBMITTED_PUBLIC"

JCommit(n, hash, channel, ok) == Move(n, CommitState(hash, channel), hash, ok)

\* markUnknown(nonce, reason)
JMarkUnknown(n, ok) == Move(n, "UNKNOWN", mem[n].hash, ok)

\* terminal(nonce, "CONFIRMED_*", receipt): only for the record's own hash.
JConfirm(n, to, hash, ok) ==
    IF mem[n].hash # NoHash /\ mem[n].hash = hash
    THEN Move(n, to, mem[n].hash, ok)
    ELSE UNCHANGED journalVars

\* terminal(nonce, "DROPPED", evidence)
JDrop(n, ok) == Move(n, "DROPPED", mem[n].hash, ok)

\* rolledBack(nonce)
JRolledBack(n, ok) == Move(n, "ROLLED_BACK", mem[n].hash, ok)

\* load(): a fresh NonceJournal bound to the same file.
Load == mem' = disk

-----------------------------------------------------------------------------
(* The journal on its own: any caller, any order, any write may fail.       *)

JournalInit == mem = EmptyJournal /\ disk = EmptyJournal

Call(n, ok) ==
    \/ JReserve(n, ok)
    \/ JApprove(n, ok)
    \/ \E hash \in Hashes \cup {NoHash}, channel \in {"public", "private"} :
           JCommit(n, hash, channel, ok)
    \/ JMarkUnknown(n, ok)
    \/ \E to \in Confirmed, hash \in Hashes : JConfirm(n, to, hash, ok)
    \/ JDrop(n, ok)
    \/ JRolledBack(n, ok)

\* The process dies and a new one loads the file.
Restart == Load /\ UNCHANGED disk

JournalNext ==
    \/ \E n \in Nonces, ok \in BOOLEAN : Call(n, ok)
    \/ Restart

JournalSpec == JournalInit /\ [][JournalNext]_journalVars

-----------------------------------------------------------------------------
(* Properties                                                               *)

\* Both copies of the journal are tables of records (nonce-journal.js:28-67).
JournalTypeOK ==
    /\ mem \in [Nonces -> Record]
    /\ disk \in [Nonces -> Record]

\* A record says it was submitted or confirmed only together with the hash
\* of that transaction, in memory and on disk, whatever writes failed: commit
\* and terminal never leave a half-filled record (nonce-journal.js:330-439).
HashWhereClaimed ==
    \A n \in Nonces, copy \in {mem, disk} :
        /\ copy[n].state \in Submitted \cup Confirmed => copy[n].hash # NoHash
        /\ copy[n].state \in {"NONE", "RESERVED", "APPROVED", "ROLLED_BACK"} =>
               copy[n].hash = NoHash

\* The journal's central rule on the FILE: while memory agrees that the nonce
\* was sent, no call, failed write or restart makes the file forget it; only a
\* receipt or drop evidence ends it (nonce-journal.js:7-10).
Sent == Submitted \cup {"UNKNOWN"}

SentNeedsEvidence ==
    [][\A n \in Nonces :
          mem[n].state \in Sent /\ disk[n].state \in Sent
          => disk'[n].state \in Sent \cup Confirmed \cup {"DROPPED"}]_journalVars

\* A confirmed nonce stays confirmed on disk for ever, under its own hash: no
\* sequence of calls, failed writes and restarts reopens it
\* (nonce-journal.js:54-67, 265-287).
ConfirmedIsForever ==
    [][\A n \in Nonces : disk[n].state \in Confirmed => disk'[n] = disk[n]]_journalVars
=============================================================================
