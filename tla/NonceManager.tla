---------------------------- MODULE NonceManager ----------------------------
(***************************************************************************)
(* bot/nonce.js: the in-memory owner of the wallet's nonces.  A nonce is    *)
(* granted by reserve(), becomes a pending slot by commit(), and leaves the *)
(* manager by rollback(), by releaseDropped() or by a receipt seen by       *)
(* reap().  Every change of ownership is also written to the journal.       *)
(*                                                                          *)
(* The operations are actions with their arguments: n a nonce, v an answer  *)
(* of getNonce("pending"), hash a transaction hash, ok whether the file     *)
(* write of the journal call succeeds.  A call without journal attached     *)
(* writes nothing.                                                          *)
(***************************************************************************)
EXTENDS NonceJournal, FiniteSets

CONSTANTS
    MaxPending,  \* maxPending: cap on slots in flight (config maxNonceGap)
    NoSlot       \* a nonce that is not a key of `pending`

ASSUME PendingCap == MaxPending \in Nat \ {0}
ASSUME SlotNull == NoSlot \notin Hashes \cup {NoHash}

VARIABLES
    next,        \* this.next, Unset when null
    pending,     \* this.pending: nonce -> hash, NoHash for a tombstone
    reserved,    \* this.reserved
    blocked,     \* this.blocked
    attached     \* this.journal !== null

managerVars == <<next, pending, reserved, blocked, attached>>
nonceVars == <<managerVars, journalVars>>

Unset == -1
NextRange == 0..(MaxNonce + 1)

Slots == {n \in Nonces : pending[n] # NoSlot}
NoPending == [n \in Nonces |-> NoSlot]

\* Math.max(next, v), where a null next is replaced by v.
Larger(a, b) == IF a >= b THEN a ELSE b

\* m is one above the largest element of S, or Unset when S is empty:
\* the maxJournal + 1 of attachJournal() and recover().
OnePast(S, m) ==
    \/ S = {} /\ m = Unset
    \/ \E top \in S : m = top + 1 /\ \A n \in S : n <= top

JournalNonces(j) == {n \in Nonces : j[n].state # "NONE"}
OutstandingIn(j) == {n \in Nonces : j[n].state \in Outstanding}

\* n is the first nonce from `from` on that is not blocked.
FirstUnblocked(from, n) ==
    /\ n >= from
    /\ n \notin blocked
    /\ \A k \in Nonces : from <= k /\ k < n => k \in blocked

\* `if (this.journal)` of every operation, when there is none.
NoJournalWrite == UNCHANGED journalVars

-----------------------------------------------------------------------------
(* Operations                                                               *)

ManagerInit ==
    /\ next = Unset
    /\ pending = NoPending
    /\ reserved = {}
    /\ blocked = {}
    /\ attached = FALSE

\* reserve() returns n (Granted) or throws after having taken n.
MutGranted(n, ok) == TRUE
Granted(n, ok) == attached => mem[n].state \in Reusable /\ ok

Saturated == Cardinality(Slots) + Cardinality(reserved) >= MaxPending

Reserve(n, v, ok) ==
    /\ ~Saturated
    /\ FirstUnblocked(IF next = Unset THEN v ELSE next, n)
    /\ next' = n + 1
    /\ reserved' = reserved \cup {n}
    /\ IF attached THEN JReserve(n, ok) ELSE NoJournalWrite
    /\ UNCHANGED <<pending, blocked, attached>>

\* markApproved(nonce, fingerprint)
MarkApproved(n, ok) ==
    /\ IF attached THEN JApprove(n, ok) ELSE NoJournalWrite
    /\ UNCHANGED managerVars

\* commit(nonce, hash, {channel}) of a reserved nonce.
Commit(n, hash, channel, ok) ==
    /\ n \in reserved
    /\ reserved' = reserved \ {n}
    /\ pending' = [pending EXCEPT ![n] = hash]
    /\ IF attached THEN JCommit(n, hash, channel, ok) ELSE NoJournalWrite
    /\ UNCHANGED <<next, blocked, attached>>

\* commit() of a nonce that is pending already: blocks it and throws.
CommitAgain(n) ==
    /\ n \notin reserved
    /\ n \in Slots
    /\ blocked' = blocked \cup {n}
    /\ UNCHANGED <<next, pending, reserved, attached, journalVars>>

\* next after nonce n was given back: reused only if it is the newest nonce
\* and no slot is left pending.
Rewound(n, slots) == IF slots = {} /\ next = n + 1 THEN n ELSE next

\* rollback(nonce); a failing journal write is swallowed.
Rollback(n, ok) ==
    /\ n \in reserved
    /\ reserved' = reserved \ {n}
    /\ next' = Rewound(n, Slots)
    /\ IF attached THEN JRolledBack(n, ok) ELSE NoJournalWrite
    /\ UNCHANGED <<pending, blocked, attached>>

\* releaseDropped(nonce, proof): the caller holds a DROPPED tracker record of
\* this nonce whose hash is `hash`; a slot with a hash needs that very hash.
ReleaseDropped(n, hash, ok) ==
    /\ n \in Slots
    /\ pending[n] # NoHash => pending[n] = hash
    /\ pending' = [pending EXCEPT ![n] = NoSlot]
    /\ next' = Rewound(n, Slots \ {n})
    /\ IF attached
       THEN /\ JDrop(n, ok)
            /\ blocked' = IF MayMove(n, "DROPPED") /\ ok THEN blocked \ {n} ELSE blocked
       ELSE NoJournalWrite /\ UNCHANGED blocked
    /\ UNCHANGED <<reserved, attached>>

\* reap(), one slot: the receipt of `hash` is valid and identified.  The slot
\* of n is deleted whatever it holds by now; journal errors are swallowed.
MutReapSlot(n, hash, to, ok) ==
    /\ IF attached THEN JConfirm(n, to, hash, ok) ELSE NoJournalWrite
    /\ pending' = IF ok THEN [pending EXCEPT ![n] = NoSlot] ELSE pending
    /\ UNCHANGED <<next, reserved, blocked, attached>>
ReapSlot(n, hash, to, ok) ==
    /\ pending' = [pending EXCEPT ![n] = NoSlot]
    /\ IF attached THEN JConfirm(n, to, hash, ok) ELSE NoJournalWrite
    /\ UNCHANGED <<next, reserved, blocked, attached>>

\* reconcile(), init() and the resync at the end of reap(): monotonic.
Resync(v) ==
    /\ next' = Larger(next, v)
    /\ UNCHANGED <<pending, reserved, blocked, attached, journalVars>>

\* A new manager: constructor, init() answering v, attachJournal(), which
\* loads the file, blocks the outstanding nonces and moves next past it.
MutBind(v) ==
    /\ next' = v
    /\ pending' = NoPending
    /\ reserved' = {}
    /\ blocked' = OutstandingIn(disk)
    /\ attached' = TRUE
    /\ Load /\ UNCHANGED disk
Bind(v) ==
    /\ \E m \in NextRange \cup {Unset} :
           OnePast(JournalNonces(disk), m) /\ next' = Larger(v, m)
    /\ pending' = NoPending
    /\ reserved' = {}
    /\ blocked' = OutstandingIn(disk)
    /\ attached' = TRUE
    /\ Load /\ UNCHANGED disk

\* A new manager whose init() threw: no next, no journal.
BindWithoutJournal ==
    /\ next' = Unset
    /\ pending' = NoPending
    /\ reserved' = {}
    /\ blocked' = {}
    /\ attached' = FALSE
    /\ mem' = EmptyJournal /\ UNCHANGED disk

\* recover(), step 3: block what is still outstanding, move next up.
SealRecovery(v) ==
    /\ blocked' = blocked \cup OutstandingIn(mem)
    /\ \E m \in NextRange \cup {Unset} :
           /\ OnePast(JournalNonces(mem), m)
           /\ next' = Larger(Larger(next, v), m)
    /\ UNCHANGED <<pending, reserved, attached, journalVars>>

-----------------------------------------------------------------------------
(* The manager on its own: callers make any call, legal or not, in any      *)
(* order, and every journal write may fail.  The RPC answers anything.      *)

MgrInit ==
    /\ JournalInit
    /\ ManagerInit

\* The journal calls of recover(), before the new manager grants anything: a
\* record found outstanding is confirmed by its receipt or marked UNKNOWN.
RecoverCall(n, ok) ==
    /\ attached /\ reserved = {} /\ Slots = {}
    /\ n \in OutstandingIn(mem) \cap blocked
    /\ \/ JMarkUnknown(n, ok)
       \/ \E to \in Confirmed, hash \in Hashes : JConfirm(n, to, hash, ok)
    /\ UNCHANGED managerVars

MgrCall(n, ok) ==
    \/ \E v \in NextRange : Reserve(n, v, ok)
    \/ MarkApproved(n, ok)
    \/ \E hash \in Hashes \cup {NoHash} : Commit(n, hash, "public", ok)
    \/ CommitAgain(n)
    \/ Rollback(n, ok)
    \/ \E hash \in Hashes \cup {NoHash} : ReleaseDropped(n, hash, ok)
    \/ pending[n] \in Hashes /\ ReapSlot(n, pending[n], "CONFIRMED_SUCCESS", ok)
    \/ RecoverCall(n, ok)

MgrNext ==
    \/ \E n \in Nonces, ok \in BOOLEAN : MgrCall(n, ok)
    \/ \E v \in NextRange : Bind(v) \/ Resync(v)
    \/ attached /\ \E v \in NextRange \cup {Unset} : SealRecovery(v)

MgrSpec == MgrInit /\ [][MgrNext]_nonceVars

-----------------------------------------------------------------------------
(* Properties                                                               *)

\* The manager's fields have the types of the constructor (nonce.js:37-55).
ManagerTypeOK ==
    /\ next \in NextRange \cup {Unset}
    /\ pending \in [Nonces -> Hashes \cup {NoHash, NoSlot}]
    /\ reserved \subseteq Nonces
    /\ blocked \subseteq Nonces
    /\ attached \in BOOLEAN

\* A nonce is in at most one of `reserved` and `pending`, and next has passed
\* every nonce of either: the rewinds of rollback() and releaseDropped() never
\* slide under a nonce that is still owned (nonce.js:154-168, 350-352).
OwnedBelowNext ==
    /\ reserved \cap Slots = {}
    /\ \A n \in reserved \cup Slots : n < next

\* reserve() never meets a "nonce-conflict": whatever writes failed before,
\* the record of every nonce it can still hand out is absent or reusable in
\* the journal in memory (nonce.js:85-90, nonce-journal.js:265-287).
NoReserveConflict ==
    attached => \A n \in Nonces :
        n >= next /\ n \notin blocked => mem[n].state \in Reusable
=============================================================================
