------------------------------- MODULE ScanLoop -------------------------------
(***************************************************************************)
(* main() of bot/index.js: who calls scan(), the mutex `executing` that      *)
(* keeps scans apart, the stages of one scan, its error handling, and the    *)
(* health check that replaces the RPC provider together with the wallet and  *)
(* the NonceManager.                                                         *)
(*                                                                           *)
(* A scan is started by a block event of the WebSocket or by the HTTP        *)
(* polling loop.  Every await of scan() is a stage of its own, so that the   *)
(* other caller may run in between.  Blocks are reduced to whether there is  *)
(* one nobody has seen, and one no scan has read.                            *)
(***************************************************************************)
EXTENDS Integers

CONSTANTS
    Calls,          \* concurrent invocations of scan()
    MaxProviders,   \* BOUND: provider objects created during the run
    MaxErrs         \* MAX_ERRS consecutive failed scans before the back-off

ASSUME ProviderBound == MaxProviders \in Nat \ {0}
ASSUME ErrsBound == MaxErrs \in Nat \ {0}

VARIABLES
    executing,      \* the mutex
    stage,          \* where each invocation of scan() is suspended
    using,          \* the NonceManager an invocation handed to the executor
    provider,       \* provider and wallet in use, numbered as they are created
    manager,        \* the NonceManager in use, numbered likewise
    errCount,
    healthDue,      \* at the start of the scan HEALTH_LOG_MS had passed
                    \* since lastHealthLog
    loop,           \* where runHttpPollingLoop() is suspended; "off" when a
                    \* WebSocket was found at start, or the process is down
    up,             \* the process runs
    unseen,         \* blockNumber !== currentBlock would hold
    unread,         \* a block arrived after the last snapshot
    dead            \* providers that will never answer again

scanVars == <<executing, stage, using, errCount>>
bindingVars == <<provider, manager>>
worldVars == <<unseen, unread, dead>>
vars == <<scanVars, bindingVars, healthDue, loop, up, worldVars>>

Providers == 1..MaxProviders

\* The provider runHttpPollingLoop() received as an argument at start.
LoopProvider == 1

Stages == {"idle", "reading", "executing", "tracking", "reaping", "health",
           "picking", "binding", "backoff"}

-----------------------------------------------------------------------------
(* scan()                                                                    *)

\* `if (executing) return`, else the mutex is taken in the same step.
MutBegin(c) ==
    /\ executing' = TRUE
    /\ stage' = [stage EXCEPT ![c] = "reading"]
Begin(c) ==
    IF executing
    THEN UNCHANGED <<executing, stage>>
    ELSE /\ executing' = TRUE
         /\ stage' = [stage EXCEPT ![c] = "reading"]

\* The finally block.
MutLeave(c) ==
    /\ executing' = executing
    /\ stage' = [stage EXCEPT ![c] = "idle"]
    /\ using' = [using EXCEPT ![c] = 0]
Leave(c) ==
    /\ executing' = FALSE
    /\ stage' = [stage EXCEPT ![c] = "idle"]
    /\ using' = [using EXCEPT ![c] = 0]

\* The end of the try block, and its catch.
Succeed(c) == Leave(c) /\ errCount' = 0

Fail(c) ==
    IF errCount + 1 >= MaxErrs
    THEN /\ stage' = [stage EXCEPT ![c] = "backoff"]
         /\ errCount' = errCount + 1
         /\ UNCHANGED <<executing, using>>
    ELSE Leave(c) /\ errCount' = errCount + 1

Goto(c, s) ==
    /\ stage' = [stage EXCEPT ![c] = s]
    /\ UNCHANGED <<executing, using, errCount>>

\* Venue refresh, snapshot and state reads, all on the current provider; any
\* of them may fail, and on a dead one the first does.
ReadFails(c) ==
    /\ stage[c] = "reading"
    /\ Fail(c)
    /\ UNCHANGED <<bindingVars, healthDue, loop, up, worldVars>>

ReadDone(c) ==
    /\ stage[c] = "reading" /\ provider \notin dead
    /\ unread' = FALSE
    /\ \/ Goto(c, "health")                   \* nothing above the threshold
       \/ /\ stage' = [stage EXCEPT ![c] = "executing"]
          /\ using' = [using EXCEPT ![c] = manager]
          /\ UNCHANGED <<executing, errCount>>
    /\ UNCHANGED <<bindingVars, healthDue, loop, up, unseen, dead>>

\* execGuardedOpp() submits, refuses, or throws (a rejected snapshot returns
\* null, whose result.ok throws too).
Executed(c) ==
    /\ stage[c] = "executing"
    /\ Goto(c, "tracking") \/ Goto(c, "reaping") \/ Fail(c)
    /\ UNCHANGED <<bindingVars, healthDue, loop, up, worldVars>>

\* trackTransaction() answers within maxTxWaitMs.
Tracked(c) ==
    /\ stage[c] = "tracking"
    /\ Goto(c, "reaping")
    /\ UNCHANGED <<bindingVars, healthDue, loop, up, worldVars>>

Reaped(c) ==
    /\ stage[c] = "reaping"
    /\ stage' = [stage EXCEPT ![c] = "health"]
    /\ using' = [using EXCEPT ![c] = 0]
    /\ UNCHANGED <<executing, errCount, bindingVars, healthDue, loop, up, worldVars>>

\* The health check: not due, passed, or failed.
Healthy(c) ==
    /\ stage[c] = "health"
    /\ healthDue => provider \notin dead
    /\ healthDue' = FALSE
    /\ Succeed(c)
    /\ UNCHANGED <<bindingVars, loop, up, worldVars>>

Unhealthy(c) ==
    /\ stage[c] = "health" /\ healthDue
    /\ Goto(c, "picking")
    /\ UNCHANGED <<bindingVars, healthDue, loop, up, worldVars>>

\* pickProvider() finds no endpoint.
PickFails(c) ==
    /\ stage[c] = "picking"
    /\ healthDue' = FALSE
    /\ Succeed(c)
    /\ UNCHANGED <<bindingVars, loop, up, worldVars>>

\* The new provider, wallet and manager are in place before init() answers.
Picked(c) ==
    /\ stage[c] = "picking" /\ provider < MaxProviders
    /\ provider' = provider + 1
    /\ manager' = manager + 1
    /\ Goto(c, "binding")
    /\ UNCHANGED <<healthDue, loop, up, worldVars>>

\* init(), attachJournal() and recover(), or init() threw and was logged.
Bound(c) ==
    /\ stage[c] = "binding"
    /\ healthDue' = FALSE
    /\ Succeed(c)
    /\ UNCHANGED <<bindingVars, loop, up, worldVars>>

\* The journal cannot be bound again: process.exit(1).
BindFatal(c) ==
    /\ stage[c] = "binding"
    /\ up' = FALSE
    /\ executing' = FALSE
    /\ stage' = [d \in Calls |-> "idle"]
    /\ using' = [d \in Calls |-> 0]
    /\ loop' = "off"
    /\ UNCHANGED <<errCount, bindingVars, healthDue, worldVars>>

BackedOff(c) ==
    /\ stage[c] = "backoff"
    /\ Succeed(c)
    /\ UNCHANGED <<bindingVars, healthDue, loop, up, worldVars>>

-----------------------------------------------------------------------------
(* The callers of scan()                                                     *)

\* onBlock of the WebSocket lifecycle; it does not wait for scans to end.
BlockEvent(c) ==
    /\ up /\ loop = "off" /\ unseen /\ stage[c] = "idle"
    /\ unseen' = FALSE
    /\ Begin(c)
    /\ UNCHANGED <<using, errCount, bindingVars, healthDue, loop, up, unread, dead>>

\* getBlockNumber() of the polling loop.
MutPollAnswered(c) ==
    /\ loop = "asking" /\ LoopProvider \notin dead
    /\ unseen' = FALSE
    /\ loop' = "sleeping"
    /\ UNCHANGED <<scanVars, bindingVars, healthDue, up, unread, dead>>
PollAnswered(c) ==
    /\ loop = "asking" /\ LoopProvider \notin dead
    /\ IF unseen
       THEN loop' = "scanning" /\ Begin(c)
       ELSE loop' = "sleeping" /\ UNCHANGED <<executing, stage>>
    /\ unseen' = FALSE
    /\ UNCHANGED <<using, errCount, bindingVars, healthDue, up, unread, dead>>

PollFails ==
    /\ loop = "asking"
    /\ loop' = "sleeping"
    /\ UNCHANGED <<scanVars, bindingVars, healthDue, up, worldVars>>

PollScanned ==
    /\ loop = "scanning" /\ ~executing
    /\ loop' = "sleeping"
    /\ UNCHANGED <<scanVars, bindingVars, healthDue, up, worldVars>>

PollWakes ==
    /\ loop = "sleeping"
    /\ loop' = "asking"
    /\ UNCHANGED <<scanVars, bindingVars, healthDue, up, worldVars>>

-----------------------------------------------------------------------------
(* The world                                                                 *)

NewBlock ==
    /\ unseen' = TRUE /\ unread' = TRUE
    /\ UNCHANGED <<scanVars, bindingVars, healthDue, loop, up, dead>>

\* The health check compares the time at which its scan began.
Minute ==
    /\ up /\ ~healthDue /\ ~executing
    /\ healthDue' = TRUE
    /\ UNCHANGED <<scanVars, bindingVars, loop, up, worldVars>>

Die ==
    /\ provider \notin dead
    /\ dead' = dead \cup {provider}
    /\ UNCHANGED <<scanVars, bindingVars, healthDue, loop, up, unseen, unread>>

-----------------------------------------------------------------------------

Init ==
    /\ executing = FALSE
    /\ stage = [c \in Calls |-> "idle"]
    /\ using = [c \in Calls |-> 0]
    /\ provider = 1 /\ manager = 1
    /\ errCount = 0
    /\ healthDue = TRUE
    /\ loop \in {"asking", "off"}
    /\ up = TRUE
    /\ unseen = TRUE /\ unread = TRUE
    /\ dead = {}

Scan(c) ==
    \/ ReadFails(c) \/ ReadDone(c)
    \/ Executed(c) \/ Tracked(c) \/ Reaped(c)
    \/ Healthy(c) \/ Unhealthy(c)
    \/ PickFails(c) \/ Picked(c)
    \/ Bound(c) \/ BindFatal(c)
    \/ BackedOff(c)

Next ==
    \/ \E c \in Calls : Scan(c) \/ BlockEvent(c) \/ PollAnswered(c)
    \/ PollFails \/ PollScanned \/ PollWakes
    \/ NewBlock \/ Minute \/ Die

Spec == Init /\ [][Next]_vars

\* Every await of a scan settles, because requests and sleeps time out.  A
\* provider that is alive answers reads, polls and health checks again and
\* again, some endpoint of pickProvider() works, blocks keep coming and time
\* passes.
Fairness ==
    /\ \A c \in Calls : WF_vars(Scan(c)) /\ SF_vars(ReadDone(c)) /\ SF_vars(Picked(c))
    /\ WF_vars(\E c \in Calls : BlockEvent(c))
    /\ WF_vars(PollFails) /\ SF_vars(\E c \in Calls : PollAnswered(c))
    /\ WF_vars(PollScanned) /\ WF_vars(PollWakes)
    /\ WF_vars(NewBlock) /\ WF_vars(Minute)

LiveSpec == Spec /\ Fairness

-----------------------------------------------------------------------------
(* Properties                                                                *)

TypeOK ==
    /\ executing \in BOOLEAN
    /\ stage \in [Calls -> Stages]
    /\ using \in [Calls -> 0..MaxProviders]
    /\ provider \in Providers
    /\ manager \in Providers
    /\ errCount \in 0..MaxErrs
    /\ healthDue \in BOOLEAN
    /\ loop \in {"off", "asking", "scanning", "sleeping"}
    /\ up \in BOOLEAN
    /\ unseen \in BOOLEAN
    /\ unread \in BOOLEAN
    /\ dead \subseteq Providers

\* The mutex is held exactly while one scan is under way, on every path of
\* scan(), errors and back-off included (index.js:565-573, 699-712).
OneScan ==
    /\ \A c, d \in Calls : stage[c] # "idle" /\ stage[d] # "idle" => c = d
    /\ executing <=> \E c \in Calls : stage[c] # "idle"

\* A reconnection never replaces the NonceManager under an execution, its
\* receipt wait or its reap(): whoever was handed a manager finishes with the
\* one in use (index.js:616-651, 663-669).
ManagerInUse ==
    \A c \in Calls : using[c] # 0 => using[c] = manager

\* No error path keeps the scanner locked (index.js:707-712).
MutexReleased == executing ~> ~executing

\* While providers are alive, the polling bot reads a fresh snapshot after
\* every block sooner or later, through failed polls and scans, back-offs and
\* needless reconnections (index.js:466-490, 565-713).
BlocksAreRead ==
    loop # "off" /\ unread /\ up ~> ~unread \/ dead # {} \/ ~up

\* The health check exists to leave a dead provider: "RPC health check
\* failed, attempting reconnect" (index.js:657-665, rpc.js:66-70).
DeadProviderReplaced ==
    provider \in dead /\ up ~> provider \notin dead \/ provider = MaxProviders \/ ~up
=============================================================================
