----------------------------- MODULE WsLifecycle -----------------------------
(***************************************************************************)
(* createWsLifecycle() of bot/index.js: the state machine that keeps one     *)
(* WebSocket subscribed to new blocks.  A socket that closes, errs, is       *)
(* refused its subscription or stays silent is replaced by a new one after a *)
(* delay, one attempt at a time.                                             *)
(*                                                                           *)
(* Sockets are numbered in the order pickWsProvider() returns them; the      *)
(* generation counter of the code is the number of the current socket.  A    *)
(* socket event and the handler it runs are one step, because Node delivers  *)
(* it synchronously.                                                         *)
(***************************************************************************)
EXTENDS Integers

CONSTANTS
    MaxSockets         \* BOUND: sockets picked during the run

ASSUME SocketBound == MaxSockets \in Nat \ {0}

VARIABLES
    current,       \* current, 0 when null
    currentAlive,
    reconnecting,
    timer,         \* timer !== null
    state,
    attempt,       \* where attemptConnect() is suspended, "none" outside it
    invalidated,   \* pendingAttempt.invalidated
    handlers,      \* sockets with a close and an error listener of the bot
    blockOn,       \* sockets with the bot's block listener
    guarded,       \* retired sockets with the passive close and error guards
    watchdogs,     \* sockets with an armed watchdog
    picked,        \* number of the last socket pickWsProvider() returned
    wire,          \* the connection under each socket
    sub,           \* eth_subscribe of each socket
    uncaught       \* sockets whose 'error' met no listener: Node ends the
                   \* process; 0 stands for one pickWsProvider() still tries

lifecycleVars == <<current, currentAlive, reconnecting, timer, state, attempt,
                   invalidated, handlers, blockOn, guarded, watchdogs>>
networkVars == <<picked, wire, sub, uncaught>>
vars == <<lifecycleVars, networkVars>>

Sockets == 1..MaxSockets

-----------------------------------------------------------------------------
(* Helpers of the code.  Each of them assigns only the variables it names.   *)

IsCurrent(k) == k = current /\ currentAlive

\* reconnecting = false; scheduleReconnect(): one timer, state RECONNECT_WAIT.
Retry ==
    /\ reconnecting' = ~timer
    /\ state' = IF timer THEN state ELSE "RECONNECT_WAIT"
    /\ timer' = TRUE

\* handleWsFailure(ws): stale and duplicate events change nothing.
MutHandleFailure(k) ==
    IF IsCurrent(k)
    THEN /\ currentAlive' = FALSE
         /\ watchdogs' = watchdogs \ {k}
         /\ blockOn' = blockOn \ {k}
         /\ IF timer THEN UNCHANGED <<reconnecting, timer, state>> ELSE Retry
    ELSE UNCHANGED <<currentAlive, watchdogs, blockOn, reconnecting, timer, state>>
HandleFailure(k) ==
    IF IsCurrent(k) /\ ~reconnecting
    THEN /\ currentAlive' = FALSE
         /\ watchdogs' = watchdogs \ {k}
         /\ blockOn' = blockOn \ {k}
         /\ IF timer THEN UNCHANGED <<reconnecting, timer, state>> ELSE Retry
    ELSE UNCHANGED <<currentAlive, watchdogs, blockOn, reconnecting, timer, state>>

\* What retireStale(k) leaves of a set of sockets with listeners.
MutWithout(S, k) == S
Without(S, k) == S \ {k}

\* ... and the guards it leaves on a socket that had handlers.
MutGuard(k) == guarded

Guard(k) == guarded \cup ({k} \cap handlers)

\* The listeners after retireStale(old) and a successful attach(k).
Attach(old, k) ==
    /\ handlers' = Without(handlers, old) \cup {k}
    /\ blockOn' = Without(blockOn, old) \cup {k}
    /\ watchdogs' = (watchdogs \ {old}) \cup {k}
    /\ guarded' = Guard(old)

\* retireStale(old) alone: attach() threw and undid itself.
Retire(old) ==
    /\ handlers' = Without(handlers, old)
    /\ blockOn' = Without(blockOn, old)
    /\ watchdogs' = watchdogs \ {old}
    /\ guarded' = Guard(old)

-----------------------------------------------------------------------------
(* start() and attemptConnect()                                              *)

Running == uncaught = {}

\* A provider that is destroyed makes attach() throw and emits no more events.
Destroyed(k) == wire' = [wire EXCEPT ![k] = "closed"]

\* main() has worked through its start-up and hands over the first socket.
Start ==
    /\ Running /\ current = 0
    /\ current' = 1 /\ currentAlive' = TRUE
    /\ Attach(0, 1)
    /\ sub' = [sub EXCEPT ![1] = "asked"]
    /\ state' = "CONNECTED"
    /\ UNCHANGED <<reconnecting, timer, attempt, invalidated, picked, wire, uncaught>>

StartThrows ==
    /\ Running /\ current = 0
    /\ current' = 1 /\ currentAlive' = FALSE
    /\ Destroyed(1)
    /\ Retry
    /\ UNCHANGED <<attempt, invalidated, handlers, blockOn, guarded, watchdogs,
                   picked, sub, uncaught>>

TimerFires ==
    /\ Running /\ timer
    /\ timer' = FALSE
    /\ state' = "CONNECTING"
    /\ attempt' = "picking"
    /\ UNCHANGED <<current, currentAlive, reconnecting, invalidated, handlers,
                   blockOn, guarded, watchdogs, networkVars>>

PickFails ==
    /\ Running /\ attempt = "picking"
    /\ attempt' = "none"
    /\ Retry
    /\ UNCHANGED <<current, currentAlive, invalidated, handlers, blockOn, guarded,
                   watchdogs, networkVars>>

\* The new socket replaces the old one and asks for its subscription.
PickAttaches ==
    /\ Running /\ attempt = "picking" /\ picked < MaxSockets
    /\ picked' = picked + 1
    /\ wire' = [wire EXCEPT ![picked + 1] = "open"]
    /\ sub' = [sub EXCEPT ![picked + 1] = "asked"]
    /\ current' = picked + 1 /\ currentAlive' = TRUE
    /\ invalidated' = FALSE
    /\ Attach(current, picked + 1)
    /\ attempt' = "subscribing"
    /\ UNCHANGED <<reconnecting, timer, state, uncaught>>

PickAttachThrows ==
    /\ Running /\ attempt = "picking" /\ picked < MaxSockets
    /\ picked' = picked + 1
    /\ Destroyed(picked + 1)
    /\ current' = picked + 1 /\ currentAlive' = FALSE
    /\ Retire(current)
    /\ attempt' = "none"
    /\ Retry
    /\ UNCHANGED <<invalidated, sub, uncaught>>

\* The rendezvous is over: CONNECTED, unless the attempt was invalidated.
MutFinish ==
    /\ Running /\ attempt = "subscribing"
    /\ attempt' = "none"
    /\ state' = "CONNECTED"
    /\ reconnecting' = FALSE
    /\ UNCHANGED <<current, currentAlive, timer, invalidated, handlers, blockOn,
                   guarded, watchdogs, networkVars>>
MutFinishUnnamed ==
    /\ Running /\ attempt = "subscribing" /\ ~invalidated
    /\ attempt' = "none"
    /\ reconnecting' = FALSE
    /\ UNCHANGED <<current, currentAlive, timer, state, invalidated, handlers,
                   blockOn, guarded, watchdogs, networkVars>>
Finish ==
    /\ Running /\ attempt = "subscribing" /\ ~invalidated
    /\ attempt' = "none"
    /\ state' = "CONNECTED"
    /\ reconnecting' = FALSE
    /\ UNCHANGED <<current, currentAlive, timer, invalidated, handlers, blockOn,
                   guarded, watchdogs, networkVars>>

FinishInvalidated ==
    /\ Running /\ attempt = "subscribing" /\ invalidated
    /\ attempt' = "none"
    /\ currentAlive' = FALSE
    /\ Retire(current)
    /\ Retry
    /\ UNCHANGED <<current, invalidated, networkVars>>

-----------------------------------------------------------------------------
(* Socket events.  They may also fall into the rendezvous of an attempt: the *)
(* code awaits whatever promise on("block") returns.  (ethers v6 settles it  *)
(* within microtasks, where only a refusal can come in between.)             *)

\* A block arrives and resets the watchdog; the current socket's block
\* listener triggers a scan.
Block(k) ==
    /\ Running
    /\ wire[k] = "open" /\ sub[k] \in {"asked", "active"}
    /\ sub' = [sub EXCEPT ![k] = "active"]
    /\ UNCHANGED <<lifecycleVars, picked, wire, uncaught>>

\* The connection goes silent and nobody is told.
Silence(k) ==
    /\ Running
    /\ wire[k] = "open"
    /\ wire' = [wire EXCEPT ![k] = "silent"]
    /\ UNCHANGED <<lifecycleVars, picked, sub, uncaught>>

\* 'error': the bot's listener, a guard, or nobody.
SocketError(k) ==
    /\ Running
    /\ wire[k] \in {"open", "silent"}
    /\ wire' = [wire EXCEPT ![k] = "failed"]
    /\ IF k \in handlers
       THEN HandleFailure(k) /\ UNCHANGED uncaught
       ELSE /\ uncaught' = {k} \ guarded
            /\ UNCHANGED <<currentAlive, watchdogs, blockOn, reconnecting, timer, state>>
    /\ UNCHANGED <<current, attempt, invalidated, handlers, guarded, picked, sub>>

\* A socket that pickWsProvider() is still trying has no listener at all.
CandidateError ==
    /\ Running /\ attempt = "picking"
    /\ uncaught' = {0}
    /\ UNCHANGED <<lifecycleVars, picked, wire, sub>>

SocketClose(k) ==
    /\ Running
    /\ wire[k] \in {"open", "silent", "failed"}
    /\ wire' = [wire EXCEPT ![k] = "closed"]
    /\ IF k \in handlers
       THEN HandleFailure(k)
       ELSE UNCHANGED <<currentAlive, watchdogs, blockOn, reconnecting, timer, state>>
    /\ UNCHANGED <<current, attempt, invalidated, handlers, guarded, picked, sub, uncaught>>

\* notifySubscriptionFailure(k): eth_subscribe was refused.  A refusal that
\* is known already is a microtask of the attempt itself.
SubscriptionRefused(k) ==
    /\ Running
    /\ sub[k] = "asked"
    /\ sub' = [sub EXCEPT ![k] = "refused"]
    /\ IF attempt = "subscribing" /\ k = current
       THEN /\ invalidated' = TRUE
            /\ UNCHANGED <<currentAlive, watchdogs, blockOn, reconnecting, timer, state>>
       ELSE HandleFailure(k) /\ UNCHANGED invalidated
    /\ UNCHANGED <<current, attempt, handlers, guarded, picked, wire, uncaught>>

\* The idle timeout: no block for wsIdleTimeoutMs.  It outlasts the rendezvous
\* of an attempt, so it cannot expire inside one.
MutWatchdogFires(k) == Running /\ k \in watchdogs /\ UNCHANGED vars
WatchdogFires(k) ==
    /\ Running /\ attempt # "subscribing"
    /\ k \in watchdogs
    /\ IF IsCurrent(k) /\ ~reconnecting
       THEN HandleFailure(k)
       ELSE /\ watchdogs' = watchdogs \ {k}
            /\ UNCHANGED <<currentAlive, blockOn, reconnecting, timer, state>>
    /\ UNCHANGED <<current, attempt, invalidated, handlers, guarded, networkVars>>

-----------------------------------------------------------------------------

\* main() has picked socket 1 and not called start() yet.
Init ==
    /\ current = 0 /\ currentAlive = FALSE
    /\ reconnecting = FALSE /\ timer = FALSE /\ state = "DISCONNECTED"
    /\ attempt = "none" /\ invalidated = FALSE
    /\ handlers = {} /\ blockOn = {} /\ guarded = {} /\ watchdogs = {}
    /\ picked = 1
    /\ wire = [k \in Sockets |-> IF k = 1 THEN "open" ELSE "unborn"]
    /\ sub = [k \in Sockets |-> "none"]
    /\ uncaught = {}

Attempt ==
    \/ Start
    \/ StartThrows
    \/ TimerFires
    \/ PickFails
    \/ PickAttaches
    \/ PickAttachThrows
    \/ Finish
    \/ FinishInvalidated

Event(k) ==
    \/ Block(k)
    \/ Silence(k)
    \/ SocketError(k)
    \/ SocketClose(k)
    \/ SubscriptionRefused(k)
    \/ WatchdogFires(k)

Next == Attempt \/ CandidateError \/ \E k \in Sockets : Event(k)

Spec == Init /\ [][Next]_vars

\* Timers fire, pickWsProvider() always answers (5 s per URL) and again and
\* again with a working socket, microtasks run, and the watchdog of a socket
\* on which no block can arrive any more fires.
Deaf(k) == wire[k] # "open" \/ sub[k] = "refused"

Fairness ==
    /\ WF_vars(Start \/ StartThrows)
    /\ WF_vars(TimerFires)
    /\ WF_vars(PickFails \/ PickAttaches \/ PickAttachThrows)
    /\ SF_vars(PickAttaches)
    /\ WF_vars(Finish \/ FinishInvalidated)
    /\ \A k \in Sockets : WF_vars(Deaf(k) /\ WatchdogFires(k))

LiveSpec == Spec /\ Fairness

-----------------------------------------------------------------------------
(* Properties                                                                *)

TypeOK ==
    /\ current \in 0..MaxSockets
    /\ currentAlive \in BOOLEAN
    /\ reconnecting \in BOOLEAN
    /\ timer \in BOOLEAN
    /\ state \in {"DISCONNECTED", "CONNECTED", "RECONNECT_WAIT", "CONNECTING"}
    /\ attempt \in {"none", "picking", "subscribing"}
    /\ invalidated \in BOOLEAN
    /\ handlers \subseteq Sockets
    /\ blockOn \subseteq Sockets
    /\ guarded \subseteq Sockets
    /\ watchdogs \subseteq Sockets
    /\ picked \in Sockets
    /\ wire \in [Sockets -> {"unborn", "open", "silent", "failed", "closed"}]
    /\ sub \in [Sockets -> {"none", "asked", "active", "refused"}]
    /\ uncaught \subseteq 0..MaxSockets

\* Single flight without a dead end: `reconnecting` is set exactly while a
\* timer or one attempt will end it, never both, and `state` says which; so no
\* storm of events starts a second flight and no failure inside an attempt
\* leaves the lifecycle waiting for nothing (index.js:72-75, 266-358).
SingleFlight ==
    /\ reconnecting <=> (timer \/ attempt # "none")
    /\ ~(timer /\ attempt # "none")
    /\ timer <=> state = "RECONNECT_WAIT"
    /\ attempt # "none" <=> state = "CONNECTING"

\* A replaced socket has lost the bot's listeners and its watchdog, and a dead
\* current one no longer triggers scans (index.js:192-214, 261-271).
OnlyCurrentListens ==
    /\ handlers \cup blockOn \cup watchdogs \subseteq {current}
    /\ blockOn \cup watchdogs # {} => currentAlive

\* A connection called CONNECTED is alive, listens and has an armed watchdog,
\* so that its silence will be noticed (index.js:114-138).
ConnectedIsWatched ==
    state = "CONNECTED" =>
        /\ currentAlive
        /\ handlers = {current} /\ blockOn = {current} /\ watchdogs = {current}

\* The invariant of an attempt (index.js:78-86): CONNECTED never stands for a
\* socket whose subscription was refused, whenever the refusal came.
ConnectedMeansSubscribed ==
    state = "CONNECTED" => sub[current] # "refused"

\* From attach() on, through failure, replacement and retirement, a socket
\* 'error' always meets a listener or a guard, however late it comes, so that
\* it does not end the process (index.js:54, 192-214, 238).
AttachedErrorsCaught ==
    \A k \in uncaught : k = 0 \/ sub[k] = "none"

\* A connection on which no block can arrive does not stay CONNECTED
\* (index.js:114-119).
DeadConnectionNoticed ==
    state = "CONNECTED" /\ Deaf(current) ~> state # "CONNECTED" \/ ~Running

\* Reconnection goes on until a socket is connected, however many attempts
\* fail (index.js:50, 355-357), up to the bound on sockets.
ReconnectionEnds ==
    reconnecting ~> state = "CONNECTED" \/ picked = MaxSockets \/ ~Running
=============================================================================
