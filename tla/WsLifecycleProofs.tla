-------------------------- MODULE WsLifecycleProofs --------------------------
(***************************************************************************)
(* The safety properties of WsLifecycle for every number of sockets.  The    *)
(* properties are not inductive: what makes them so is where the lifecycle   *)
(* stands (Phases), what an attempt in its rendezvous has put in place       *)
(* (Rendezvous), and that no living socket is without a listener (Covered).  *)
(***************************************************************************)
EXTENDS WsLifecycle, TLAPS

\* Before start() nothing exists; while a timer runs or a pick is awaited the
\* current socket counts as dead.
Phases ==
    /\ current <= picked
    /\ current = 0 <=> state = "DISCONNECTED"
    /\ current = 0 => handlers = {} /\ guarded = {} /\ sub[1] = "none"
    /\ timer \/ attempt = "picking" \/ current = 0 => ~currentAlive

\* Between attach() and the end of the rendezvous the new socket listens, and
\* a refused subscription has invalidated the attempt.
Rendezvous ==
    attempt = "subscribing" =>
        /\ currentAlive
        /\ handlers = {current} /\ blockOn = {current} /\ watchdogs = {current}
        /\ sub[current] = "refused" => invalidated

\* A socket that can still err has a listener, or is the first one before
\* start().
Covered ==
    \A k \in Sockets :
        wire[k] \in {"open", "silent"} =>
            k \in handlers \cup guarded \/ (current = 0 /\ k = 1)

Listening == OnlyCurrentListens /\ ConnectedIsWatched /\ Rendezvous

\* The inductive invariant.
WsInv ==
    /\ TypeOK /\ SingleFlight /\ Phases
    /\ Listening
    /\ ConnectedMeansSubscribed
    /\ Covered

-----------------------------------------------------------------------------

LEMMA SocketNumbers ==
    /\ 1 \in Sockets
    /\ \A k \in Sockets : k \in Nat \ {0} /\ k \in 0..MaxSockets
    /\ \A k \in Sockets : k < MaxSockets => k + 1 \in Sockets
BY SocketBound DEF Sockets

LEMMA WsInvInit == Init => WsInv
<1> SUFFICES ASSUME Init PROVE WsInv
    OBVIOUS
<1> USE SocketNumbers DEF Init
<1>1. TypeOK
    <2>1. /\ wire \in [Sockets -> {"unborn", "open", "silent", "failed", "closed"}]
          /\ sub \in [Sockets -> {"none", "asked", "active", "refused"}]
        OBVIOUS
    <2>2. current \in 0..MaxSockets
        BY SocketBound
    <2>3. QED
        BY <2>1, <2>2 DEF TypeOK
<1>2. SingleFlight /\ Phases
    BY DEF SingleFlight, Phases
<1>3. Listening /\ ConnectedMeansSubscribed
    BY DEF Listening, OnlyCurrentListens, ConnectedIsWatched, Rendezvous,
       ConnectedMeansSubscribed
<1>4. Covered
    BY DEF Covered
<1>5. QED
    BY <1>1, <1>2, <1>3, <1>4 DEF WsInv

LEMMA WsInvAttempt == WsInv /\ Attempt => WsInv'
<1> SUFFICES ASSUME WsInv, Attempt PROVE WsInv'
    OBVIOUS
<1> USE SocketNumbers DEF WsInv
<1>1. CASE Start
    <2> USE <1>1 DEF Start, Attach, Without, Guard
    <2>1. /\ wire' \in [Sockets -> {"unborn", "open", "silent", "failed", "closed"}]
          /\ sub' \in [Sockets -> {"none", "asked", "active", "refused"}]
        BY DEF TypeOK
    <2>2. TypeOK'
        BY <2>1 DEF TypeOK
    <2>3. SingleFlight' /\ Phases'
        BY DEF TypeOK, SingleFlight, Phases
    <2>4. Listening'
        BY DEF TypeOK, SingleFlight, Phases, Listening, OnlyCurrentListens,
           ConnectedIsWatched, Rendezvous
    <2>5. ConnectedMeansSubscribed'
        BY DEF TypeOK, SingleFlight, Phases, Listening, Rendezvous,
           ConnectedMeansSubscribed
    <2>6. Covered'
        BY DEF TypeOK, SingleFlight, Phases, Covered
    <2>7. QED
        BY <2>2, <2>3, <2>4, <2>5, <2>6
<1>2. CASE StartThrows
    <2> USE <1>2 DEF StartThrows, Destroyed, Retry
    <2>1. /\ wire' \in [Sockets -> {"unborn", "open", "silent", "failed", "closed"}]
          /\ sub' \in [Sockets -> {"none", "asked", "active", "refused"}]
        BY DEF TypeOK
    <2>2. TypeOK'
        BY <2>1 DEF TypeOK
    <2>3. SingleFlight' /\ Phases'
        <3>1. ~timer /\ attempt = "none" /\ picked >= 1
            BY DEF TypeOK, SingleFlight, Phases
        <3>2. timer' /\ reconnecting' /\ state' = "RECONNECT_WAIT" /\ attempt' = "none"
            BY <3>1
        <3>3. SingleFlight'
            BY <3>2 DEF SingleFlight
        <3>4. Phases'
            BY <3>1, <3>2 DEF TypeOK, Phases
        <3>5. QED
            BY <3>3, <3>4
    <2>4. Listening'
        BY DEF TypeOK, SingleFlight, Phases, Listening, OnlyCurrentListens,
           ConnectedIsWatched, Rendezvous
    <2>5. ConnectedMeansSubscribed'
        BY DEF TypeOK, SingleFlight, Phases, Listening, Rendezvous,
           ConnectedMeansSubscribed
    <2>6. Covered'
        BY DEF TypeOK, SingleFlight, Phases, Covered
    <2>7. QED
        BY <2>2, <2>3, <2>4, <2>5, <2>6
<1>3. CASE TimerFires
    <2> USE <1>3 DEF TimerFires, networkVars
    <2>1. /\ wire' \in [Sockets -> {"unborn", "open", "silent", "failed", "closed"}]
          /\ sub' \in [Sockets -> {"none", "asked", "active", "refused"}]
        BY DEF TypeOK
    <2>2. TypeOK'
        BY <2>1 DEF TypeOK
    <2>3. SingleFlight' /\ Phases'
        BY DEF TypeOK, SingleFlight, Phases
    <2>4. Listening'
        BY DEF TypeOK, SingleFlight, Phases, Listening, OnlyCurrentListens,
           ConnectedIsWatched, Rendezvous
    <2>5. ConnectedMeansSubscribed'
        BY DEF TypeOK, SingleFlight, Phases, Listening, Rendezvous,
           ConnectedMeansSubscribed
    <2>6. Covered'
        BY DEF TypeOK, SingleFlight, Phases, Covered
    <2>7. QED
        BY <2>2, <2>3, <2>4, <2>5, <2>6
<1>4. CASE PickFails
    <2> USE <1>4 DEF PickFails, Retry, networkVars
    <2>1. /\ wire' \in [Sockets -> {"unborn", "open", "silent", "failed", "closed"}]
          /\ sub' \in [Sockets -> {"none", "asked", "active", "refused"}]
        BY DEF TypeOK
    <2>2. TypeOK'
        BY <2>1 DEF TypeOK
    <2>3. SingleFlight' /\ Phases'
        BY DEF TypeOK, SingleFlight, Phases
    <2>4. Listening'
        BY DEF TypeOK, SingleFlight, Phases, Listening, OnlyCurrentListens,
           ConnectedIsWatched, Rendezvous
    <2>5. ConnectedMeansSubscribed'
        BY DEF TypeOK, SingleFlight, Phases, Listening, Rendezvous,
           ConnectedMeansSubscribed
    <2>6. Covered'
        BY DEF TypeOK, SingleFlight, Phases, Covered
    <2>7. QED
        BY <2>2, <2>3, <2>4, <2>5, <2>6
<1>5. CASE PickAttaches
    <2> USE <1>5 DEF PickAttaches, Attach, Without, Guard
    <2>1. /\ wire' \in [Sockets -> {"unborn", "open", "silent", "failed", "closed"}]
          /\ sub' \in [Sockets -> {"none", "asked", "active", "refused"}]
        BY DEF TypeOK
    <2>2. TypeOK'
        BY <2>1 DEF TypeOK
    <2>3. SingleFlight' /\ Phases'
        BY DEF TypeOK, SingleFlight, Phases
    <2>4. Listening'
        BY DEF TypeOK, SingleFlight, Phases, Listening, OnlyCurrentListens,
           ConnectedIsWatched, Rendezvous
    <2>5. ConnectedMeansSubscribed'
        BY DEF TypeOK, SingleFlight, Phases, Listening, Rendezvous,
           ConnectedMeansSubscribed
    <2>6. Covered'
        BY DEF TypeOK, SingleFlight, Phases, Covered
    <2>7. QED
        BY <2>2, <2>3, <2>4, <2>5, <2>6
<1>6. CASE PickAttachThrows
    <2> USE <1>6 DEF PickAttachThrows, Destroyed, Retire, Without, Guard, Retry
    <2>1. /\ wire' \in [Sockets -> {"unborn", "open", "silent", "failed", "closed"}]
          /\ sub' \in [Sockets -> {"none", "asked", "active", "refused"}]
        BY DEF TypeOK
    <2>2. TypeOK'
        BY <2>1 DEF TypeOK
    <2>3. SingleFlight' /\ Phases'
        <3>1. ~timer
            BY DEF SingleFlight
        <3>2. timer' /\ reconnecting' /\ state' = "RECONNECT_WAIT" /\ attempt' = "none"
            BY <3>1
        <3>3. SingleFlight'
            BY <3>2 DEF SingleFlight
        <3>4. Phases'
            BY <3>2 DEF TypeOK, Phases
        <3>5. QED
            BY <3>3, <3>4
    <2>4. Listening'
        BY DEF TypeOK, SingleFlight, Phases, Listening, OnlyCurrentListens,
           ConnectedIsWatched, Rendezvous
    <2>5. ConnectedMeansSubscribed'
        BY DEF TypeOK, SingleFlight, Phases, Listening, Rendezvous,
           ConnectedMeansSubscribed
    <2>6. Covered'
        BY DEF TypeOK, SingleFlight, Phases, Covered
    <2>7. QED
        BY <2>2, <2>3, <2>4, <2>5, <2>6
<1>7. CASE Finish
    <2> USE <1>7 DEF Finish, networkVars
    <2>1. /\ wire' \in [Sockets -> {"unborn", "open", "silent", "failed", "closed"}]
          /\ sub' \in [Sockets -> {"none", "asked", "active", "refused"}]
        BY DEF TypeOK
    <2>2. TypeOK'
        BY <2>1 DEF TypeOK
    <2>3. SingleFlight' /\ Phases'
        BY DEF TypeOK, SingleFlight, Phases
    <2>4. Listening'
        BY DEF TypeOK, SingleFlight, Phases, Listening, OnlyCurrentListens,
           ConnectedIsWatched, Rendezvous
    <2>5. ConnectedMeansSubscribed'
        BY DEF TypeOK, SingleFlight, Phases, Listening, Rendezvous,
           ConnectedMeansSubscribed
    <2>6. Covered'
        BY DEF TypeOK, SingleFlight, Phases, Covered
    <2>7. QED
        BY <2>2, <2>3, <2>4, <2>5, <2>6
<1>8. CASE FinishInvalidated
    <2> USE <1>8 DEF FinishInvalidated, Retire, Without, Guard, Retry,
           networkVars
    <2>1. /\ wire' \in [Sockets -> {"unborn", "open", "silent", "failed", "closed"}]
          /\ sub' \in [Sockets -> {"none", "asked", "active", "refused"}]
        BY DEF TypeOK
    <2>2. TypeOK'
        BY <2>1 DEF TypeOK
    <2>3. SingleFlight' /\ Phases'
        BY DEF TypeOK, SingleFlight, Phases
    <2>4. Listening'
        BY DEF TypeOK, SingleFlight, Phases, Listening, OnlyCurrentListens,
           ConnectedIsWatched, Rendezvous
    <2>5. ConnectedMeansSubscribed'
        BY DEF TypeOK, SingleFlight, Phases, Listening, Rendezvous,
           ConnectedMeansSubscribed
    <2>6. Covered'
        BY DEF TypeOK, SingleFlight, Phases, Covered
    <2>7. QED
        BY <2>2, <2>3, <2>4, <2>5, <2>6
<1>9. QED
    BY <1>1, <1>2, <1>3, <1>4, <1>5, <1>6, <1>7, <1>8 DEF Attempt

LEMMA WsInvEvent == ASSUME NEW k \in Sockets, WsInv, Event(k) PROVE WsInv'
<1> USE DEF WsInv
<1>1. CASE Block(k)
    <2> USE <1>1 DEF Block, lifecycleVars
    <2>1. TypeOK'
        BY SocketNumbers DEF TypeOK
    <2>2. SingleFlight' /\ Phases'
        BY DEF TypeOK, SingleFlight, Phases, Sockets
    <2>3. Listening'
        BY DEF TypeOK, SingleFlight, Phases, Listening, OnlyCurrentListens,
           ConnectedIsWatched, Rendezvous
    <2>4. ConnectedMeansSubscribed'
        BY DEF TypeOK, SingleFlight, Phases, Listening, ConnectedIsWatched,
           ConnectedMeansSubscribed
    <2>5. Covered'
        BY DEF TypeOK, Phases, Covered
    <2>6. QED
        BY <2>1, <2>2, <2>3, <2>4, <2>5
<1>2. CASE Silence(k)
    <2> USE <1>2 DEF Silence, lifecycleVars
    <2>1. TypeOK'
        BY SocketNumbers DEF TypeOK
    <2>2. SingleFlight' /\ Phases'
        BY DEF TypeOK, SingleFlight, Phases, Sockets
    <2>3. Listening'
        BY DEF TypeOK, SingleFlight, Phases, Listening, OnlyCurrentListens,
           ConnectedIsWatched, Rendezvous
    <2>4. ConnectedMeansSubscribed'
        BY DEF TypeOK, SingleFlight, Phases, Listening, ConnectedIsWatched,
           ConnectedMeansSubscribed
    <2>5. Covered'
        BY DEF TypeOK, Phases, Covered
    <2>6. QED
        BY <2>1, <2>2, <2>3, <2>4, <2>5
<1>3. CASE SocketError(k)
    <2> USE <1>3 DEF SocketError, HandleFailure, IsCurrent, Retry
    <2>1. TypeOK'
        BY SocketNumbers DEF TypeOK
    <2>2. SingleFlight' /\ Phases'
        BY DEF TypeOK, SingleFlight, Phases, Sockets
    <2>3. Listening'
        BY DEF TypeOK, SingleFlight, Phases, Listening, OnlyCurrentListens,
           ConnectedIsWatched, Rendezvous
    <2>4. ConnectedMeansSubscribed'
        BY DEF TypeOK, SingleFlight, Phases, Listening, ConnectedIsWatched,
           ConnectedMeansSubscribed
    <2>5. Covered'
        BY DEF TypeOK, Phases, Covered
    <2>6. QED
        BY <2>1, <2>2, <2>3, <2>4, <2>5
<1>4. CASE SocketClose(k)
    <2> USE <1>4 DEF SocketClose, HandleFailure, IsCurrent, Retry
    <2>1. TypeOK'
        BY SocketNumbers DEF TypeOK
    <2>2. SingleFlight' /\ Phases'
        BY DEF TypeOK, SingleFlight, Phases, Sockets
    <2>3. Listening'
        BY DEF TypeOK, SingleFlight, Phases, Listening, OnlyCurrentListens,
           ConnectedIsWatched, Rendezvous
    <2>4. ConnectedMeansSubscribed'
        BY DEF TypeOK, SingleFlight, Phases, Listening, ConnectedIsWatched,
           ConnectedMeansSubscribed
    <2>5. Covered'
        BY DEF TypeOK, Phases, Covered
    <2>6. QED
        BY <2>1, <2>2, <2>3, <2>4, <2>5
<1>5. CASE SubscriptionRefused(k)
    <2> USE <1>5 DEF SubscriptionRefused, HandleFailure, IsCurrent, Retry
    <2>1. TypeOK'
        BY SocketNumbers DEF TypeOK
    <2>2. SingleFlight' /\ Phases'
        BY DEF TypeOK, SingleFlight, Phases, Sockets
    <2>3. Listening'
        BY DEF TypeOK, SingleFlight, Phases, Listening, OnlyCurrentListens,
           ConnectedIsWatched, Rendezvous
    <2>4. ConnectedMeansSubscribed'
        BY DEF TypeOK, SingleFlight, Phases, Listening, ConnectedIsWatched,
           ConnectedMeansSubscribed
    <2>5. Covered'
        BY DEF TypeOK, Phases, Covered
    <2>6. QED
        BY <2>1, <2>2, <2>3, <2>4, <2>5
<1>6. CASE WatchdogFires(k)
    <2> USE <1>6 DEF WatchdogFires, HandleFailure, IsCurrent, Retry, networkVars
    <2>1. TypeOK'
        BY SocketNumbers DEF TypeOK
    <2>2. SingleFlight' /\ Phases'
        BY DEF TypeOK, SingleFlight, Phases, Sockets
    <2>3. Listening'
        BY DEF TypeOK, SingleFlight, Phases, Listening, OnlyCurrentListens,
           ConnectedIsWatched, Rendezvous
    <2>4. ConnectedMeansSubscribed'
        BY DEF TypeOK, SingleFlight, Phases, Listening, ConnectedIsWatched,
           ConnectedMeansSubscribed
    <2>5. Covered'
        BY DEF TypeOK, Phases, Covered
    <2>6. QED
        BY <2>1, <2>2, <2>3, <2>4, <2>5
<1>7. QED
    BY <1>1, <1>2, <1>3, <1>4, <1>5, <1>6 DEF Event

LEMMA WsInvStep == WsInv /\ [Next]_vars => WsInv'
<1> SUFFICES ASSUME WsInv, [Next]_vars PROVE WsInv'
    OBVIOUS
<1>1. CASE Attempt
    BY <1>1, WsInvAttempt
<1>2. CASE CandidateError
    BY <1>2, SocketBound DEF CandidateError, lifecycleVars, WsInv, TypeOK, SingleFlight, Phases,
       Listening, OnlyCurrentListens, ConnectedIsWatched, Rendezvous,
       ConnectedMeansSubscribed, Covered, Sockets
<1>3. CASE \E k \in Sockets : Event(k)
    BY <1>3, WsInvEvent
<1>4. CASE UNCHANGED vars
    BY <1>4 DEF vars, lifecycleVars, networkVars, WsInv, TypeOK, SingleFlight,
       Phases, Listening, OnlyCurrentListens, ConnectedIsWatched, Rendezvous,
       ConnectedMeansSubscribed, Covered, Sockets
<1>5. QED
    BY <1>1, <1>2, <1>3, <1>4 DEF Next

LEMMA WsInvHolds == Spec => []WsInv
BY WsInvInit, WsInvStep, PTL DEF Spec

-----------------------------------------------------------------------------

\* Whatever order socket events, refusals, timers and failing picks come in,
\* and however many sockets are used up: `reconnecting` never outlives what
\* will end it, and there is never a second flight.
THEOREM OneFlight == Spec => []SingleFlight
BY WsInvHolds, PTL DEF WsInv

\* Every variable of the lifecycle keeps its type: no socket that was not picked
\* is ever listened to, guarded or watched.
THEOREM LifecycleTypes == Spec => []TypeOK
BY WsInvHolds, PTL DEF WsInv

\* No replaced socket keeps a listener or a watchdog of the bot.
THEOREM StaleSocketsAreMute == Spec => []OnlyCurrentListens
BY WsInvHolds, PTL DEF WsInv, Listening

\* A connection called CONNECTED is alive, listens and has its watchdog.
THEOREM ConnectedIsAlive == Spec => []ConnectedIsWatched
BY WsInvHolds, PTL DEF WsInv, Listening

\* A refused subscription never hides behind CONNECTED.
THEOREM RefusalIsNoticed == Spec => []ConnectedMeansSubscribed
BY WsInvHolds, PTL DEF WsInv

\* From attach() on, no 'error' event of a socket is uncaught.
THEOREM ErrorsAreCaught == Spec => []AttachedErrorsCaught
<1>1. Init => AttachedErrorsCaught
    BY DEF Init, AttachedErrorsCaught
<1>2. AttachedErrorsCaught /\ WsInv /\ [Next]_vars => AttachedErrorsCaught'
    <2> SUFFICES ASSUME AttachedErrorsCaught, WsInv, [Next]_vars
                 PROVE  AttachedErrorsCaught'
        OBVIOUS
    <2> USE DEF AttachedErrorsCaught
    \* As long as nothing was uncaught, most steps leave it so.
    <2>1. CASE uncaught' = {}
        BY <2>1
    <2>2. CASE Attempt
        <3>1. uncaught = {} /\ uncaught' = uncaught
            BY <2>2 DEF Attempt, Start, StartThrows, TimerFires, PickFails,
               PickAttaches, PickAttachThrows, Finish, FinishInvalidated, Running,
               networkVars
        <3>2. QED
            BY <2>1, <3>1
    <2>3. CASE CandidateError
        BY <2>3 DEF CandidateError
    <2>4. ASSUME NEW k \in Sockets, Event(k) PROVE AttachedErrorsCaught'
        <3>1. CASE SocketError(k)
            <4>1. CASE k \in handlers \cup guarded
                <5>1. uncaught = {}
                    BY <3>1 DEF SocketError, Running
                <5>2. k \in handlers => uncaught' = uncaught
                    BY <3>1 DEF SocketError
                <5>3. k \notin handlers => uncaught' = {k} \ guarded
                    BY <3>1 DEF SocketError
                <5>4. uncaught' = {}
                    BY <4>1, <5>1, <5>2, <5>3
                <5>5. QED
                    BY <2>1, <5>4
            <4>2. CASE k \notin handlers \cup guarded
                <5>1. /\ uncaught' \subseteq {k} /\ sub' = sub
                      /\ wire[k] \in {"open", "silent"}
                    BY <3>1, <4>2 DEF SocketError
                <5>2. current = 0 /\ k = 1
                    BY <4>2, <5>1 DEF WsInv, Covered
                <5>3. sub[k] = "none"
                    BY <5>2 DEF WsInv, Phases
                <5>4. QED
                    BY <5>1, <5>3
            <4>3. QED
                BY <4>1, <4>2
        <3>2. CASE Event(k) /\ ~SocketError(k)
            <4>1. uncaught = {} /\ uncaught' = uncaught
                BY <3>2 DEF Event, Block, Silence, SocketClose, SubscriptionRefused,
                   WatchdogFires, Running, networkVars
            <4>2. QED
                BY <2>1, <4>1
        <3>3. QED
            BY <2>4, <3>1, <3>2
    <2>5. CASE UNCHANGED vars
        BY <2>5 DEF vars, networkVars
    <2>6. QED
        BY <2>2, <2>3, <2>4, <2>5 DEF Next
<1>3. QED
    BY <1>1, <1>2, WsInvHolds, PTL DEF Spec
=============================================================================
