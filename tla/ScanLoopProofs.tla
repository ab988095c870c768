---------------------------- MODULE ScanLoopProofs ----------------------------
(***************************************************************************)
(* Mutual exclusion of scans, and the safety of reconnections it gives, for  *)
(* any number of concurrent callers, providers and failed scans.             *)
(***************************************************************************)
EXTENDS ScanLoop, TLAPS

\* The stages in which an invocation may still hold the manager it handed to
\* an execution; in all others it holds none.
Holding == {"executing", "tracking", "reaping", "backoff"}

ManagerHeld ==
    \A c \in Calls : using[c] # 0 => using[c] = manager /\ stage[c] \in Holding

\* What the proof needs to know of types.
StageType ==
    /\ executing \in BOOLEAN
    /\ stage \in [Calls -> Stages]
    /\ using \in [Calls -> Nat]
    /\ manager \in Nat

ScanInv == StageType /\ OneScan /\ ManagerHeld

-----------------------------------------------------------------------------

LEMMA ScanInvInit == Init => ScanInv
<1> SUFFICES ASSUME Init PROVE ScanInv
    OBVIOUS
<1> USE DEF Init
<1>1. StageType
    BY DEF StageType, Stages
<1>2. OneScan
    BY DEF OneScan
<1>3. ManagerHeld
    BY DEF ManagerHeld
<1>4. QED
    BY <1>1, <1>2, <1>3 DEF ScanInv

\* A scan that goes on or ends keeps the invariant, whatever happens to the
\* rest of the state, as long as the manager stays.
LEMMA ScanMoves ==
    ASSUME ScanInv, manager' = manager, NEW c \in Calls, stage[c] # "idle",
           \/ Leave(c)
           \/ \E s \in Stages \ {"idle"} :
                 /\ stage' = [stage EXCEPT ![c] = s]
                 /\ executing' = executing
                 /\ \/ using' = [using EXCEPT ![c] = 0]
                    \/ using' = using /\ (using[c] # 0 => s \in Holding)
    PROVE  ScanInv'
<1>1. StageType'
    <2>1. CASE Leave(c)
        BY <2>1 DEF ScanInv, StageType, Leave, Stages
    <2>2. CASE ~Leave(c)
        <3>1. executing' \in BOOLEAN /\ stage' \in [Calls -> Stages]
            BY <2>2 DEF ScanInv, StageType
        <3>2. using' \in [Calls -> Nat] /\ manager' \in Nat
            BY <2>2 DEF ScanInv, StageType
        <3>3. QED
            BY <3>1, <3>2 DEF StageType
    <2>3. QED
        BY <2>1, <2>2
<1>2. OneScan'
    <2>1. executing /\ \A d \in Calls \ {c} : stage[d] = "idle"
        BY DEF ScanInv, OneScan
    <2>2. \A d \in Calls \ {c} : stage'[d] = "idle"
        BY <2>1 DEF ScanInv, StageType, Leave
    <2>3. executing' <=> stage'[c] # "idle"
        <3>1. CASE Leave(c)
            BY <3>1 DEF ScanInv, StageType, Leave
        <3>2. CASE executing' = executing /\ stage'[c] # "idle"
            BY <3>2, <2>1
        <3>3. QED
            BY <3>1, <3>2 DEF ScanInv, StageType
    <2>4. QED
        BY <2>2, <2>3 DEF OneScan
<1>3. ManagerHeld'
    BY DEF ScanInv, StageType, OneScan, ManagerHeld, Leave, Stages
<1>4. QED
    BY <1>1, <1>2, <1>3 DEF ScanInv

LEMMA ScanFails ==
    ASSUME ScanInv, manager' = manager, NEW c \in Calls, stage[c] # "idle", Fail(c)
    PROVE  ScanInv'
<1>1. "backoff" \in Stages \ {"idle"} /\ "backoff" \in Holding
    BY DEF Stages, Holding
<1>2. QED
    BY <1>1, ScanMoves DEF Fail

LEMMA ScanBegins ==
    ASSUME ScanInv, UNCHANGED <<manager, using>>, NEW c \in Calls, Begin(c)
    PROVE  ScanInv'
<1>1. CASE executing
    BY <1>1 DEF Begin, ScanInv, StageType, OneScan, ManagerHeld
<1>2. CASE ~executing
    <2>1. \A d \in Calls : stage[d] = "idle"
        BY <1>2 DEF ScanInv, OneScan
    <2>2. executing' /\ stage' = [stage EXCEPT ![c] = "reading"]
        BY <1>2 DEF Begin
    <2>3. StageType'
        BY <2>2 DEF ScanInv, StageType, Stages
    <2>4. OneScan'
        BY <2>1, <2>2 DEF ScanInv, StageType, OneScan
    <2>5. ManagerHeld'
        BY <2>1, <2>2 DEF ScanInv, StageType, ManagerHeld, Holding
    <2>6. QED
        BY <2>3, <2>4, <2>5 DEF ScanInv
<1>3. QED
    BY <1>1, <1>2

LEMMA ScanKept ==
    ASSUME ScanInv, UNCHANGED <<executing, stage, using, manager>>
    PROVE  ScanInv'
BY DEF ScanInv, StageType, OneScan, ManagerHeld

LEMMA ScanInvScan == ASSUME ScanInv, NEW c \in Calls, Scan(c) PROVE ScanInv'
<1> USE DEF bindingVars
<1>0. /\ {"executing", "tracking", "reaping", "health", "picking", "binding"}
             \subseteq Stages \ {"idle"}
      /\ {"executing", "tracking", "reaping"} \subseteq Holding
    BY DEF Stages, Holding
<1>1. CASE ReadFails(c)
    BY <1>1, ScanFails DEF ReadFails
<1>2. CASE ReadDone(c)
    <2>1. stage[c] = "reading" /\ using[c] = 0 /\ manager' = manager
        BY <1>2 DEF ReadDone, ScanInv, ManagerHeld, Holding
    <2>2. CASE Goto(c, "health")
        BY <2>1, <2>2, <1>0, ScanMoves DEF Goto
    <2>3. CASE /\ stage' = [stage EXCEPT ![c] = "executing"]
               /\ using' = [using EXCEPT ![c] = manager]
               /\ UNCHANGED <<executing, errCount>>
        BY <2>1, <2>3, <1>0 DEF ScanInv, StageType, OneScan, ManagerHeld, Stages
    <2>4. QED
        BY <1>2, <2>2, <2>3 DEF ReadDone
<1>3. CASE Executed(c)
    BY <1>3, <1>0, ScanMoves, ScanFails DEF Executed, Goto
<1>4. CASE Tracked(c)
    BY <1>4, <1>0, ScanMoves DEF Tracked, Goto
<1>5. CASE Reaped(c)
    BY <1>5, <1>0, ScanMoves DEF Reaped
<1>6. CASE Healthy(c)
    BY <1>6, ScanMoves DEF Healthy, Succeed
<1>7. CASE Unhealthy(c)
    <2>1. stage[c] = "health" /\ using[c] = 0
        BY <1>7 DEF Unhealthy, ScanInv, ManagerHeld, Holding
    <2>2. QED
        BY <1>7, <2>1, <1>0, ScanMoves DEF Unhealthy, Goto
<1>8. CASE PickFails(c)
    BY <1>8, ScanMoves DEF PickFails, Succeed
<1>9. CASE Picked(c)
    <2>1. \A d \in Calls : using[d] = 0
        <3>1. stage[c] = "picking"
            BY <1>9 DEF Picked
        <3>2. \A d \in Calls : d # c => stage[d] = "idle"
            BY <3>1 DEF ScanInv, OneScan
        <3>3. QED
            BY <3>1, <3>2 DEF ScanInv, ManagerHeld, Holding
    <2>2. /\ stage[c] = "picking" /\ stage' = [stage EXCEPT ![c] = "binding"]
          /\ UNCHANGED <<executing, using>>
        BY <1>9 DEF Picked, Goto
    <2>3. manager' \in Nat
        BY <1>9 DEF Picked, ScanInv, StageType
    <2>4. StageType' /\ OneScan'
        BY <2>2, <2>3, <1>0 DEF ScanInv, StageType, OneScan
    <2>5. ManagerHeld'
        BY <2>1, <2>2 DEF ManagerHeld
    <2>6. QED
        BY <2>4, <2>5 DEF ScanInv
<1>10. CASE Bound(c)
    BY <1>10, ScanMoves DEF Bound, Succeed
<1>11. CASE BindFatal(c)
    BY <1>11 DEF BindFatal, ScanInv, StageType, OneScan, ManagerHeld, Stages
<1>12. CASE BackedOff(c)
    BY <1>12, ScanMoves DEF BackedOff, Succeed
<1>13. QED
    BY <1>1, <1>2, <1>3, <1>4, <1>5, <1>6, <1>7, <1>8, <1>9, <1>10, <1>11, <1>12
       DEF Scan

LEMMA ScanInvStep == ScanInv /\ [Next]_vars => ScanInv'
<1> SUFFICES ASSUME ScanInv, [Next]_vars PROVE ScanInv'
    OBVIOUS
<1> USE DEF bindingVars, scanVars
<1>1. ASSUME NEW c \in Calls, Scan(c) PROVE ScanInv'
    BY <1>1, ScanInvScan
<1>2. ASSUME NEW c \in Calls, BlockEvent(c) PROVE ScanInv'
    BY <1>2, ScanBegins DEF BlockEvent
<1>3. ASSUME NEW c \in Calls, PollAnswered(c) PROVE ScanInv'
    BY <1>3, ScanBegins, ScanKept DEF PollAnswered
<1>4. CASE PollFails \/ PollScanned \/ PollWakes
    BY <1>4, ScanKept DEF PollFails, PollScanned, PollWakes
<1>5. CASE NewBlock \/ Minute \/ Die
    BY <1>5, ScanKept DEF NewBlock, Minute, Die
<1>6. CASE UNCHANGED vars
    BY <1>6, ScanKept DEF vars
<1>7. QED
    BY <1>1, <1>2, <1>3, <1>4, <1>5, <1>6 DEF Next

-----------------------------------------------------------------------------

\* Never two scans at a time, and the mutex is held exactly during one,
\* however many block events arrive at once (index.js:565-573, 707-712).
THEOREM MutualExclusion == Spec => []OneScan
<1>1. ScanInv => OneScan
    BY DEF ScanInv
<1>2. QED
    BY <1>1, ScanInvInit, ScanInvStep, PTL DEF Spec

\* The reconnection of the health check never pulls the NonceManager from
\* under an execution (index.js:616-651, 663-669).
THEOREM ExecutionKeepsManager == Spec => []ManagerInUse
<1>1. ScanInv => ManagerInUse
    BY DEF ScanInv, ManagerHeld, ManagerInUse
<1>2. QED
    BY <1>1, ScanInvInit, ScanInvStep, PTL DEF Spec
-----------------------------------------------------------------------------
(* Types, with the two facts that bound the counters                         *)

\* The error count reaches MaxErrs in the back-off only, which resets it.
ErrorsBounded ==
    /\ errCount \in 0..MaxErrs
    /\ errCount = MaxErrs => \E c \in Calls : stage[c] = "backoff"

\* Provider and manager are always replaced together.
Paired == manager = provider

ScanTypes == TypeOK /\ ErrorsBounded /\ Paired

LEMMA ScanTypesInit == Init => ScanTypes
<1> SUFFICES ASSUME Init PROVE ScanTypes
    OBVIOUS
<1>1. TypeOK
    <2>1. 0 \in 0..MaxProviders /\ 1 \in Providers /\ 0 \in 0..MaxErrs /\ "idle" \in Stages
        BY ProviderBound, ErrsBound DEF Providers, Stages
    <2> QED
        BY <2>1 DEF Init, TypeOK
<1>2. ErrorsBounded /\ Paired
    BY ErrsBound DEF Init, ErrorsBounded, Paired
<1> QED
    BY <1>1, <1>2 DEF ScanTypes

\* The finally block.
LEMMA LeaveTypes ==
    ASSUME NEW c \in Calls, Leave(c), stage \in [Calls -> Stages],
           using \in [Calls -> 0..MaxProviders]
    PROVE  /\ executing' \in BOOLEAN /\ stage' \in [Calls -> Stages]
           /\ using' \in [Calls -> 0..MaxProviders]
<1>1. "idle" \in Stages /\ 0 \in 0..MaxProviders
    BY ProviderBound DEF Stages
<1> QED
    BY <1>1 DEF Leave

\* What a stage of a scan may do to its own variables: it fails, or goes on, or
\* ends; in each case the count of errors stays in its bounds.
LEMMA StageTypes ==
    ASSUME ScanTypes, OneScan, NEW c \in Calls,
           \/ Fail(c) /\ stage[c] \notin {"idle", "backoff"}
           \/ Succeed(c)
           \/ /\ stage[c] \notin {"idle", "backoff"} /\ errCount' = errCount
              /\ executing' = executing
              /\ \E s \in Stages \ {"idle"} : stage' = [stage EXCEPT ![c] = s]
              /\ \E m \in 0..MaxProviders : \/ using' = [using EXCEPT ![c] = m]
                                            \/ using' = using
    PROVE  /\ executing' \in BOOLEAN /\ stage' \in [Calls -> Stages]
           /\ using' \in [Calls -> 0..MaxProviders]
           /\ ErrorsBounded'
<1>1. /\ executing \in BOOLEAN /\ stage \in [Calls -> Stages]
      /\ using \in [Calls -> 0..MaxProviders] /\ errCount \in 0..MaxErrs
      /\ "idle" \in Stages /\ "backoff" \in Stages /\ 0 \in 0..MaxProviders
      /\ MaxErrs \in Nat \ {0}
    BY ProviderBound, ErrsBound DEF ScanTypes, TypeOK, Stages
<1>2. ASSUME stage[c] \notin {"idle", "backoff"} PROVE errCount < MaxErrs
    BY <1>1, <1>2 DEF ScanTypes, ErrorsBounded, OneScan
<1>3. CASE Fail(c) /\ stage[c] \notin {"idle", "backoff"}
    <2>1. errCount + 1 \in 0..MaxErrs
        BY <1>1, <1>2, <1>3
    <2>2. CASE errCount + 1 >= MaxErrs
        <3>1. /\ stage' = [stage EXCEPT ![c] = "backoff"] /\ errCount' = errCount + 1
              /\ executing' = executing /\ using' = using
            BY <1>3, <2>2 DEF Fail
        <3> QED
            BY <1>1, <2>1, <3>1 DEF ErrorsBounded
    <2>3. CASE ~(errCount + 1 >= MaxErrs)
        <3>1. Leave(c) /\ errCount' = errCount + 1
            BY <1>3, <2>3 DEF Fail
        <3>2. errCount' # MaxErrs
            BY <1>1, <2>3, <3>1
        <3> QED
            BY <1>1, <2>1, <3>1, <3>2, LeaveTypes DEF ErrorsBounded
    <2> QED
        BY <2>2, <2>3
<1>4. CASE Succeed(c)
    <2>1. Leave(c) /\ errCount' = 0 /\ 0 \in 0..MaxErrs /\ 0 # MaxErrs
        BY <1>1, <1>4 DEF Succeed
    <2> QED
        BY <1>1, <2>1, LeaveTypes DEF ErrorsBounded
<1>5. CASE /\ stage[c] \notin {"idle", "backoff"} /\ errCount' = errCount
           /\ executing' = executing
           /\ \E s \in Stages \ {"idle"} : stage' = [stage EXCEPT ![c] = s]
           /\ \E m \in 0..MaxProviders : \/ using' = [using EXCEPT ![c] = m]
                                         \/ using' = using
    <2>1. errCount < MaxErrs
        BY <1>2, <1>5
    <2> QED
        BY <1>1, <1>5, <2>1 DEF ErrorsBounded
<1> QED
    BY <1>3, <1>4, <1>5

LEMMA ScanTypesScan ==
    ASSUME ScanTypes, OneScan, NEW c \in Calls, Scan(c)
    PROVE  ScanTypes'
<1> DEFINE Stage == /\ executing' \in BOOLEAN /\ stage' \in [Calls -> Stages]
                    /\ using' \in [Calls -> 0..MaxProviders]
                    /\ ErrorsBounded'
<1>1. /\ {"reading", "executing", "tracking", "reaping", "health", "picking", "binding"}
             \subseteq Stages \ {"idle"}
      /\ manager \in 0..MaxProviders /\ 0 \in 0..MaxProviders
    BY ProviderBound DEF Stages, ScanTypes, TypeOK, Providers
<1>2. CASE ReadFails(c) \/ ReadDone(c)
    <2>1. Stage
        BY <1>1, <1>2, StageTypes DEF ReadFails, ReadDone, Goto
    <2> QED
        BY <1>2, <2>1 DEF ReadFails, ReadDone, bindingVars, worldVars, ScanTypes, TypeOK,
                          ErrorsBounded, Paired
<1>3. CASE Executed(c)
    <2>1. Stage
        BY <1>1, <1>3, StageTypes DEF Executed, Goto
    <2> QED
        BY <1>3, <2>1 DEF Executed, bindingVars, worldVars, ScanTypes, TypeOK,
                          ErrorsBounded, Paired
<1>4. CASE Tracked(c) \/ Reaped(c) \/ Unhealthy(c)
    <2>1. Stage
        BY <1>1, <1>4, StageTypes DEF Tracked, Reaped, Unhealthy, Goto
    <2> QED
        BY <1>4, <2>1 DEF Tracked, Reaped, Unhealthy, bindingVars, worldVars, ScanTypes,
                          TypeOK, ErrorsBounded, Paired
<1>5. CASE Healthy(c) \/ PickFails(c) \/ Bound(c) \/ BackedOff(c)
    <2>1. Stage
        BY <1>5, StageTypes DEF Healthy, PickFails, Bound, BackedOff
    <2> QED
        BY <1>5, <2>1 DEF Healthy, PickFails, Bound, BackedOff, bindingVars, worldVars,
                          ScanTypes, TypeOK, ErrorsBounded, Paired
<1>6. CASE Picked(c)
    <2>1. Stage
        BY <1>1, <1>6, StageTypes DEF Picked, Goto
    <2>2. provider' \in Providers /\ manager' = provider'
        BY <1>6, ProviderBound DEF Picked, ScanTypes, TypeOK, Paired, Providers
    <2> QED
        BY <1>6, <2>1, <2>2 DEF Picked, worldVars, ScanTypes, TypeOK, ErrorsBounded, Paired
<1>7. CASE BindFatal(c)
    <2>1. errCount < MaxErrs
        <3>1. stage[c] = "binding"
            BY <1>7 DEF BindFatal
        <3> QED
            BY <3>1, ErrsBound DEF ScanTypes, TypeOK, ErrorsBounded, OneScan
    <2>2. "idle" \in Stages /\ 0 \in 0..MaxProviders
        BY ProviderBound DEF Stages
    <2>3. stage' \in [Calls -> Stages] /\ using' \in [Calls -> 0..MaxProviders]
        BY <1>7, <2>2 DEF BindFatal
    <2>4. errCount' # MaxErrs
        BY <1>7, <2>1, ErrsBound DEF BindFatal, ScanTypes, TypeOK
    <2> QED
        BY <1>7, <2>3, <2>4
        DEF BindFatal, bindingVars, worldVars, ScanTypes, TypeOK, ErrorsBounded, Paired
<1> QED
    BY <1>2, <1>3, <1>4, <1>5, <1>6, <1>7 DEF Scan

LEMMA ScanTypesStep == ScanTypes /\ OneScan /\ [Next]_vars => ScanTypes'
<1> SUFFICES ASSUME ScanTypes, OneScan, [Next]_vars PROVE ScanTypes'
    OBVIOUS
<1> USE DEF bindingVars, scanVars, worldVars
<1>1. ASSUME NEW c \in Calls, Scan(c) PROVE ScanTypes'
    BY <1>1, ScanTypesScan
<1>2. ASSUME NEW c \in Calls, Begin(c), errCount' = errCount
      PROVE  executing' \in BOOLEAN /\ stage' \in [Calls -> Stages] /\ ErrorsBounded'
    <2>1. CASE executing
        BY <1>2, <2>1 DEF Begin, ScanTypes, TypeOK, ErrorsBounded
    <2>2. CASE ~executing
        <3>1. \A d \in Calls : stage[d] = "idle"
            BY <2>2 DEF OneScan
        <3>2. errCount # MaxErrs
            BY <3>1 DEF ScanTypes, ErrorsBounded
        <3> QED
            BY <1>2, <2>2, <3>2 DEF Begin, ScanTypes, TypeOK, ErrorsBounded, Stages
    <2> QED
        BY <2>1, <2>2
<1>3. ASSUME NEW c \in Calls, BlockEvent(c) PROVE ScanTypes'
    BY <1>2, <1>3 DEF BlockEvent, ScanTypes, TypeOK, Paired
<1>4. ASSUME NEW c \in Calls, PollAnswered(c) PROVE ScanTypes'
    <2>1. executing' \in BOOLEAN /\ stage' \in [Calls -> Stages] /\ ErrorsBounded'
        BY <1>2, <1>4 DEF PollAnswered, ScanTypes, TypeOK, ErrorsBounded
    <2> QED
        BY <1>4, <2>1 DEF PollAnswered, ScanTypes, TypeOK, Paired
<1>5. CASE PollFails \/ PollScanned \/ PollWakes
    BY <1>5 DEF PollFails, PollScanned, PollWakes, ScanTypes, TypeOK, ErrorsBounded, Paired
<1>6. CASE NewBlock \/ Minute \/ Die
    BY <1>6 DEF NewBlock, Minute, Die, ScanTypes, TypeOK, ErrorsBounded, Paired
<1>7. CASE UNCHANGED vars
    BY <1>7 DEF vars, ScanTypes, TypeOK, ErrorsBounded, Paired
<1> QED
    BY <1>1, <1>3, <1>4, <1>5, <1>6, <1>7 DEF Next

\* Every variable keeps its type; in particular no path through scan() counts
\* errors beyond MaxErrs, and a new provider always comes with its own manager
\* (index.js:663-669, 699-705).
THEOREM ScanLoopTypes == Spec => [](TypeOK /\ ErrorsBounded /\ Paired)
<1>1. ScanTypes => TypeOK /\ ErrorsBounded /\ Paired
    BY DEF ScanTypes
<1> QED
    BY <1>1, ScanTypesInit, ScanTypesStep, MutualExclusion, PTL DEF Spec
=============================================================================
