----------------------------- MODULE ExecutionGuard -----------------------------
(***************************************************************************)
(* What stands between a reading of the pools and a transaction that trades  *)
(* against them: the scan of bot/index.js with the reads of bot/scanner.js,  *)
(* the search of bot/profit.js, the snapshot and fingerprints of             *)
(* bot/snapshot.js, the re-validation of bot/fresh.js, and the final requote *)
(* and simulation of bot/executor.js.                                        *)
(*                                                                           *)
(* The chain moves at every await; a read may fail and leave what was there. *)
(* The state of a pool is one value of States: all of reserves, fees, PMM    *)
(* parameters, prices and ticks that a quote depends on.  A fingerprint is   *)
(* that value (the hash is taken to be injective), tagged with the form it   *)
(* was computed from.  Amounts are reduced to Net, the result of the best    *)
(* borrow for a pair of pool states, in the unit of minProfitBnb.            *)
(***************************************************************************)
EXTENDS Integers, Sequences

CONSTANTS
    Venues,       \* pools of one token pair
    DeepVenues,   \* those quoted from v3State, which only enrichV3Venues() reads
    States,       \* states of a pool
    Drained,      \* states with an empty side, which mark a venue dead
    Unread,       \* a field that is still undefined
    Net,          \* net result of buying in one state and selling in another
    Large,        \* pairs of states that isPlausible() finds too good
    MinProfit,    \* config.bot.minProfitBnb
    Margin,       \* what slippageBps takes off net to give minProfit
    MaxAge,       \* config.bot.requoteMaxAgeBlocks
    MaxBlock,     \* BOUND: blocks produced during the run
    ReadsFail     \* FAULT: whether a read of a pool may fail

ASSUME VenueKinds == DeepVenues \subseteq Venues /\ Venues # {}
ASSUME StatesRead == Unread \notin States /\ Drained \subseteq States /\ States # {}
ASSUME NetType == Net \in [States \X States -> Int]
ASSUME DrainedPaysNothing ==
    \A b, s \in States : {b, s} \cap Drained # {} => Net[b, s] < 0
ASSUME GateNumbers ==
    MinProfit \in Nat \ {0} /\ Margin \in Nat /\ MaxAge \in Nat /\ MaxBlock \in Nat \ {0}
ASSUME FaultSwitch == ReadsFail \in BOOLEAN

VARIABLES
    chain,        \* the state of every pool at each block
    pools,        \* the venue objects of main(), mutated in place by every read
    pc,           \* where scan() and what it calls is suspended
    snap,         \* the snapshot of the scan in progress
    opp,          \* the opportunity in execution
    fresh,        \* freshBlockNumber, and the venues still to be validated
    quote,        \* the final requote: its block and the states it used
    executedOn    \* the pool states the transaction met on chain

vars == <<chain, pools, pc, snap, opp, fresh, quote, executedOn>>

Head_ == Len(chain)
Values == States \cup {Unread}

NewVenue == [shallow |-> Unread, deep |-> Unread, dead |-> FALSE,
             blockNumber |-> 0, snapshot |-> 0]
NoFp == <<"none", Unread>>
NoSnap == [blockNumber |-> 0, venues |-> [v \in Venues |-> NoFp]]
SomeVenue == CHOOSE v \in Venues : TRUE
NoOpp == [buyVen |-> SomeVenue, sellVen |-> SomeVenue, blockNumber |-> 0,
          stateFingerprint |-> [v \in Venues |-> NoFp]]
NoFresh == [blockNumber |-> 0, todo |-> <<>>]
NoQuote == [blockNumber |-> 0, buy |-> Unread, sell |-> Unread]

-----------------------------------------------------------------------------
(* Venue objects: what a quote uses, and its fingerprint.                    *)

\* profit.venueOutput(): a V3 venue is quoted from its deep state or not at all.
Input(v, o) == IF v \in DeepVenues THEN o.deep ELSE o.shallow

\* snapshot.canonicalVenueState() and venueFingerprint(); NoFp is null.
MutVenueFingerprint(v, o) ==
    CASE o.dead \/ o.shallow = Unread -> NoFp
      [] OTHER -> <<IF v \in DeepVenues THEN "v3f" ELSE "flat", o.shallow>>
venueFingerprint(v, o) ==
    CASE o.dead -> NoFp
      [] ~o.dead /\ v \in DeepVenues /\ o.deep # Unread -> <<"v3d", o.deep>>
      [] ~o.dead /\ v \in DeepVenues /\ o.deep = Unread /\ o.shallow # Unread
           -> <<"v3f", o.shallow>>
      [] ~o.dead /\ v \notin DeepVenues /\ o.shallow # Unread -> <<"flat", o.shallow>>
      [] OTHER -> NoFp

\* The venues whose reads succeed: multicall3() reports the others as failed
\* after its retries, and its callers go on.
ReadSets(vs) == IF ReadsFail THEN SUBSET vs ELSE {vs}

\* readState() writes the fields it could read, and marks an empty pool dead;
\* nothing ever takes the mark back.
ReadInto(o, s) == [o EXCEPT !.shallow = s, !.dead = o.dead \/ s \in Drained]

\* readState() of the venues vs at block b, where those in ok answered;
\* with a block tag every live venue is marked with it, read or not.
readState(objs, vs, ok, b, tagged) ==
    [v \in Venues |->
        LET o == IF v \in ok THEN ReadInto(objs[v], chain[b][v]) ELSE objs[v]
        IN  IF v \in vs /\ tagged /\ ~o.dead THEN [o EXCEPT !.snapshot = b] ELSE o]

\* enrichV3Venues() at block b; a pool that fails keeps its old v3State.
enrichV3Venues(objs, ok, b) ==
    [v \in Venues |-> IF v \in ok THEN [objs[v] EXCEPT !.deep = chain[b][v]] ELSE objs[v]]

-----------------------------------------------------------------------------
(* The search: profit.findOpportunities()                                    *)

Gain(b, s) == IF b = Unread \/ s = Unread THEN 0 ELSE Net[b, s]

\* An ordered pair of live venues of this snapshot with a profit.
Candidates(objs) ==
    {p \in Venues \X Venues :
        /\ p[1] # p[2]
        /\ \A i \in 1..2 : /\ ~objs[p[i]].dead
                           /\ objs[p[i]].shallow # Unread
                           /\ objs[p[i]].snapshot \in {0, snap.blockNumber}
        /\ Gain(Input(p[1], objs[p[1]]), Input(p[2], objs[p[2]])) > 0}

\* A profit above 2% is to be flagged; the flagging code names a logger the
\* module does not have, and throws.
Throws(objs) ==
    \E p \in Candidates(objs) :
        <<Input(p[1], objs[p[1]]), Input(p[2], objs[p[2]])>> \in Large

attachVenueFingerprints(objs) ==
    [v \in Venues |-> venueFingerprint(v, objs[v])]

Opportunity(p, objs) ==
    [buyVen |-> p[1], sellVen |-> p[2], blockNumber |-> snap.blockNumber,
     stateFingerprint |-> attachVenueFingerprints(objs)]

\* index.js validateSnapshot()
validateSnapshot(o, objs, sn) ==
    /\ o.blockNumber = sn.blockNumber
    /\ \A v \in {o.buyVen, o.sellVen} :
        /\ objs[v].blockNumber = sn.blockNumber
        /\ venueFingerprint(v, objs[v]) # NoFp
        /\ o.stateFingerprint[v] = venueFingerprint(v, objs[v])
        /\ sn.venues[v] = o.stateFingerprint[v]
-----------------------------------------------------------------------------
Init ==
    /\ chain \in {<<s>> : s \in [Venues -> States]}
    /\ pools = [v \in Venues |-> NewVenue]
    /\ pc = "idle"
    /\ snap = NoSnap
    /\ opp = NoOpp
    /\ fresh = NoFresh
    /\ quote = NoQuote
    /\ executedOn = [v \in Venues |-> Unread]

\* External: a block, after which any pool may have any state.
NewBlock ==
    /\ Head_ < MaxBlock
    /\ \E s \in [Venues -> States] : chain' = Append(chain, s)
    /\ UNCHANGED <<pools, pc, snap, opp, fresh, quote, executedOn>>

\* The end of a scan; what it held is unreachable.
Rest ==
    /\ snap' = NoSnap
    /\ opp' = NoOpp
    /\ fresh' = NoFresh
    /\ quote' = NoQuote
    /\ executedOn' = [v \in Venues |-> Unread]
EndScan == pc' = "idle" /\ Rest

\* refreshVenues(): new objects, read at the head without a block tag.
RefreshVenues ==
    /\ pc = "idle"
    /\ \E ok \in ReadSets(Venues) :
        pools' = readState([v \in Venues |-> NewVenue], Venues, ok, Head_, FALSE)
    /\ pc' = "snapshot"
    /\ UNCHANGED <<chain, snap, opp, fresh, quote, executedOn>>

\* createSnapshot()
TakeSnapshot ==
    /\ pc \in {"idle", "snapshot"}
    /\ snap' = [NoSnap EXCEPT !.blockNumber = Head_]
    /\ pc' = "read"
    /\ UNCHANGED <<chain, pools, opp, fresh, quote, executedOn>>

\* readState() at the snapshot's block, and the stamp on every venue.
MutReadPools ==
    /\ pc = "read"
    /\ \E ok \in ReadSets(Venues) :
        pools' = LET objs == readState(pools, Venues, ok, snap.blockNumber, TRUE)
                 IN  [v \in Venues |->
                        IF v \in ok THEN [objs[v] EXCEPT !.blockNumber = snap.blockNumber]
                                    ELSE objs[v]]
    /\ pc' = "enrich"
    /\ UNCHANGED <<chain, snap, opp, fresh, quote, executedOn>>
ReadPools ==
    /\ pc = "read"
    /\ \E ok \in ReadSets(Venues) :
        pools' = LET objs == readState(pools, Venues, ok, snap.blockNumber, TRUE)
                 IN  [v \in Venues |-> [objs[v] EXCEPT !.blockNumber = snap.blockNumber]]
    /\ pc' = "enrich"
    /\ UNCHANGED <<chain, snap, opp, fresh, quote, executedOn>>

\* What runs between the last read of a scan and the next await: fingerprints,
\* search, choice of the best opportunity, and validateSnapshot().
Search(objs) ==
    LET sn == [snap EXCEPT !.venues = attachVenueFingerprints(objs)]
        gain(p) == Gain(Input(p[1], objs[p[1]]), Input(p[2], objs[p[2]]))
        best == {p \in Candidates(objs) :
                    /\ gain(p) >= MinProfit
                    /\ \A q \in Candidates(objs) : gain(q) <= gain(p)}
    IN  \/ Throws(objs) /\ pc' = "thrown" /\ Rest
        \/ ~Throws(objs) /\ best = {} /\ EndScan
        \/ ~Throws(objs) /\ \E p \in best :
            IF validateSnapshot(Opportunity(p, objs), objs, sn)
            THEN /\ pc' = "fresh"
                 /\ opp' = Opportunity(p, objs)
                 /\ snap' = sn
                 /\ UNCHANGED <<fresh, quote, executedOn>>
            ELSE pc' = "null" /\ Rest

EnrichAndSearch ==
    /\ pc = "enrich"
    /\ \E ok \in ReadSets(DeepVenues) :
        /\ pools' = enrichV3Venues(pools, ok, snap.blockNumber)
        /\ Search(enrichV3Venues(pools, ok, snap.blockNumber))
    /\ UNCHANGED chain

\* A ReferenceError of the search, a TypeError on the null of
\* execGuardedOpp(), and a failed RPC call end in the catch of scan().
LoopError ==
    /\ pc \in {"snapshot", "read", "enrich", "thrown", "null",
               "fresh", "check", "requote", "quote", "simulate", "submit"}
    /\ EndScan
    /\ UNCHANGED <<chain, pools>>
-----------------------------------------------------------------------------
(* freshOnChainStateValidation()                                             *)

FreshBlock ==
    /\ pc = "fresh"
    /\ fresh' = [blockNumber |-> Head_, todo |-> <<opp.buyVen, opp.sellVen>>]
    /\ pc' = "check"
    /\ UNCHANGED <<chain, pools, snap, opp, quote, executedOn>>

\* readFreshVenueState(): a clone without state, read at freshBlockNumber.
MutFreshVenue(v, readAll, readDeep) ==
    LET base == IF readAll THEN ReadInto(NewVenue, chain[Head_][v]) ELSE NewVenue
    IN  IF readDeep THEN [base EXCEPT !.deep = chain[Head_][v]] ELSE base
FreshVenue(v, readAll, readDeep) ==
    LET at == chain[fresh.blockNumber][v]
        base == IF readAll THEN ReadInto(NewVenue, at) ELSE NewVenue
    IN  IF readDeep THEN [base EXCEPT !.deep = at] ELSE base

\* One venue: equal fingerprints or the opportunity is dropped.
CheckVenue ==
    /\ pc = "check"
    /\ fresh.todo # <<>>
    /\ LET v == Head(fresh.todo) IN
       \E ok \in ReadSets({v}), deep \in ReadSets({v} \cap DeepVenues) :
        LET fp == venueFingerprint(v, FreshVenue(v, v \in ok, v \in deep))
        IN  IF fp # NoFp /\ fp = opp.stateFingerprint[v]
            THEN /\ fresh' = [fresh EXCEPT !.todo = Tail(@)]
                 /\ pc' = IF Len(fresh.todo) = 1 THEN "requote" ELSE "check"
                 /\ UNCHANGED <<snap, opp, quote, executedOn>>
            ELSE EndScan
    /\ UNCHANGED <<chain, pools>>
-----------------------------------------------------------------------------
(* executor.js: finalRequote(), the age gate, simulation, submission          *)

\* readState() of the opportunity's live venues at the head; there is no
\* enrichV3Venues() here.
RequoteRead ==
    /\ pc = "requote"
    /\ LET live == {v \in {opp.buyVen, opp.sellVen} : ~pools[v].dead} IN
       \E ok \in ReadSets(live) : pools' = readState(pools, live, ok, Head_, FALSE)
    /\ pc' = "quote"
    /\ UNCHANGED <<chain, snap, opp, fresh, quote, executedOn>>

\* getBlockNumber(), then both legs anew and every gate up to the simulation.
MutRequote ==
    /\ pc = "quote"
    /\ LET b == Input(opp.buyVen, pools[opp.buyVen])
           s == Input(opp.sellVen, pools[opp.sellVen])
       IN  IF Head_ - opp.blockNumber <= MaxAge /\ Gain(b, s) >= MinProfit
           THEN /\ quote' = [blockNumber |-> Head_, buy |-> b, sell |-> s]
                /\ pc' = "simulate"
                /\ UNCHANGED <<snap, opp, fresh, executedOn>>
           ELSE EndScan
    /\ UNCHANGED <<chain, pools>>
Requote ==
    /\ pc = "quote"
    /\ LET b == Input(opp.buyVen, pools[opp.buyVen])
           s == Input(opp.sellVen, pools[opp.sellVen])
       IN  IF /\ Head_ - opp.blockNumber <= MaxAge
              /\ Gain(b, s) - Margin > 0
              /\ Gain(b, s) >= MinProfit
           THEN /\ quote' = [blockNumber |-> Head_, buy |-> b, sell |-> s]
                /\ pc' = "simulate"
                /\ UNCHANGED <<snap, opp, fresh, executedOn>>
           ELSE EndScan
    /\ UNCHANGED <<chain, pools>>

\* External: the contract completes when at least minProfit is left, else it
\* reverts (FlashLoanArbitrage.tla).
Completes(s) ==
    Net[s[opp.buyVen], s[opp.sellVen]] >= Net[quote.buy, quote.sell] - Margin

\* staticCall(), and estimateGas(): each runs the contract on the head.
Simulate ==
    /\ pc \in {"simulate", "submit"}
    /\ IF Completes(chain[Head_])
       THEN /\ pc' = IF pc = "simulate" THEN "submit" ELSE "sent"
            /\ UNCHANGED <<snap, opp, fresh, quote, executedOn>>
       ELSE EndScan
    /\ UNCHANGED <<chain, pools>>

\* External: a validator includes the transaction behind others that moved
\* the pools; the contract completes or reverts.
Include ==
    /\ pc = "sent"
    /\ \E s \in [Venues -> States] :
        IF Completes(s) THEN executedOn' = s /\ pc' = "mined"
                        ELSE UNCHANGED executedOn /\ pc' = "reverted"
    /\ UNCHANGED <<chain, pools, snap, opp, fresh, quote>>

\* trackTransaction() returned, or gave up.
Finish ==
    /\ pc \in {"sent", "mined", "reverted"}
    /\ EndScan
    /\ UNCHANGED <<chain, pools>>

Next ==
    \/ NewBlock \/ RefreshVenues \/ TakeSnapshot \/ ReadPools \/ EnrichAndSearch
    \/ LoopError \/ FreshBlock \/ CheckVenue \/ RequoteRead \/ Requote
    \/ Simulate \/ Include \/ Finish

Spec == Init /\ [][Next]_vars
-----------------------------------------------------------------------------
(* Properties                                                                *)

Stages == {"idle", "snapshot", "read", "enrich", "fresh", "check", "requote",
           "quote", "simulate", "submit", "sent", "mined", "reverted",
           "thrown", "null"}
Object == [shallow : Values, deep : Values, dead : BOOLEAN,
           blockNumber : 0..MaxBlock, snapshot : 0..MaxBlock]
Fingerprint == {"none", "v3d", "v3f", "flat"} \X Values
Fingerprints == [Venues -> Fingerprint]

\* Every variable keeps its type.
TypeOK ==
    /\ chain \in Seq([Venues -> States])
    /\ Head_ \in 1..MaxBlock
    /\ pools \in [Venues -> Object]
    /\ pc \in Stages
    /\ snap \in [blockNumber : 0..MaxBlock, venues : Fingerprints]
    /\ opp \in [buyVen : Venues, sellVen : Venues, blockNumber : 0..MaxBlock,
               stateFingerprint : Fingerprints]
    /\ fresh \in [blockNumber : 0..MaxBlock, todo : Seq(Venues)]
    /\ quote \in [blockNumber : 0..MaxBlock, buy : Values, sell : Values]
    /\ executedOn \in [Venues -> Values]

Committed == {"simulate", "submit", "sent", "mined", "reverted"}

\* An opportunity that reached simulation was validated, at one block not
\* older than its snapshot and not more than MaxAge blocks before the end of
\* its requote, against the very states its search had used.  fresh.js and the
\* age gate exist for this.
SentWasRevalidated ==
    pc \in Committed =>
        /\ opp.blockNumber <= fresh.blockNumber
        /\ fresh.blockNumber <= quote.blockNumber
        /\ quote.blockNumber <= opp.blockNumber + MaxAge
        /\ \A v \in {opp.buyVen, opp.sellVen} :
            opp.stateFingerprint[v][2] = chain[fresh.blockNumber][v]

\* Whatever reads failed, and although the requote renews only part of what it
\* quotes from, each state behind the minimum profit in the transaction was
\* the state of its pool at some block from the validation to the requote.
QuotesAreRecent ==
    pc \in Committed =>
        /\ \E b \in fresh.blockNumber..quote.blockNumber : quote.buy = chain[b][opp.buyVen]
        /\ \E b \in fresh.blockNumber..quote.blockNumber : quote.sell = chain[b][opp.sellVen]

\* execGuardedOpp() never rejects what the search of the same scan found: its
\* null, which scan() would dereference, is not returned.
GuardAgrees == pc # "null"

\* Slippage tolerance never lets a transaction succeed at a loss: the margin
\* taken off the quote leaves a positive minimum, which the contract enforces
\* on the states it meets.
MinedIsGain ==
    pc = "mined" => Net[executedOn[opp.buyVen], executedOn[opp.sellVen]] > 0
=============================================================================
