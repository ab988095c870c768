-------------------------- MODULE ExecutionGuardProofs --------------------------
(***************************************************************************)
(* What validation, requote and simulation guarantee about a transaction,    *)
(* for every set of pools, every table of results and every moment at which  *)
(* the chain moves or a read fails.                                          *)
(***************************************************************************)
EXTENDS ExecutionGuard, TLAPS

Legs == {opp.buyVen, opp.sellVen}

\* The stages between the search and the requote, in which pools do not move,
\* and those after the fresh block was chosen.
Held == {"fresh", "check", "requote"}
Based == {"check", "requote", "quote"} \cup Committed

\* Every block number in use is that of a block, in the order of the stages.
Blocks ==
    /\ pc \in {"read", "enrich"} => snap.blockNumber \in 1..Head_
    /\ pc \in Held \cup Based => opp.blockNumber \in 1..Head_
    /\ pc \in Based => fresh.blockNumber \in opp.blockNumber..Head_
    /\ pc \in Committed =>
        /\ quote.blockNumber \in fresh.blockNumber..Head_
        /\ quote.blockNumber <= opp.blockNumber + MaxAge

\* At the search, all venues carry the stamp of the snapshot.
Stamped ==
    pc = "enrich" => \A v \in Venues : pools[v].blockNumber = snap.blockNumber

\* Until the requote, the legs' objects hold what was fingerprinted.
Searched ==
    pc \in Held => \A v \in Legs :
        /\ Input(v, pools[v]) \in States
        /\ opp.stateFingerprint[v][2] = Input(v, pools[v])

FreshLeg(v) == opp.stateFingerprint[v][2] = chain[fresh.blockNumber][v]

\* The legs checked so far are those no longer to do.
Validated ==
    /\ pc \in Based \ {"check"} => \A v \in Legs : FreshLeg(v)
    /\ pc = "check" =>
        \/ fresh.todo = <<opp.buyVen, opp.sellVen>>
        \/ fresh.todo = <<opp.sellVen>> /\ FreshLeg(opp.buyVen)

\* The requote works on states of blocks since the validation.
Recent(v, s) == \E b \in fresh.blockNumber..Head_ : s = chain[b][v]
Requoted ==
    pc = "quote" => \A v \in Legs : Recent(v, Input(v, pools[v]))

\* What was committed to is a positive minimum, and the contract held to it.
Promised ==
    /\ pc \in Committed =>
        /\ quote.buy \in States /\ quote.sell \in States
        /\ Net[quote.buy, quote.sell] - Margin > 0
    /\ pc = "mined" => executedOn \in [Venues -> States] /\ Completes(executedOn)

GuardInv ==
    /\ TypeOK
    /\ Blocks
    /\ Stamped
    /\ Searched
    /\ Validated
    /\ Requoted
    /\ QuotesAreRecent
    /\ Promised
    /\ GuardAgrees
-----------------------------------------------------------------------------
(* What the reads write and the fingerprints say.                            *)

LEMMA NewVenueType == NewVenue \in Object /\ NoFp \in Fingerprint
BY GateNumbers DEF NewVenue, NoFp, Object, Values, Fingerprint

LEMMA ReadIntoType ==
    ASSUME NEW o \in Object, NEW s \in States PROVE ReadInto(o, s) \in Object
BY DEF ReadInto, Object, Values

LEMMA ChainStates ==
    ASSUME TypeOK, NEW b \in 1..Head_, NEW v \in Venues PROVE chain[b][v] \in States
BY DEF TypeOK, Head_

LEMMA ReadStateType ==
    ASSUME TypeOK, NEW objs \in [Venues -> Object], NEW vs, NEW ok,
           NEW b \in 1..Head_, NEW tagged
    PROVE  readState(objs, vs, ok, b, tagged) \in [Venues -> Object]
<1> SUFFICES ASSUME NEW v \in Venues
             PROVE  readState(objs, vs, ok, b, tagged)[v] \in Object
    BY DEF readState
<1> DEFINE o == IF v \in ok THEN ReadInto(objs[v], chain[b][v]) ELSE objs[v]
<1>1. o \in Object
    BY ReadIntoType, ChainStates
<1>2. b \in 0..MaxBlock
    BY GateNumbers DEF TypeOK
<1>3. [o EXCEPT !.snapshot = b] \in Object
    BY <1>1, <1>2 DEF Object
<1>4. readState(objs, vs, ok, b, tagged)[v]
        = IF v \in vs /\ tagged /\ ~o.dead THEN [o EXCEPT !.snapshot = b] ELSE o
    BY DEF readState
<1> HIDE DEF o
<1>5. QED
    BY <1>1, <1>3, <1>4

LEMMA EnrichType ==
    ASSUME TypeOK, NEW objs \in [Venues -> Object], NEW ok, NEW b \in 1..Head_
    PROVE  /\ enrichV3Venues(objs, ok, b) \in [Venues -> Object]
           /\ \A v \in Venues :
                enrichV3Venues(objs, ok, b)[v].blockNumber = objs[v].blockNumber
<1> SUFFICES ASSUME NEW v \in Venues
             PROVE  /\ enrichV3Venues(objs, ok, b)[v] \in Object
                    /\ enrichV3Venues(objs, ok, b)[v].blockNumber = objs[v].blockNumber
    BY DEF enrichV3Venues
<1>1. chain[b][v] \in Values
    BY ChainStates DEF Values
<1>2. QED
    BY <1>1 DEF enrichV3Venues, Object

LEMMA FingerprintType ==
    ASSUME NEW v \in Venues, NEW o \in Object
    PROVE  venueFingerprint(v, o) \in Fingerprint
BY DEF venueFingerprint, Fingerprint, Object, NoFp, Values

LEMMA AttachType ==
    ASSUME NEW objs \in [Venues -> Object]
    PROVE  attachVenueFingerprints(objs) \in Fingerprints
BY FingerprintType DEF attachVenueFingerprints, Fingerprints

\* A live venue that can be quoted is fingerprinted by what it is quoted from.
LEMMA QuotedIsFingerprinted ==
    ASSUME NEW v \in Venues, NEW o \in Object, ~o.dead,
           o.shallow # Unread, Input(v, o) # Unread
    PROVE  /\ venueFingerprint(v, o) # NoFp
           /\ venueFingerprint(v, o)[2] = Input(v, o)
<1>1. CASE v \in DeepVenues
    BY <1>1 DEF venueFingerprint, Input, NoFp
<1>2. CASE v \notin DeepVenues
    BY <1>2 DEF venueFingerprint, Input, NoFp
<1>3. QED
    BY <1>1, <1>2

\* Whatever part of a clone was read, its fingerprint is of the fresh block.
LEMMA FreshFingerprint ==
    ASSUME NEW v \in Venues, NEW r, NEW d,
           venueFingerprint(v, FreshVenue(v, r, d)) # NoFp
    PROVE  venueFingerprint(v, FreshVenue(v, r, d))[2] = chain[fresh.blockNumber][v]
<1> DEFINE o == FreshVenue(v, r, d)
           at == chain[fresh.blockNumber][v]
<1>1. o.shallow \in {at, Unread} /\ o.deep \in {at, Unread}
    BY DEF FreshVenue, ReadInto, NewVenue
<1>2. /\ o.dead => venueFingerprint(v, o) = NoFp
      /\ venueFingerprint(v, o) \in {NoFp, <<"v3d", o.deep>>, <<"v3f", o.shallow>>, <<"flat", o.shallow>>}
    BY DEF venueFingerprint
<1>3. QED
    BY <1>1 DEF venueFingerprint
-----------------------------------------------------------------------------
(* The invariant, action by action.                                          *)

LEMMA RestType ==
    /\ NoSnap \in [blockNumber : 0..MaxBlock, venues : Fingerprints]
    /\ NoOpp \in [buyVen : Venues, sellVen : Venues, blockNumber : 0..MaxBlock,
                  stateFingerprint : Fingerprints]
    /\ NoFresh \in [blockNumber : 0..MaxBlock, todo : Seq(Venues)]
    /\ NoQuote \in [blockNumber : 0..MaxBlock, buy : Values, sell : Values]
    /\ [v \in Venues |-> Unread] \in [Venues -> Values]
<1>1. SomeVenue \in Venues
    BY VenueKinds DEF SomeVenue
<1>2. [v \in Venues |-> NoFp] \in Fingerprints
    BY NewVenueType DEF Fingerprints
<1>3. 0 \in 0..MaxBlock /\ Unread \in Values
    BY GateNumbers DEF Values
<1>4. QED
    BY <1>1, <1>2, <1>3 DEF NoSnap, NoOpp, NoFresh, NoQuote

LEMMA GuardInit == Init => GuardInv
<1> SUFFICES ASSUME Init PROVE GuardInv
    OBVIOUS
<1>1. TypeOK
    <2>1. PICK s \in [Venues -> States] : chain = <<s>>
        BY DEF Init
    <2>2. chain \in Seq([Venues -> States]) /\ Head_ = 1
        BY <2>1 DEF Head_
    <2>3. pools \in [Venues -> Object]
        BY NewVenueType DEF Init
    <2>4. QED
        BY <2>2, <2>3, RestType, GateNumbers DEF Init, TypeOK, Stages
<1>2. pc = "idle"
    BY DEF Init
<1>3. QED
    BY <1>1, <1>2 DEF GuardInv, Blocks, Stamped, Searched, Validated, Requoted,
                      QuotesAreRecent, Promised, GuardAgrees, Held, Based, Committed

\* The end of a scan, normal or not.
LEMMA GuardEnds ==
    ASSUME GuardInv, UNCHANGED chain, pools' \in [Venues -> Object],
           pc' \in {"idle", "thrown"}, Rest
    PROVE  GuardInv'
<1>1. TypeOK'
    BY RestType DEF GuardInv, TypeOK, Rest, Stages, Head_
<1>2. QED
    BY <1>1 DEF GuardInv, Blocks, Stamped, Searched, Validated, Requoted,
                QuotesAreRecent, Promised, GuardAgrees, Held, Based, Committed

LEMMA GuardNewBlock == GuardInv /\ NewBlock => GuardInv'
<1> SUFFICES ASSUME GuardInv, NewBlock PROVE GuardInv'
    OBVIOUS
<1> USE DEF NewBlock
<1>1. PICK s \in [Venues -> States] : chain' = Append(chain, s)
    OBVIOUS
<1>2. /\ chain' \in Seq([Venues -> States])
      /\ Head_' = Head_ + 1 /\ Head_' \in 1..MaxBlock
      /\ \A b \in 1..Head_ : chain'[b] = chain[b]
    BY <1>1, GateNumbers DEF GuardInv, TypeOK, Head_
<1>3. TypeOK'
    BY <1>2 DEF GuardInv, TypeOK
<1>4. Head_ \in Nat
    BY GateNumbers DEF GuardInv, TypeOK
<1>5. Blocks'
    BY <1>2, <1>4 DEF GuardInv, TypeOK, Blocks, Held, Based, Committed
<1>6. pc \in Based => /\ fresh.blockNumber \in 1..Head_
                      /\ chain'[fresh.blockNumber] = chain[fresh.blockNumber]
    <2>1. pc \in Based => fresh.blockNumber \in 1..Head_
        BY <1>4 DEF GuardInv, Blocks
    <2>2. QED
        BY <2>1, <1>2
<1>7. Validated' /\ Requoted' /\ QuotesAreRecent'
    <2>1. Validated'
        BY <1>6 DEF GuardInv, Validated, FreshLeg, Legs, Based
    <2>2. Requoted'
        <3>1. SUFFICES ASSUME pc = "quote", NEW v \in Legs
                       PROVE  Recent(v, Input(v, pools[v]))'
            BY DEF Requoted, Legs
        <3>2. PICK b \in fresh.blockNumber..Head_ : Input(v, pools[v]) = chain[b][v]
            BY <3>1 DEF GuardInv, Requoted, Recent
        <3>3. b \in fresh.blockNumber..Head_' /\ chain'[b] = chain[b]
            <4>1. fresh.blockNumber \in 1..Head_
                BY <3>1, <1>6 DEF Based
            <4>2. b \in 1..Head_ /\ b \in fresh.blockNumber..Head_'
                BY <4>1, <1>2, <1>4
            <4>3. QED
                BY <4>2, <1>2
        <3>4. QED
            BY <3>2, <3>3 DEF Recent, Input
    <2>3. QuotesAreRecent'
        <3>1. SUFFICES ASSUME pc \in Committed PROVE QuotesAreRecent'
            BY DEF QuotesAreRecent
        <3>2. \A b \in fresh.blockNumber..quote.blockNumber : chain'[b] = chain[b]
            <4>1. /\ fresh.blockNumber \in 1..Head_
                  /\ quote.blockNumber \in fresh.blockNumber..Head_
                BY <3>1, <1>6 DEF Based, GuardInv, Blocks
            <4>2. fresh.blockNumber..quote.blockNumber \subseteq 1..Head_
                BY <4>1, <1>4
            <4>3. QED
                BY <4>2, <1>2
        <3>3. QED
            BY <3>1, <3>2 DEF GuardInv, QuotesAreRecent
    <2>4. QED
        BY <2>1, <2>2, <2>3
<1>8. QED
    BY <1>3, <1>5, <1>6, <1>7
       DEF GuardInv, Stamped, Searched, Promised, GuardAgrees, Legs, Completes

LEMMA GuardReads ==
    GuardInv /\ (RefreshVenues \/ TakeSnapshot \/ ReadPools) => GuardInv'
<1> SUFFICES ASSUME GuardInv, RefreshVenues \/ TakeSnapshot \/ ReadPools
             PROVE  GuardInv'
    OBVIOUS
<1>0. Head_ \in 1..Head_ /\ 1..Head_ \subseteq 0..MaxBlock
    BY GateNumbers DEF GuardInv, TypeOK
<1>1. pools' \in [Venues -> Object]
    <2>1. CASE RefreshVenues
        <3>1. [v \in Venues |-> NewVenue] \in [Venues -> Object]
            BY NewVenueType
        <3>2. \A ok : readState([v \in Venues |-> NewVenue], Venues, ok, Head_, FALSE)
                        \in [Venues -> Object]
            BY <3>1, <1>0, ReadStateType DEF GuardInv
        <3>3. QED
            BY <2>1, <3>2 DEF RefreshVenues
    <2>2. CASE TakeSnapshot
        BY <2>2 DEF TakeSnapshot, GuardInv, TypeOK
    <2>3. CASE ReadPools
        <3>1. snap.blockNumber \in 1..Head_
            BY <2>3 DEF ReadPools, GuardInv, Blocks
        <3>2. PICK ok \in ReadSets(Venues) :
                pools' = [v \in Venues |->
                    [readState(pools, Venues, ok, snap.blockNumber, TRUE)[v]
                        EXCEPT !.blockNumber = snap.blockNumber]]
            BY <2>3 DEF ReadPools
        <3>3. readState(pools, Venues, ok, snap.blockNumber, TRUE) \in [Venues -> Object]
            BY <3>1, ReadStateType DEF GuardInv, TypeOK
        <3>4. snap.blockNumber \in 0..MaxBlock
            BY <3>1, <1>0
        <3>5. QED
            BY <3>2, <3>3, <3>4 DEF Object
    <2>4. QED
        BY <2>1, <2>2, <2>3
<1>2. /\ pc' \in {"snapshot", "read", "enrich"}
      /\ UNCHANGED <<chain, opp, fresh, quote, executedOn>>
    BY DEF RefreshVenues, TakeSnapshot, ReadPools
<1>3. snap' \in [blockNumber : 0..MaxBlock, venues : Fingerprints]
    BY <1>0, RestType DEF RefreshVenues, TakeSnapshot, ReadPools, GuardInv, TypeOK, NoSnap
<1>4. TypeOK'
    BY <1>1, <1>2, <1>3 DEF GuardInv, TypeOK, Stages, Head_
<1>5. Blocks' /\ Stamped'
    <2>1. CASE RefreshVenues
        BY <2>1 DEF RefreshVenues, Blocks, Stamped, Held, Based, Committed
    <2>2. CASE TakeSnapshot
        BY <2>2, <1>0 DEF TakeSnapshot, Blocks, Stamped, Held, Based, Committed, NoSnap, Head_
    <2>3. CASE ReadPools
        <3>1. Blocks'
            BY <2>3 DEF ReadPools, GuardInv, Blocks, Held, Based, Committed, Head_
        <3>2. Stamped'
            <4>1. PICK ok \in ReadSets(Venues) :
                    pools' = [v \in Venues |->
                        [readState(pools, Venues, ok, snap.blockNumber, TRUE)[v]
                            EXCEPT !.blockNumber = snap.blockNumber]]
                BY <2>3 DEF ReadPools
            <4>2. readState(pools, Venues, ok, snap.blockNumber, TRUE) \in [Venues -> Object]
                BY <2>3, ReadStateType DEF ReadPools, GuardInv, TypeOK, Blocks
            <4>3. QED
                BY <2>3, <4>1, <4>2 DEF ReadPools, Stamped, Object
        <3>3. QED
            BY <3>1, <3>2
    <2>4. QED
        BY <2>1, <2>2, <2>3
<1>6. QED
    BY <1>2, <1>4, <1>5 DEF GuardInv, Searched, Validated, Requoted,
                QuotesAreRecent, Promised, GuardAgrees, Held, Based, Committed

LEMMA GuardSearch == GuardInv /\ EnrichAndSearch => GuardInv'
<1> SUFFICES ASSUME GuardInv, EnrichAndSearch PROVE GuardInv'
    OBVIOUS
<1>1. PICK ok \in ReadSets(DeepVenues) :
        /\ pools' = enrichV3Venues(pools, ok, snap.blockNumber)
        /\ Search(enrichV3Venues(pools, ok, snap.blockNumber))
    BY DEF EnrichAndSearch
<1> DEFINE objs == enrichV3Venues(pools, ok, snap.blockNumber)
           sn == [snap EXCEPT !.venues = attachVenueFingerprints(objs)]
<1>2. pc = "enrich" /\ UNCHANGED chain /\ snap.blockNumber \in 1..Head_
    BY DEF EnrichAndSearch, GuardInv, Blocks
<1>3. /\ objs \in [Venues -> Object]
      /\ \A v \in Venues : objs[v].blockNumber = snap.blockNumber
    BY <1>2, EnrichType DEF GuardInv, TypeOK, Stamped
<1> HIDE DEF objs
<1>4. CASE Rest /\ pc' \in {"idle", "thrown"}
    BY <1>4, <1>1, <1>2, <1>3, GuardEnds DEF objs
<1>5. CASE \E p \in Candidates(objs) :
             IF validateSnapshot(Opportunity(p, objs), objs, sn)
             THEN /\ pc' = "fresh" /\ opp' = Opportunity(p, objs) /\ snap' = sn
                  /\ UNCHANGED <<fresh, quote, executedOn>>
             ELSE pc' = "null" /\ Rest
    <2>1. PICK p \in Candidates(objs) :
             IF validateSnapshot(Opportunity(p, objs), objs, sn)
             THEN /\ pc' = "fresh" /\ opp' = Opportunity(p, objs) /\ snap' = sn
                  /\ UNCHANGED <<fresh, quote, executedOn>>
             ELSE pc' = "null" /\ Rest
        BY <1>5
    <2>2. /\ p[1] \in Venues /\ p[2] \in Venues
          /\ \A v \in {p[1], p[2]} :
                /\ ~objs[v].dead /\ objs[v].shallow # Unread
                /\ Input(v, objs[v]) # Unread
        <3>1. /\ p \in Venues \X Venues
              /\ \A i \in 1..2 : ~objs[p[i]].dead /\ objs[p[i]].shallow # Unread
              /\ Gain(Input(p[1], objs[p[1]]), Input(p[2], objs[p[2]])) > 0
            BY DEF Candidates
        <3>2. Input(p[1], objs[p[1]]) # Unread /\ Input(p[2], objs[p[2]]) # Unread
            <4>1. ASSUME NEW b, NEW s, b = Unread \/ s = Unread PROVE Gain(b, s) = 0
                BY <4>1 DEF Gain
            <4>2. QED
                BY <4>1, <3>1
        <3>3. 1 \in 1..2 /\ 2 \in 1..2
            OBVIOUS
        <3>4. QED
            BY <3>1, <3>2, <3>3
    <2>3. /\ Opportunity(p, objs).buyVen = p[1] /\ Opportunity(p, objs).sellVen = p[2]
          /\ Opportunity(p, objs).blockNumber = snap.blockNumber
          /\ \A v \in Venues :
                Opportunity(p, objs).stateFingerprint[v] = venueFingerprint(v, objs[v])
        BY DEF Opportunity, attachVenueFingerprints
    <2>4. \A v \in {p[1], p[2]} :
             /\ venueFingerprint(v, objs[v]) # NoFp
             /\ venueFingerprint(v, objs[v])[2] = Input(v, objs[v])
             /\ Input(v, objs[v]) \in States
        <3> SUFFICES ASSUME NEW v \in {p[1], p[2]}
                     PROVE  /\ venueFingerprint(v, objs[v]) # NoFp
                            /\ venueFingerprint(v, objs[v])[2] = Input(v, objs[v])
                            /\ Input(v, objs[v]) \in States
            OBVIOUS
        <3>1. v \in Venues /\ objs[v] \in Object
            BY <2>2, <1>3
        <3>2. Input(v, objs[v]) \in Values
            BY <3>1 DEF Input, Object
        <3>3. QED
            BY <3>1, <3>2, <2>2, QuotedIsFingerprinted DEF Values
    <2>5. snap \in [blockNumber : 0..MaxBlock, venues : Fingerprints]
        BY DEF GuardInv, TypeOK
    <2>6. /\ sn.blockNumber = snap.blockNumber
          /\ \A v \in Venues : sn.venues[v] = venueFingerprint(v, objs[v])
        BY <2>5 DEF attachVenueFingerprints
    <2>7. validateSnapshot(Opportunity(p, objs), objs, sn)
        BY <2>2, <2>3, <2>4, <2>6, <1>3 DEF validateSnapshot
    <2>8. /\ pc' = "fresh" /\ opp' = Opportunity(p, objs) /\ snap' = sn
          /\ UNCHANGED <<fresh, quote, executedOn>>
        BY <2>1, <2>7
    <2>9. TypeOK'
        <3>1. pools' \in [Venues -> Object] /\ pc' \in Stages
            BY <1>1, <1>3, <2>8 DEF objs, Stages
        <3>2. attachVenueFingerprints(objs) \in Fingerprints
            BY <1>3, AttachType
        <3>3. opp' \in [buyVen : Venues, sellVen : Venues, blockNumber : 0..MaxBlock,
                       stateFingerprint : Fingerprints]
            BY <3>2, <2>2, <2>5, <2>8 DEF Opportunity
        <3>4. snap' \in [blockNumber : 0..MaxBlock, venues : Fingerprints]
            BY <3>2, <2>5, <2>8
        <3>5. QED
            BY <3>1, <3>3, <3>4, <2>8, <1>2 DEF GuardInv, TypeOK, Head_
    <2>10. Blocks' /\ Stamped'
        BY <2>3, <2>8, <1>2 DEF Blocks, Stamped, Held, Based, Committed, Head_
    <2>11. Searched'
        <3>1. Legs' = {p[1], p[2]} /\ pools' = objs
            BY <2>3, <2>8, <1>1 DEF Legs, objs
        <3>2. QED
            BY <3>1, <2>2, <2>3, <2>4, <2>8 DEF Searched, Input
    <2>12. QED
        BY <2>8, <2>9, <2>10, <2>11 DEF GuardInv, Validated, Requoted,
                QuotesAreRecent, Promised, GuardAgrees, Based, Committed
<1>6. QED
    BY <1>1, <1>4, <1>5 DEF Search, EndScan, objs

LEMMA GuardAbandons == GuardInv /\ (LoopError \/ Finish) => GuardInv'
<1> SUFFICES ASSUME GuardInv, LoopError \/ Finish PROVE GuardInv'
    OBVIOUS
<1>1. Rest /\ pc' = "idle" /\ UNCHANGED <<chain, pools>>
    BY DEF LoopError, Finish, EndScan
<1>2. pools' \in [Venues -> Object]
    BY <1>1 DEF GuardInv, TypeOK
<1>3. QED
    BY <1>1, <1>2, GuardEnds

LEMMA GuardFreshBlock == GuardInv /\ FreshBlock => GuardInv'
<1> SUFFICES ASSUME GuardInv, FreshBlock PROVE GuardInv'
    OBVIOUS
<1> USE DEF FreshBlock
<1>1. TypeOK'
    <2>1. Head_ \in 0..MaxBlock
        BY GateNumbers DEF GuardInv, TypeOK
    <2>2. <<opp.buyVen, opp.sellVen>> \in Seq(Venues)
        BY DEF GuardInv, TypeOK
    <2>3. QED
        BY <2>1, <2>2 DEF GuardInv, TypeOK, Stages, Head_
<1>2. Blocks'
    BY GateNumbers DEF GuardInv, TypeOK, Blocks, Held, Based, Committed, Head_
<1>3. Validated'
    BY DEF Validated, Based, Committed
<1>4. Searched'
    BY DEF GuardInv, Searched, Held, Legs, Input
<1>5. QED
    BY <1>1, <1>2, <1>3, <1>4 DEF GuardInv, Stamped, Requoted, QuotesAreRecent,
                                  Promised, GuardAgrees, Committed

\* What a fingerprint is equal to, it is equal to in content.
LEMMA GuardCheckVenue == GuardInv /\ CheckVenue => GuardInv'
<1> SUFFICES ASSUME GuardInv, CheckVenue PROVE GuardInv'
    OBVIOUS
<1> DEFINE v == Head(fresh.todo)
<1>1. PICK ok \in ReadSets({v}), deep \in ReadSets({v} \cap DeepVenues) :
        LET fp == venueFingerprint(v, FreshVenue(v, v \in ok, v \in deep))
        IN  IF fp # NoFp /\ fp = opp.stateFingerprint[v]
            THEN /\ fresh' = [fresh EXCEPT !.todo = Tail(@)]
                 /\ pc' = IF Len(fresh.todo) = 1 THEN "requote" ELSE "check"
                 /\ UNCHANGED <<snap, opp, quote, executedOn>>
            ELSE EndScan
    BY DEF CheckVenue
<1> DEFINE fp == venueFingerprint(v, FreshVenue(v, v \in ok, v \in deep))
<1>2. pc = "check" /\ UNCHANGED <<chain, pools>>
    BY DEF CheckVenue
<1>3. fresh.todo \in Seq(Venues) /\ opp.buyVen \in Venues /\ opp.sellVen \in Venues
    BY DEF GuardInv, TypeOK
<1>4. \/ fresh.todo = <<opp.buyVen, opp.sellVen>>
      \/ fresh.todo = <<opp.sellVen>> /\ FreshLeg(opp.buyVen)
    BY <1>2 DEF GuardInv, Validated
<1>5. v \in Venues
    BY <1>3, <1>4
<1>6. CASE fp # NoFp /\ fp = opp.stateFingerprint[v]
    <2>1. /\ fresh' = [fresh EXCEPT !.todo = Tail(@)]
          /\ pc' = IF Len(fresh.todo) = 1 THEN "requote" ELSE "check"
          /\ UNCHANGED <<snap, opp, quote, executedOn>>
        BY <1>1, <1>6
    <2>2. FreshLeg(v)
        BY <1>5, <1>6, FreshFingerprint DEF FreshLeg
    <2>3. fresh'.blockNumber = fresh.blockNumber /\ fresh'.todo = Tail(fresh.todo)
        BY <2>1 DEF GuardInv, TypeOK
    <2>4. \A w \in Venues : FreshLeg(w)' <=> FreshLeg(w)
        BY <1>2, <2>1, <2>3 DEF FreshLeg
    <2>5. CASE fresh.todo = <<opp.buyVen, opp.sellVen>>
        <3>1. pc' = "check" /\ fresh'.todo = <<opp.sellVen>> /\ v = opp.buyVen
            BY <2>1, <2>3, <2>5, <1>3
        <3>2. TypeOK'
            <4>1. fresh' = [fresh EXCEPT !.todo = Tail(fresh.todo)]
                BY <2>1
            <4>2. Tail(fresh.todo) \in Seq(Venues)
                <5>1. Tail(fresh.todo) \in {<<>>, <<opp.sellVen>>}
                    BY <2>3, <3>1
                <5>2. <<>> \in Seq(Venues) /\ <<opp.sellVen>> \in Seq(Venues)
                    BY <1>3
                <5>3. QED
                    BY <5>1, <5>2
            <4>3. fresh' \in [blockNumber : 0..MaxBlock, todo : Seq(Venues)]
                BY <4>1, <4>2 DEF GuardInv, TypeOK
            <4>4. QED
                BY <4>3, <3>1, <2>1, <1>2 DEF GuardInv, TypeOK, Stages, Head_
        <3>3. Blocks'
            BY <3>1, <2>1, <2>3, <1>2 DEF GuardInv, Blocks, Held, Based, Committed, Head_
        <3>4. Validated'
            BY <3>1, <2>1, <2>2, <2>4, <1>3 DEF Validated, Based, Committed
        <3>5. Searched'
            BY <3>1, <2>1, <1>2 DEF GuardInv, Searched, Held, Legs, Input
        <3>6. QED
            BY <3>1, <3>2, <3>3, <3>4, <3>5 DEF GuardInv, Stamped, Requoted,
                QuotesAreRecent, Promised, GuardAgrees, Committed
    <2>6. CASE fresh.todo = <<opp.sellVen>> /\ FreshLeg(opp.buyVen)
        <3>1. pc' = "requote" /\ fresh'.todo = <<>> /\ v = opp.sellVen
            BY <2>1, <2>3, <2>6, <1>3
        <3>2. TypeOK'
            <4>1. fresh' = [fresh EXCEPT !.todo = Tail(fresh.todo)]
                BY <2>1
            <4>2. Tail(fresh.todo) \in Seq(Venues)
                <5>1. Tail(fresh.todo) \in {<<>>, <<opp.sellVen>>}
                    BY <2>3, <3>1
                <5>2. <<>> \in Seq(Venues) /\ <<opp.sellVen>> \in Seq(Venues)
                    BY <1>3
                <5>3. QED
                    BY <5>1, <5>2
            <4>3. fresh' \in [blockNumber : 0..MaxBlock, todo : Seq(Venues)]
                BY <4>1, <4>2 DEF GuardInv, TypeOK
            <4>4. QED
                BY <4>3, <3>1, <2>1, <1>2 DEF GuardInv, TypeOK, Stages, Head_
        <3>3. Blocks'
            BY <3>1, <2>1, <2>3, <1>2 DEF GuardInv, Blocks, Held, Based, Committed, Head_
        <3>4. Validated'
            BY <3>1, <2>1, <2>2, <2>4, <2>6, <1>3 DEF Validated, Based, Committed, Legs
        <3>5. Searched'
            BY <3>1, <2>1, <1>2 DEF GuardInv, Searched, Held, Legs, Input
        <3>6. QED
            BY <3>1, <3>2, <3>3, <3>4, <3>5 DEF GuardInv, Stamped, Requoted,
                QuotesAreRecent, Promised, GuardAgrees, Committed
    <2>7. QED
        BY <1>4, <2>5, <2>6
<1>7. CASE ~(fp # NoFp /\ fp = opp.stateFingerprint[v])
    <2>1. EndScan
        BY <1>1, <1>7
    <2>2. pools' \in [Venues -> Object]
        BY <1>2 DEF GuardInv, TypeOK
    <2>3. QED
        BY <1>2, <2>1, <2>2, GuardEnds DEF EndScan
<1>8. QED
    BY <1>6, <1>7

\* A leg's state after the requote's read is that of the validated block or of
\* the head.
LEMMA GuardRequoteRead == GuardInv /\ RequoteRead => GuardInv'
<1> SUFFICES ASSUME GuardInv, RequoteRead PROVE GuardInv'
    OBVIOUS
<1> DEFINE live == {v \in {opp.buyVen, opp.sellVen} : ~pools[v].dead}
<1>1. PICK ok \in ReadSets(live) : pools' = readState(pools, live, ok, Head_, FALSE)
    BY DEF RequoteRead
<1>2. /\ pc = "requote" /\ pc' = "quote"
      /\ UNCHANGED <<chain, snap, opp, fresh, quote, executedOn>>
    BY DEF RequoteRead
<1>3. Head_ \in 1..Head_
    BY GateNumbers DEF GuardInv, TypeOK
<1>4. pools' \in [Venues -> Object]
    BY <1>1, <1>3, ReadStateType DEF GuardInv, TypeOK
<1>5. TypeOK'
    BY <1>2, <1>4 DEF GuardInv, TypeOK, Stages, Head_
<1>6. Blocks'
    BY <1>2 DEF GuardInv, Blocks, Held, Based, Committed, Head_
<1>7. Validated'
    BY <1>2 DEF GuardInv, Validated, FreshLeg, Legs, Based, Committed
<1>8. Requoted'
    <2> SUFFICES ASSUME NEW v \in Legs PROVE Recent(v, Input(v, pools[v]))'
        BY <1>2 DEF Requoted, Legs
    <2>1. v \in Venues
        BY DEF Legs, GuardInv, TypeOK
    <2>2. Input(v, pools[v]) = chain[fresh.blockNumber][v]
        BY <1>2 DEF GuardInv, Searched, Validated, FreshLeg, Held, Based
    <2>3. pools'[v] = IF v \in ok THEN ReadInto(pools[v], chain[Head_][v]) ELSE pools[v]
        BY <1>1, <2>1 DEF readState
    <2>4. pools[v] \in Object
        BY <2>1 DEF GuardInv, TypeOK
    <2>5. Input(v, pools'[v]) \in {chain[fresh.blockNumber][v], chain[Head_][v]}
        BY <2>2, <2>3, <2>4 DEF Input, ReadInto, Object
    <2>6. /\ fresh.blockNumber \in fresh.blockNumber..Head_
          /\ Head_ \in fresh.blockNumber..Head_
        <3>1. fresh.blockNumber \in opp.blockNumber..Head_ /\ opp.blockNumber \in 1..Head_
            BY <1>2 DEF GuardInv, Blocks, Held, Based
        <3>2. QED
            BY <3>1, <1>3
    <2>7. \E b \in fresh.blockNumber..Head_ : Input(v, pools'[v]) = chain[b][v]
        BY <2>5, <2>6
    <2>8. QED
        BY <2>7, <1>2 DEF Recent, Input, Head_
<1>9. QED
    BY <1>2, <1>5, <1>6, <1>7, <1>8 DEF GuardInv, Stamped, Searched, QuotesAreRecent,
                                        Promised, GuardAgrees, Held, Committed

\* What a requote commits to: its states are recent, its result exceeds the
\* margin.
LEMMA GuardRequote == GuardInv /\ Requote => GuardInv'
<1> SUFFICES ASSUME GuardInv, Requote PROVE GuardInv'
    OBVIOUS
<1> DEFINE b == Input(opp.buyVen, pools[opp.buyVen])
           s == Input(opp.sellVen, pools[opp.sellVen])
<1>1. pc = "quote" /\ UNCHANGED <<chain, pools>>
    BY DEF Requote
<1>2. CASE /\ Head_ - opp.blockNumber <= MaxAge
           /\ Gain(b, s) - Margin > 0
           /\ quote' = [blockNumber |-> Head_, buy |-> b, sell |-> s]
           /\ pc' = "simulate"
           /\ UNCHANGED <<snap, opp, fresh, executedOn>>
    <2>1. opp.buyVen \in Venues /\ opp.sellVen \in Venues
        BY DEF GuardInv, TypeOK
    <2>2. /\ opp.blockNumber \in 1..Head_ /\ fresh.blockNumber \in opp.blockNumber..Head_
          /\ Head_ \in Nat /\ Head_ \in 0..MaxBlock
        BY <1>1, GateNumbers DEF GuardInv, TypeOK, Blocks, Based
    <2>3. b \in States /\ s \in States
        <3>1. Recent(opp.buyVen, b) /\ Recent(opp.sellVen, s)
            BY <1>1 DEF GuardInv, Requoted, Legs
        <3>2. \A c \in fresh.blockNumber..Head_ : c \in 1..Head_
            BY <2>2
        <3>3. QED
            BY <3>1, <3>2, <2>1, ChainStates DEF Recent, GuardInv
    <2>4. TypeOK'
        <3>1. quote' \in [blockNumber : 0..MaxBlock, buy : Values, sell : Values]
            BY <1>2, <2>2, <2>3 DEF Values
        <3>2. QED
            BY <3>1, <1>1, <1>2 DEF GuardInv, TypeOK, Stages, Head_
    <2>5. Blocks'
        BY <1>1, <1>2, <2>2, GateNumbers DEF Blocks, Held, Based, Committed, Head_
    <2>6. Validated'
        BY <1>1, <1>2 DEF GuardInv, Validated, FreshLeg, Legs, Based, Committed
    <2>7. QuotesAreRecent'
        BY <1>1, <1>2 DEF GuardInv, Requoted, Recent, Legs, QuotesAreRecent
    <2>8. Promised'
        <3>1. b # Unread /\ s # Unread
            BY <2>3, StatesRead
        <3>2. Net[b, s] - Margin > 0
            BY <3>1, <1>2 DEF Gain
        <3>3. QED
            BY <3>2, <2>3, <1>2 DEF Promised
    <2>9. QED
        BY <1>2, <2>4, <2>5, <2>6, <2>7, <2>8
           DEF GuardInv, Stamped, Searched, Requoted, GuardAgrees, Held
<1>3. CASE EndScan
    BY <1>1, <1>3, GuardEnds DEF EndScan, GuardInv, TypeOK
<1>4. QED
    BY <1>2, <1>3 DEF Requote

LEMMA GuardSimulate == GuardInv /\ Simulate => GuardInv'
<1> SUFFICES ASSUME GuardInv, Simulate PROVE GuardInv'
    OBVIOUS
<1>1. pc \in {"simulate", "submit"} /\ UNCHANGED <<chain, pools>>
    BY DEF Simulate
<1>2. CASE pc' \in {"submit", "sent"} /\ UNCHANGED <<snap, opp, fresh, quote, executedOn>>
    <2>1. TypeOK'
        BY <1>1, <1>2 DEF GuardInv, TypeOK, Stages, Head_
    <2>2. Blocks' /\ Validated'
        BY <1>1, <1>2 DEF GuardInv, Blocks, Validated, FreshLeg, Legs, Held, Based,
                          Committed, Head_
    <2>3. QuotesAreRecent' /\ Promised'
        BY <1>1, <1>2 DEF GuardInv, QuotesAreRecent, Promised, Committed
    <2>4. QED
        BY <1>1, <1>2, <2>1, <2>2, <2>3
           DEF GuardInv, Stamped, Searched, Requoted, GuardAgrees, Held
<1>3. CASE EndScan
    BY <1>1, <1>3, GuardEnds DEF EndScan, GuardInv, TypeOK
<1>4. QED
    BY <1>2, <1>3 DEF Simulate

LEMMA GuardInclude == GuardInv /\ Include => GuardInv'
<1> SUFFICES ASSUME GuardInv, Include PROVE GuardInv'
    OBVIOUS
<1>1. /\ pc = "sent" /\ pc' \in {"mined", "reverted"}
      /\ UNCHANGED <<chain, pools, snap, opp, fresh, quote>>
      /\ \/ executedOn' = executedOn /\ pc' = "reverted"
         \/ executedOn' \in [Venues -> States] /\ Completes(executedOn')
    BY DEF Include
<1>2. TypeOK'
    <2>1. executedOn' \in [Venues -> Values]
        BY <1>1 DEF GuardInv, TypeOK, Values
    <2>2. QED
        BY <2>1, <1>1 DEF GuardInv, TypeOK, Stages, Head_
<1>3. Blocks' /\ Validated'
    BY <1>1 DEF GuardInv, Blocks, Validated, FreshLeg, Legs, Held, Based, Committed, Head_
<1>4. QuotesAreRecent' /\ Promised'
    BY <1>1 DEF GuardInv, QuotesAreRecent, Promised, Completes, Committed
<1>5. QED
    BY <1>1, <1>2, <1>3, <1>4 DEF GuardInv, Stamped, Searched, Requoted, GuardAgrees, Held

LEMMA GuardStutter == GuardInv /\ UNCHANGED vars => GuardInv'
BY DEF GuardInv, vars, TypeOK, Head_, Blocks, Stamped, Searched, Validated, FreshLeg,
       Requoted, Recent, QuotesAreRecent, Promised, Completes, GuardAgrees, Legs, Input

LEMMA GuardStep == GuardInv /\ [Next]_vars => GuardInv'
BY GuardNewBlock, GuardReads, GuardSearch, GuardAbandons, GuardFreshBlock,
   GuardCheckVenue, GuardRequoteRead, GuardRequote, GuardSimulate, GuardInclude,
   GuardStutter DEF Next
-----------------------------------------------------------------------------
(* The theorems.                                                             *)

\* The inductive invariant holds of every behaviour of the pipeline.
THEOREM GuardInvariant == Spec => []GuardInv
BY GuardInit, GuardStep, PTL DEF Spec

\* The values of snapshots, venues and opportunities keep their types.
THEOREM ExecutionGuardTypes == Spec => []TypeOK
<1>1. GuardInv => TypeOK
    BY DEF GuardInv
<1>2. QED
    BY <1>1, GuardInvariant, PTL

\* fresh.js and the age gate: nothing is simulated or sent that was not found
\* equal, at one recent block, to what the search had used.
THEOREM SentIsRevalidated == Spec => []SentWasRevalidated
<1>1. GuardInv => SentWasRevalidated
    <2> SUFFICES ASSUME GuardInv, pc \in Committed PROVE SentWasRevalidated
        BY DEF SentWasRevalidated
    <2>1. /\ fresh.blockNumber \in opp.blockNumber..Head_
          /\ quote.blockNumber \in fresh.blockNumber..Head_
          /\ quote.blockNumber <= opp.blockNumber + MaxAge
        BY DEF GuardInv, Blocks, Based
    <2>2. \A v \in Legs : FreshLeg(v)
        BY DEF GuardInv, Validated, Based, Committed
    <2>3. QED
        BY <2>1, <2>2 DEF SentWasRevalidated, Legs, FreshLeg
<1>2. QED
    BY <1>1, GuardInvariant, PTL

\* Partly renewed or not, the states behind a transaction's minimum profit are
\* states of blocks between the validation and the requote.
THEOREM SentQuotesAreRecent == Spec => []QuotesAreRecent
<1>1. GuardInv => QuotesAreRecent
    BY DEF GuardInv
<1>2. QED
    BY <1>1, GuardInvariant, PTL

\* What the search finds is never rejected by validateSnapshot() of its scan.
THEOREM SearchPassesGuard == Spec => []GuardAgrees
<1>1. GuardInv => GuardAgrees
    BY DEF GuardInv
<1>2. QED
    BY <1>1, GuardInvariant, PTL

\* A transaction that succeeds leaves a gain.
THEOREM MinedTransactionGains == Spec => []MinedIsGain
<1>1. GuardInv => MinedIsGain
    <2> SUFFICES ASSUME GuardInv, pc = "mined"
                 PROVE  Net[executedOn[opp.buyVen], executedOn[opp.sellVen]] > 0
        BY DEF MinedIsGain
    <2>1. /\ quote.buy \in States /\ quote.sell \in States
          /\ Net[quote.buy, quote.sell] - Margin > 0
          /\ executedOn \in [Venues -> States] /\ Completes(executedOn)
        BY DEF GuardInv, Promised, Committed
    <2>2. opp.buyVen \in Venues /\ opp.sellVen \in Venues
        BY DEF GuardInv, TypeOK
    <2>3. /\ Net[quote.buy, quote.sell] \in Int
          /\ Net[executedOn[opp.buyVen], executedOn[opp.sellVen]] \in Int
        BY <2>1, <2>2, NetType
    <2>4. Net[executedOn[opp.buyVen], executedOn[opp.sellVen]]
            >= Net[quote.buy, quote.sell] - Margin
        BY <2>1 DEF Completes
    <2>5. ASSUME NEW n \in Int, NEW q \in Int, n >= q - Margin, q - Margin > 0
          PROVE  n > 0
        BY <2>5, GateNumbers
    <2>6. QED
        BY <2>1, <2>3, <2>4, <2>5
<1>2. QED
    BY <1>1, GuardInvariant, PTL
=============================================================================
