------------------------------ MODULE LedgerProofs ------------------------------
(***************************************************************************)
(* The two ledgers tell the truth about any number of transactions, tokens   *)
(* and transfers: what they record, and the totals they add up.              *)
(***************************************************************************)
EXTENDS Ledger, TLAPS

-----------------------------------------------------------------------------
(* Types                                                                     *)

\* A caller's balances: the trade's profit is what is left of their difference
\* once the loan and the transfers are taken out.
LEMMA GrossIsProfit ==
    ASSUME NEW h \in Hashes, NEW d \in Data(h)
    PROVE  /\ d.gas \in Nat \cup {null}
           /\ GrossProfit(d) \in Int
           /\ fate[h] = "success" => GrossProfit(d) = Profit[h]
<1>1. PICK i \in Transfers, o \in Transfers, g \in Declared \cup {null} :
        d = [before |-> Wallet, borrowed |-> Principal, repaid |-> Principal,
             inflow |-> i, outflow |-> o, gas |-> g,
             after |-> Wallet + i - o + (IF fate[h] = "success" THEN Profit[h] ELSE 0)]
  BY DEF Data
<1>2. i \in Int /\ o \in Int /\ Wallet \in Int /\ Principal \in Int /\ Profit[h] \in Int
  BY Amounts, HashNumbers
<1> QED
  BY <1>1, <1>2, Amounts DEF GrossProfit

\* A receipt that is accepted for h says what the chain did with h.
LEMMA ReceiptIsTrue ==
    ASSUME NEW h \in Hashes, NEW r \in Receipts \cup {null}, validateReceipt(r, h), r # null
    PROVE  r.hash = h /\ (r.success <=> fate[h] = "success") /\ r.success \in BOOLEAN
<1>1. r.hash = h
  BY DEF validateReceipt
<1>2. PICK g \in Hashes : r = [hash |-> g, success |-> fate[g] = "success"]
  BY DEF Receipts
<1>3. r.hash = g /\ r.success = (fate[g] = "success")
  BY <1>2
<1> QED
  BY <1>1, <1>3

\* What recordPnL() stores.
LEMMA RecordFacts ==
    ASSUME NEW h \in Hashes, NEW r \in Receipts \cup {null}, validateReceipt(r, h),
           NEW d \in Data(h)
    PROVE  LET p == PnL(h, r, d)
           IN  /\ p \in PnLRecord
               /\ p.token = TokenOf[h]
               /\ p.gross # null => fate[h] = "success" /\ p.gross = Profit[h]
<1> DEFINE gross == IF r # null /\ r.success THEN GrossProfit(d) ELSE null
           gas == IF r # null THEN GasCost[r.hash] ELSE d.gas
           net == IF gross # null /\ gas # null /\ TokenOf[h] = Native
                  THEN gross - gas ELSE null
           reverted == r # null /\ ~r.success
           status == CASE gross # null -> "REALIZED"
                       [] reverted -> "INCOMPLETE"
                       [] OTHER -> "UNKNOWN"
<1>1. /\ gross \in Int \cup {null}
      /\ gross # null => fate[h] = "success" /\ gross = Profit[h]
  BY GrossIsProfit, ReceiptIsTrue
<1>2. gas \in Nat \cup {null}
  BY GrossIsProfit, ReceiptIsTrue, HashNumbers
<1>3. PnL(h, r, d) = [token |-> TokenOf[h], gross |-> gross, gas |-> gas, net |-> net,
                      isReverted |-> reverted,
                      status |-> CASE gross # null -> "REALIZED"
                                   [] r # null /\ ~r.success -> "INCOMPLETE"
                                   [] OTHER -> "UNKNOWN"]
  BY DEF PnL
<1>4. reverted \in BOOLEAN
  BY ReceiptIsTrue
<1> HIDE DEF gross, gas, reverted
<1>5. net \in Int \cup {null}
  BY <1>1, <1>2
<1>6. (CASE gross # null -> "REALIZED" [] r # null /\ ~r.success -> "INCOMPLETE"
        [] OTHER -> "UNKNOWN") \in {"REALIZED", "INCOMPLETE", "UNKNOWN"}
  OBVIOUS
<1> HIDE DEF net
<1> QED
  BY <1>1, <1>2, <1>3, <1>4, <1>5, <1>6, TokenTypes DEF PnLRecord
-----------------------------------------------------------------------------
(* The truth of both ledgers                                                 *)

RecordsAreTrue ==
    \A h \in Recorded :
        /\ records[h].token = TokenOf[h]
        /\ records[h].gross # null => fate[h] = "success" /\ records[h].gross = Profit[h]

ReconciliationsAreTrue ==
    \A h \in Reconciled \ Claimed : reconciliations[h].deviation # null =>
        /\ fate[h] = "success"
        /\ reconciliations[h].token = TokenOf[h]
        /\ reconciliations[h].realized = Profit[h]
        /\ reconciliations[h].expected + reconciliations[h].deviation = Profit[h]

LedgerInv == TypeOK /\ RecordsAreTrue /\ ReconciliationsAreTrue

\* What reconcile() stores.
LEMMA ReconciliationFacts ==
    ASSUME LedgerInv, NEW h \in Hashes, NEW t \in Tokens, NEW n \in {null, ExpectedGross[h]},
           NEW p \in Claims \cup {records[h]}
    PROVE  LET c == Reconciliation(h, t, n, p)
           IN  /\ c \in ReconciliationRecord
               /\ ~c.claimed /\ c.deviation # null =>
                    /\ fate[h] = "success" /\ c.token = TokenOf[h]
                    /\ c.realized = Profit[h]
                    /\ c.expected + c.deviation = Profit[h]
<1> DEFINE realized == IF p = null THEN null ELSE p.gross
           claimed == p # records[h]
           deviation == IF Comparable(t, p) THEN p.gross - ExpectedGross[h] ELSE null
           both == Comparable(t, p) /\ n # null /\ p.net # null
           netDeviation == IF both THEN p.net - n ELSE null
           status == CASE p = null -> "UNKNOWN"
                       [] p # null /\ p.isReverted -> "PARTIAL"
                       [] p # null /\ ~p.isReverted /\ Comparable(t, p) ->
                            IF both THEN "COMPLETE" ELSE "PARTIAL"
                       [] OTHER -> "UNKNOWN"
<1>1. Reconciliation(h, t, n, p) =
        [token |-> t, expected |-> ExpectedGross[h], realized |-> realized,
         claimed |-> claimed, deviation |-> deviation,
         netDeviation |-> netDeviation, status |-> status]
  BY DEF Reconciliation
<1>2. ExpectedGross[h] \in Int /\ Profit[h] \in Int
  BY HashNumbers
<1>3. p # null => /\ p.gross \in Int \cup {null} /\ p.net \in Int \cup {null}
                  /\ p.isReverted \in BOOLEAN
  <2>1. p \in PnLRecord \cup {null}
    BY ClaimTypes DEF LedgerInv, TypeOK
  <2> QED
    BY <2>1 DEF PnLRecord
<1>4. ~claimed /\ p # null /\ p.gross # null =>
        p.token = TokenOf[h] /\ fate[h] = "success" /\ p.gross = Profit[h]
  <2>1. p = records[h] /\ p # null => h \in Recorded
    BY DEF Recorded
  <2> QED
    BY <2>1 DEF LedgerInv, RecordsAreTrue
<1>5. claimed \in BOOLEAN
  OBVIOUS
<1>6. realized \in Int \cup {null} /\ deviation \in Int \cup {null}
  BY <1>2, <1>3 DEF Comparable
<1>7. netDeviation \in Int \cup {null}
  BY <1>2, <1>3 DEF Comparable
<1>8. status \in {"COMPLETE", "PARTIAL", "UNKNOWN"}
  OBVIOUS
<1>9. ~claimed /\ deviation # null =>
        /\ fate[h] = "success" /\ t = TokenOf[h] /\ realized = Profit[h]
        /\ ExpectedGross[h] + deviation = Profit[h]
  BY <1>2, <1>3, <1>4 DEF Comparable
<1> HIDE DEF realized, claimed, deviation, netDeviation, status
<1> QED
  BY <1>1, <1>2, <1>5, <1>6, <1>7, <1>8, <1>9 DEF ReconciliationRecord

\* Nothing is recorded at first.
LEMMA LedgerInit == Init => LedgerInv
  BY DEF Init, LedgerInv, TypeOK, RecordsAreTrue, ReconciliationsAreTrue, Recorded, Reconciled,
     Claimed

\* Every step keeps the invariant of the ledgers.
LEMMA LedgerStep == LedgerInv /\ [Next]_vars => LedgerInv'
<1> SUFFICES ASSUME LedgerInv, [Next]_vars PROVE LedgerInv'
  OBVIOUS
<1> USE DEF LedgerInv
<1>1. ASSUME NEW h \in Hashes, Mine(h) PROVE LedgerInv'
  <2>1. PICK f \in {"success", "reverted"} : fate' = [fate EXCEPT ![h] = f]
    BY <1>1 DEF Mine
  <2>2. fate[h] = "pending" /\ UNCHANGED <<records, reconciliations>>
    BY <1>1 DEF Mine
  <2>3. TypeOK'
    BY <2>1, <2>2 DEF TypeOK
  <2>4. \A k \in Hashes : fate[k] = "success" => fate'[k] = "success"
    BY <2>1, <2>2 DEF TypeOK
  <2>5. RecordsAreTrue'
    BY <2>2, <2>4 DEF RecordsAreTrue, Recorded
  <2>6. ReconciliationsAreTrue'
    BY <2>2, <2>4 DEF ReconciliationsAreTrue, Reconciled, Claimed
  <2> QED
    BY <2>3, <2>5, <2>6
<1>2. ASSUME NEW h \in Hashes, RecordPnL(h) PROVE LedgerInv'
  <2>1. PICK r \in Receipts \cup {null}, d \in Data(h) :
            validateReceipt(r, h) /\ records' = [records EXCEPT ![h] = PnL(h, r, d)]
    BY <1>2 DEF RecordPnL
  <2>2. UNCHANGED <<fate, reconciliations>>
    BY <1>2 DEF RecordPnL
  <2> DEFINE p == PnL(h, r, d)
  <2>3. /\ p \in PnLRecord /\ p.token = TokenOf[h]
        /\ p.gross # null => fate[h] = "success" /\ p.gross = Profit[h]
    BY <2>1, RecordFacts
  <2> HIDE DEF p
  <2>4. \A k \in Hashes : records'[k] = IF k = h THEN p ELSE records[k]
    BY <2>1 DEF TypeOK, p
  <2>5. TypeOK'
    BY <2>1, <2>2, <2>3 DEF TypeOK, p
  <2>6. RecordsAreTrue'
    BY <2>2, <2>3, <2>4 DEF RecordsAreTrue, Recorded
  <2>7. ReconciliationsAreTrue'
    BY <2>2 DEF ReconciliationsAreTrue, Reconciled, Claimed
  <2> QED
    BY <2>5, <2>6, <2>7
<1>3. ASSUME NEW h \in Hashes, Reconcile(h) PROVE LedgerInv'
  <2>1. PICK t \in Tokens, n \in {null, ExpectedGross[h]}, p \in Claims \cup {records[h]} :
            reconciliations' = [reconciliations EXCEPT ![h] = Reconciliation(h, t, n, p)]
    BY <1>3 DEF Reconcile
  <2>2. UNCHANGED <<fate, records>>
    BY <1>3 DEF Reconcile
  <2> DEFINE c == Reconciliation(h, t, n, p)
  <2>3. /\ c \in ReconciliationRecord
        /\ ~c.claimed /\ c.deviation # null =>
            /\ fate[h] = "success" /\ c.token = TokenOf[h]
            /\ c.realized = Profit[h]
            /\ c.expected + c.deviation = Profit[h]
    BY ReconciliationFacts
  <2> HIDE DEF c
  <2>4. \A k \in Hashes : reconciliations'[k] = IF k = h THEN c ELSE reconciliations[k]
    BY <2>1 DEF TypeOK, c
  <2>5. TypeOK'
    BY <2>1, <2>2, <2>3 DEF TypeOK, c
  <2>6. RecordsAreTrue'
    BY <2>2 DEF RecordsAreTrue, Recorded
  <2>7. ReconciliationsAreTrue'
    BY <2>2, <2>3, <2>4 DEF ReconciliationsAreTrue, Reconciled, Claimed
  <2> QED
    BY <2>5, <2>6, <2>7
<1>4. CASE UNCHANGED vars
  BY <1>4 DEF vars, TypeOK, RecordsAreTrue, ReconciliationsAreTrue, Recorded, Reconciled,
     Claimed
<1> QED
  BY <1>1, <1>2, <1>3, <1>4 DEF Next

\* The invariant of the ledgers.
LEMMA LedgerInvariant == Spec => []LedgerInv
  BY LedgerInit, LedgerStep, PTL DEF Spec

\* Every variable of the ledgers keeps its type.
THEOREM LedgerTypes == Spec => []TypeOK
  BY LedgerInvariant, PTL DEF LedgerInv

\* A deviation computed from a record of PnLTracker remains the difference
\* between what the trade added to the wallet and what was expected, in the
\* trade's own token.
THEOREM DeviationsAreTrue == Spec => []DeviationIsTrue
<1>1. LedgerInv => DeviationIsTrue
  BY DEF LedgerInv, ReconciliationsAreTrue, DeviationIsTrue
<1> QED
  BY <1>1, LedgerInvariant, PTL
-----------------------------------------------------------------------------
(* The totals.  Two folds over one set are equal when the summands are, for   *)
(* they solve the same equation: no induction is needed.                     *)

Chosen(s) == CHOOSE x \in s : TRUE
Sum(f, g, s) == IF s = {} THEN 0 ELSE f[Chosen(s)] + g[s \ {Chosen(s)}]
Sums(f, S) == CHOOSE g : g = [s \in SUBSET S |-> Sum(f, g, s)]

\* Equal summands have one sum.
LEMMA EqualSummands ==
    ASSUME NEW f, NEW h, NEW S, \A x \in S : f[x] = h[x]
    PROVE  Sums(f, S) = Sums(h, S)
<1>1. \A g : [s \in SUBSET S |-> Sum(f, g, s)] = [s \in SUBSET S |-> Sum(h, g, s)]
  <2>1. \A s \in SUBSET S : s # {} => Chosen(s) \in S
    BY DEF Chosen
  <2> QED
    BY <2>1 DEF Sum
<1> QED
  BY <1>1 DEF Sums

\* Of transactions that succeeded, Earned is the sum of their profits.
LEMMA EarnedIsSum ==
    ASSUME NEW S, \A h \in S : fate[h] = "success"
    PROVE  Earned(S) = Sums(Profit, S)[S]
<1>1. {h \in S : fate[h] = "success"} = S
  OBVIOUS
<1>2. Earned(S) = MapThenSumSet(LAMBDA h : Profit[h], S)
  BY <1>1 DEF Earned
<1> QED
  BY <1>2 DEF MapThenSumSet, MapThenFoldSet, Sums, Sum, Chosen

\* The total of any token is what its recorded transactions added to the
\* wallet; in the other ledger too, as long as no caller made up a record it adds.
THEOREM TotalsAreEarned == Spec => []TotalIsEarned
<1>1. LedgerInv => TotalIsEarned
  <2> SUFFICES ASSUME LedgerInv, NEW t \in Tokens
               PROVE  /\ PnLTotal(t, "gross") = Earned(Known(t, "gross"))
                      /\ Compared(t) \cap Claimed = {} =>
                            realizedGrossRaw(t) = Earned(Compared(t))
    BY DEF TotalIsEarned
  <2>1. PnLTotal(t, "gross") = Earned(Known(t, "gross"))
    <3> DEFINE S == Known(t, "gross")
               f == [h \in S |-> records[h].gross]
    <3>1. \A h \in S : fate[h] = "success" /\ f[h] = Profit[h]
      BY DEF Known, LedgerInv, RecordsAreTrue
    <3>2. PnLTotal(t, "gross") = Sums(f, S)[S]
      <4> DEFINE F(g) == [s \in SUBSET S |-> Sum(f, g, s)]
                 R(g) == [s \in SUBSET S |-> IF s = {} THEN 0
                            ELSE records[Chosen(s)].gross + g[s \ {Chosen(s)}]]
      <4>1. \A g : F(g) = R(g)
        <5>1. \A s \in SUBSET S : s # {} => Chosen(s) \in S
          BY DEF Chosen
        <5> QED
          BY <5>1 DEF Sum
      <4>2. PnLTotal(t, "gross") = (CHOOSE g : g = R(g))[S]
        BY DEF PnLTotal, MapThenSumSet, MapThenFoldSet, Chosen
      <4>3. Sums(f, S) = CHOOSE g : g = F(g)
        BY DEF Sums
      <4> HIDE DEF F, R
      <4> QED
        BY <4>1, <4>2, <4>3
    <3> QED
      BY <3>1, <3>2, EqualSummands, EarnedIsSum
  <2>2. ASSUME Compared(t) \cap Claimed = {}
        PROVE  realizedGrossRaw(t) = Earned(Compared(t))
    <3> DEFINE S == Compared(t)
               f == [h \in S |-> reconciliations[h].realized]
    <3>1. \A h \in S : fate[h] = "success" /\ f[h] = Profit[h]
      BY <2>2 DEF Compared, Of, LedgerInv, ReconciliationsAreTrue
    <3>2. realizedGrossRaw(t) = Sums(f, S)[S]
      <4> DEFINE F(g) == [s \in SUBSET S |-> Sum(f, g, s)]
                 R(g) == [s \in SUBSET S |-> IF s = {} THEN 0
                            ELSE reconciliations[Chosen(s)].realized + g[s \ {Chosen(s)}]]
      <4>1. \A g : F(g) = R(g)
        <5>1. \A s \in SUBSET S : s # {} => Chosen(s) \in S
          BY DEF Chosen
        <5> QED
          BY <5>1 DEF Sum
      <4>2. realizedGrossRaw(t) = (CHOOSE g : g = R(g))[S]
        BY DEF realizedGrossRaw, MapThenSumSet, MapThenFoldSet, Chosen
      <4>3. Sums(f, S) = CHOOSE g : g = F(g)
        BY DEF Sums
      <4> HIDE DEF F, R
      <4> QED
        BY <4>1, <4>2, <4>3
    <3> QED
      BY <3>1, <3>2, EqualSummands, EarnedIsSum
  <2> QED
    BY <2>1, <2>2
<1> QED
  BY <1>1, LedgerInvariant, PTL
=============================================================================
