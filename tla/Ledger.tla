--------------------------------- MODULE Ledger ---------------------------------
(***************************************************************************)
(* The two in-memory ledgers of a trade's result: bot/pnl.js records what a  *)
(* transaction realized, bot/reconciliation.js compares it with what was     *)
(* expected of it.  Both take the first record of a hash for ever, whether   *)
(* its result was known by then or not.                                      *)
(*                                                                           *)
(* Hashes are the transactions of a wallet; those with one nonce replace     *)
(* each other, and the chain mines at most one of them.  The caller hands in *)
(* the balances around the transaction, the flash loan's principal and the   *)
(* transfers that happened meanwhile, and a receipt it may have mixed up.    *)
(* To reconcile() it may also hand a realized record of its own making, of   *)
(* which only the hash is checked.                                           *)
(* Comparison of gas follows that of gross, in one unit, and is left out, as *)
(* are basis points and addresses, which only formats and filters read.      *)
(***************************************************************************)
EXTENDS Integers, FiniteSets, FiniteSetsExt

CONSTANTS
    Hashes,
    NonceOf,        \* the nonce of a transaction
    Tokens,         \* settlement tokens
    Native,         \* the zero address, in which gas is paid
    TokenOf,        \* the settlement token of a transaction
    Profit,         \* what it adds to the wallet when it succeeds
    GasCost,        \* gas used times price, from its receipt
    Declared,       \* gas costs a caller may declare without a receipt
    ExpectedGross,  \* what the search promised
    Wallet,         \* the balance before the transaction
    Principal,      \* the flash loan, borrowed and repaid within it
    Transfers,      \* amounts that may enter or leave the wallet meanwhile
    Claims,         \* realized records that a caller may make up
    null

ASSUME HashNumbers ==
    /\ Profit \in [Hashes -> Int] /\ ExpectedGross \in [Hashes -> Int]
    /\ GasCost \in [Hashes -> Nat]
ASSUME TokenTypes == TokenOf \in [Hashes -> Tokens]
ASSUME Amounts ==
    Wallet \in Nat /\ Principal \in Nat /\ Transfers \subseteq Nat /\ Declared \subseteq Nat

PnLRecord ==
    [token : Tokens, gross : Int \cup {null}, gas : Nat \cup {null},
     net : Int \cup {null}, isReverted : BOOLEAN,
     status : {"REALIZED", "INCOMPLETE", "UNKNOWN"}]
ASSUME ClaimTypes == Claims \subseteq PnLRecord

VARIABLES
    fate,               \* what the chain did with each transaction
    records,            \* PnLTracker._records
    reconciliations     \* ReconciliationTracker._records

vars == <<fate, records, reconciliations>>

Recorded == {h \in Hashes : records[h] # null}
Reconciled == {h \in Hashes : reconciliations[h] # null}

Init ==
    /\ fate = [h \in Hashes |-> "pending"]
    /\ records = [h \in Hashes |-> null]
    /\ reconciliations = [h \in Hashes |-> null]

\* External: a nonce is used once.
Mine(h) ==
    /\ \A g \in Hashes : NonceOf[g] = NonceOf[h] => fate[g] = "pending"
    /\ \E f \in {"success", "reverted"} : fate' = [fate EXCEPT ![h] = f]
    /\ UNCHANGED <<records, reconciliations>>
-----------------------------------------------------------------------------
(* PnLTracker                                                                *)

\* External: the receipts a node can give, and what else a caller passes.
Receipts == {[hash |-> h, success |-> fate[h] = "success"] :
                h \in {g \in Hashes : fate[g] # "pending"}}
Data(h) ==
    {[before |-> Wallet, borrowed |-> Principal, repaid |-> Principal,
      inflow |-> i, outflow |-> o, gas |-> g,
      after |-> Wallet + i - o + (IF fate[h] = "success" THEN Profit[h] ELSE 0)] :
        i, o \in Transfers, g \in Declared \cup {null}}

\* A receipt of another transaction is refused; none at all is not.
validateReceipt(r, h) == r # null => r.hash = h

MutGrossProfit(d) == d.after - d.before - d.borrowed - d.inflow + d.outflow
GrossProfit(d) ==
    d.after - d.before - d.borrowed + d.repaid - d.inflow + d.outflow

PnL(h, r, d) ==
    LET gross == IF r # null /\ r.success THEN GrossProfit(d) ELSE null
        gas == IF r # null THEN GasCost[r.hash] ELSE d.gas
    IN  [token |-> TokenOf[h],
         gross |-> gross,
         gas |-> gas,
         net |-> IF gross # null /\ gas # null /\ TokenOf[h] = Native
                 THEN gross - gas ELSE null,
         isReverted |-> r # null /\ ~r.success,
         status |-> CASE gross # null -> "REALIZED"
                      [] r # null /\ ~r.success -> "INCOMPLETE"
                      [] OTHER -> "UNKNOWN"]

\* recordPnL(): a hash already recorded is returned as it is.
RecordPnL(h) ==
    /\ h \notin Recorded
    /\ \E r \in Receipts \cup {null}, d \in Data(h) :
        /\ validateReceipt(r, h)
        /\ records' = [records EXCEPT ![h] = PnL(h, r, d)]
    /\ UNCHANGED <<fate, reconciliations>>

\* aggregatePnL(): the totals of one token, over the values that are there.
Known(t, field) == {h \in Recorded : records[h].token = t /\ records[h][field] # null}
PnLTotal(t, field) == MapThenSumSet(LAMBDA h : records[h][field], Known(t, field))
-----------------------------------------------------------------------------
(* ReconciliationTracker                                                     *)

\* _buildReconciliation() of an expected gross result in token t.
MutComparable(t, p) == p # null /\ p.gross # null
Comparable(t, p) == p # null /\ p.token = t /\ p.gross # null

\* `claimed` is a ghost: the code stores PnLTracker as the source of any realized
\* record, wherever it came from.
Reconciliation(h, t, expectedNet, p) ==
    LET net == Comparable(t, p) /\ expectedNet # null /\ p.net # null
    IN  [token |-> t,
         expected |-> ExpectedGross[h],
         realized |-> IF p = null THEN null ELSE p.gross,
         claimed |-> p # records[h],
         deviation |-> IF Comparable(t, p) THEN p.gross - ExpectedGross[h] ELSE null,
         netDeviation |-> IF net THEN p.net - expectedNet ELSE null,
         status |-> CASE p = null -> "UNKNOWN"
                      [] p # null /\ p.isReverted -> "PARTIAL"
                      [] p # null /\ ~p.isReverted /\ Comparable(t, p) ->
                            IF net THEN "COMPLETE" ELSE "PARTIAL"
                      [] OTHER -> "UNKNOWN"]

\* reconcile(): with data.realizedRecord when the caller hands one in, of which
\* only the hash is checked, else with the record pnl.js has by now, once and for
\* all.
Reconcile(h) ==
    /\ h \notin Reconciled
    /\ \E t \in Tokens, n \in {null, ExpectedGross[h]}, p \in Claims \cup {records[h]} :
        reconciliations' = [reconciliations EXCEPT ![h] = Reconciliation(h, t, n, p)]
    /\ UNCHANGED <<fate, records>>

\* aggregate(), for one token: the records that could be compared.  Its sum of
\* deviations is not modelled (README, section 3).
Of(t) == {h \in Reconciled : reconciliations[h].token = t}
Compared(t) == {h \in Of(t) : reconciliations[h].deviation # null}

realizedGrossRaw(t) == MapThenSumSet(LAMBDA h : reconciliations[h].realized, Compared(t))

Next == \E h \in Hashes : Mine(h) \/ RecordPnL(h) \/ Reconcile(h)

Spec == Init /\ [][Next]_vars
-----------------------------------------------------------------------------
(* Properties                                                                *)

ReconciliationRecord ==
    [token : Tokens, expected : Int, realized : Int \cup {null},
     claimed : BOOLEAN,
     deviation : Int \cup {null}, netDeviation : Int \cup {null},
     status : {"COMPLETE", "PARTIAL", "UNKNOWN"}]

\* Every variable keeps its type.
TypeOK ==
    /\ fate \in [Hashes -> {"pending", "success", "reverted"}]
    /\ records \in [Hashes -> PnLRecord \cup {null}]
    /\ reconciliations \in [Hashes -> ReconciliationRecord \cup {null}]

\* The wallet's gain: the total of a token is what its recorded transactions
\* really added to the wallet, each once, although the caller reports a
\* replaced transaction beside its replacement, mixes up their receipts, and
\* transfers cross the balances.  No loan, transfer or reverted trade counts.
\* aggregate() of the other ledger agrees on the trades it compared, as long as
\* no caller made up one of the records it adds.
Earned(S) == MapThenSumSet(LAMBDA h : Profit[h], {h \in S : fate[h] = "success"})
Claimed == {h \in Reconciled : reconciliations[h].claimed}
TotalIsEarned ==
    \A t \in Tokens :
        /\ PnLTotal(t, "gross") = Earned(Known(t, "gross"))
        /\ Compared(t) \cap Claimed = {} => realizedGrossRaw(t) = Earned(Compared(t))

\* Two ledgers, one truth: a deviation computed from a record of PnLTracker
\* remains the difference between what the trade added to the wallet and what
\* was expected, in the trade's own token, whichever was recorded first.
DeviationIsTrue ==
    \A h \in Reconciled \ Claimed : reconciliations[h].deviation # null =>
        /\ fate[h] = "success"
        /\ reconciliations[h].token = TokenOf[h]
        /\ reconciliations[h].expected + reconciliations[h].deviation = Profit[h]
=============================================================================
