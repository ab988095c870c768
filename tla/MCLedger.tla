-------------------------------- MODULE MCLedger --------------------------------
(* Two transactions of one nonce, the second replacing the first, and one of *)
(* another nonce in another token.                                           *)
EXTENDS Ledger

CONSTANTS h1, h2, h3, bnb, usdt

MCHashes == {h1, h2, h3}
MCNonceOf == [h \in MCHashes |-> IF h = h3 THEN 1 ELSE 0]
MCTokens == {bnb, usdt}
MCTokenOf == [h \in MCHashes |-> IF h = h3 THEN usdt ELSE bnb]
MCProfit == [h \in MCHashes |-> IF h = h1 THEN 3 ELSE IF h = h2 THEN 2 ELSE -1]
MCGasCost == [h \in MCHashes |-> 1]
MCExpected == [h \in MCHashes |-> IF h = h1 THEN 4 ELSE 2]

\* What a caller may claim of any transaction: more than it earned, in either
\* token, and that it reverted.
Claim(t, gross, net) ==
    [token |-> t, gross |-> gross, gas |-> null, net |-> net,
     isReverted |-> gross = null, status |-> IF gross = null THEN "INCOMPLETE" ELSE "REALIZED"]
MCClaims == {Claim(bnb, 5, 4), Claim(usdt, 5, null), Claim(bnb, null, null)}
=============================================================================
