------------------------ MODULE MCTransactionTracker ------------------------
(* Two transactions of one nonce, one of which may replace the other. *)
EXTENDS TransactionTracker

CONSTANTS h1, h2

MCHashes == {h1, h2}
MCTxNonce == [hash \in MCHashes |-> 0]
=============================================================================
