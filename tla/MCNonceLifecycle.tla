-------------------------- MODULE MCNonceLifecycle --------------------------
(* Instances of the nonce lifecycle for TLC.                                *)
EXTENDS NonceLifecycle, TLC

Symmetry == Permutations(Hashes) \cup Permutations(Executors)
=============================================================================
