--------------------------- MODULE MCNonceManager ---------------------------
(* Three nonces, one hash and a cap of two slots: a cap that is reached, a  *)
(* middle slot that is released, and a gap.                                 *)
EXTENDS NonceManager
=============================================================================
