--------------------------- MODULE NonceOwnership ---------------------------
(***************************************************************************)
(* What the nonce machinery promises, without managers, journals, slots or  *)
(* processes (nonce-journal.js:7-17).  Each nonce of the wallet is          *)
(*                                                                          *)
(*   free     it may be granted                                             *)
(*   held     granted or blocked, and no transaction of it can execute      *)
(*   risked   a transaction of it has been sent and may execute             *)
(*   spent    the chain has consumed it                                     *)
(*                                                                          *)
(* and each execution is using one nonce or none.  A nonce is granted only  *)
(* while it is free, and put at risk only by the execution it was granted   *)
(* to.  When the process is replaced a reservation may be forgotten or a    *)
(* finished one remembered (free and held may be confused), but a nonce     *)
(* that is risked or spent stays so.                                        *)
(***************************************************************************)
CONSTANTS Nonces, Executors, Nothing

VARIABLES
    status,      \* nonce -> free | held | risked | spent
    using        \* executor -> nonce, or Nothing

Status == {"free", "held", "risked", "spent"}
ownershipVars == <<status, using>>

Init ==
    /\ status = [n \in Nonces |-> "free"]
    /\ using = [e \in Executors |-> Nothing]

Becomes(n, from, to) ==
    /\ status[n] = from
    /\ status' = [status EXCEPT ![n] = to]

\* A free nonce is granted to e, or taken out of circulation.
Grant(e, n) ==
    /\ using[e] = Nothing
    /\ Becomes(n, "free", "held")
    /\ using' = [using EXCEPT ![e] = n]

Take(n) == Becomes(n, "free", "held") /\ UNCHANGED using

\* The holder puts its nonce at risk, sees the transaction refused, gives the
\* nonce back, or leaves it in the state it is in.
Risk(e) ==
    /\ using[e] # Nothing
    /\ Becomes(using[e], "held", "risked")
    /\ UNCHANGED using

Refused(e) ==
    /\ using[e] # Nothing
    /\ Becomes(using[e], "risked", "held")
    /\ UNCHANGED using

Leave(e) ==
    /\ using[e] # Nothing
    /\ using' = [using EXCEPT ![e] = Nothing]
    /\ \/ UNCHANGED status
       \/ Becomes(using[e], "held", "free")
       \/ Becomes(using[e], "risked", "free")

\* A nonce nobody uses is returned; the chain spends or loses a transaction.
Return(n) ==
    /\ \A e \in Executors : using[e] # n
    /\ Becomes(n, "held", "free")
    /\ UNCHANGED using

Clear(n) == Becomes(n, "risked", "held") /\ UNCHANGED using

Spend(n) == Becomes(n, "risked", "spent") /\ UNCHANGED using

\* The process is replaced by another one.
Recall ==
    /\ using' = [e \in Executors |-> Nothing]
    /\ status' \in [Nonces -> Status]
    /\ \A n \in Nonces :
          IF status[n] \in {"risked", "spent"}
          THEN status'[n] = status[n]
          ELSE status'[n] \in {"free", "held"}

Next ==
    \/ \E e \in Executors : Risk(e) \/ Refused(e) \/ Leave(e)
    \/ \E e \in Executors, n \in Nonces : Grant(e, n)
    \/ \E n \in Nonces : Take(n) \/ Return(n) \/ Clear(n) \/ Spend(n)
    \/ Recall

Spec == Init /\ [][Next]_ownershipVars
=============================================================================
