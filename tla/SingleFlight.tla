----------------------------- MODULE SingleFlight -----------------------------
(***************************************************************************)
(* What callers who share one asynchronous call are promised, whatever the *)
(* call is and however it ends: the refresh of a connection's credentials  *)
(* (withCredentialRefreshLock, dedupRefresh) and the quota request of an   *)
(* Antigravity account.                                                    *)
(*   - there is one call at a time: who comes while it is under way boards *)
(*     it, and nobody acts on an older result meanwhile;                   *)
(*   - when it ends everyone aboard goes on, nobody else does, and nobody  *)
(*     is left behind;                                                     *)
(*   - a call does not end before those of the one before have gone on.    *)
(* TokenRefresh implements it (RefreshIsSingleFlight), and so does         *)
(* AntigravityQuota (QuotaIsSingleFlight).                                 *)
(***************************************************************************)
CONSTANT Callers

VARIABLES
    flying,     \* is a call under way?
    aboard,     \* who waits for it
    landed      \* who has a result and has not acted on it yet

flightVars == <<flying, aboard, landed>>

Init ==
    /\ flying = FALSE
    /\ aboard = {}
    /\ landed = {}

\* The first caller starts the call, the others join it.
Board(c) ==
    /\ c \notin aboard \union landed
    /\ flying' = TRUE
    /\ aboard' = aboard \union {c}
    /\ UNCHANGED landed

\* The result of an earlier call will do.
MakeDo(c) ==
    /\ ~flying
    /\ c \notin aboard \union landed
    /\ landed' = landed \union {c}
    /\ UNCHANGED <<flying, aboard>>

Land ==
    /\ flying /\ aboard # {} /\ landed = {}
    /\ flying' = FALSE
    /\ aboard' = {}
    /\ landed' = aboard

GoOn(c) ==
    /\ c \in landed
    /\ landed' = landed \ {c}
    /\ UNCHANGED <<flying, aboard>>

Next ==
    \/ \E c \in Callers : Board(c) \/ MakeDo(c) \/ GoOn(c)
    \/ Land

Spec == Init /\ [][Next]_flightVars
=============================================================================
