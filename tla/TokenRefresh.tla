----------------------------- MODULE TokenRefresh -----------------------------
(***************************************************************************)
(* The refresh of one OAuth account with rotating refresh tokens (codex,   *)
(* grok-cli): open-sse/services/oauthCredentialManager.js and              *)
(* tokenRefresh/dedup.js, with their callers checkAndRefreshToken, the     *)
(* background tick and the 401/403 branch of open-sse/handlers/chatCore.js.*)
(*                                                                         *)
(*   idle --Take--> holding --Renew--> waiting --Answer--> storing         *)
(*     ^               \--Renew (remembered result)------>   |             *)
(*     +-------------------- Store --------------------------+             *)
(*                                                                         *)
(* A refresh token is its generation.  The authorization server, which is  *)
(* external, accepts the newest generation only and answers with the next. *)
(* A request may hold a record for long before it refreshes (it waits for  *)
(* a slot, the background tick for its turn).  The dedup cache is keyed by *)
(* the token; the lock by the connection, so that whoever joins it gets a  *)
(* result for the token of somebody else.  Results are stored in the       *)
(* microtasks that follow the answer: no other answer, and no lapse of the *)
(* dedup window, comes in between.                                         *)
(***************************************************************************)
EXTENDS Integers

CONSTANTS
    Holders,        \* requests and the background tick
    MaxGeneration   \* bound on the rotations

ASSUME RefreshAssumption == MaxGeneration \in Nat \ {0}

Generations == 0 .. MaxGeneration
NoToken == -1

\* What dedup knows of a token, and what a refresh comes to: the next
\* generation, null (a network error), or an unrecoverable error.
Results == {"renewed", "null", "invalid"}

VARIABLES
    live,           \* the generation the server accepts
    storedToken,    \* refreshToken of the connection in the database
    refreshLock,    \* the token whose refresh is pending under the lock, or none
    dedup,          \* refreshDedupCache
    rfPc,
    held,           \* the refresh token in each holder's credentials
    got,            \* the result each holder is about to look at
    hasty           \* history: a token was renewed while its issue was remembered

refreshVars == <<live, storedToken, refreshLock, dedup, rfPc, held, got, hasty>>

RefreshTypeOK ==
    /\ live \in Generations
    /\ storedToken \in Generations
    /\ refreshLock \in Generations \union {NoToken}
    /\ dedup \in [Generations -> Results \union {"none", "pending"}]
    /\ rfPc \in [Holders -> {"idle", "holding", "waiting", "storing"}]
    /\ held \in [Holders -> Generations]
    /\ got \in [Holders -> [result : Results, token : Generations]]
    /\ hasty \in BOOLEAN

NothingGot == [result |-> "null", token |-> 0]

RefreshInit ==
    /\ live = 0
    /\ storedToken = 0
    /\ refreshLock = NoToken
    /\ dedup = [g \in Generations |-> "none"]
    /\ rfPc = [h \in Holders |-> "idle"]
    /\ held = [h \in Holders |-> 0]
    /\ got = [h \in Holders |-> NothingGot]
    /\ hasty = FALSE
-----------------------------------------------------------------------------
\* Account selection, or the tick's loading of the connections.
Take(h) ==
    /\ rfPc[h] = "idle"
    /\ rfPc' = [rfPc EXCEPT ![h] = "holding"]
    /\ held' = [held EXCEPT ![h] = storedToken]
    /\ UNCHANGED <<live, storedToken, refreshLock, dedup, got, hasty>>

\* The request ends without a refresh.
Drop(h) ==
    /\ rfPc[h] = "holding"
    /\ rfPc' = [rfPc EXCEPT ![h] = "idle"]
    /\ held' = [held EXCEPT ![h] = 0]
    /\ UNCHANGED <<live, storedToken, refreshLock, dedup, got, hasty>>

\* The result a settled refresh of token g left in the dedup cache.
Remembered(g) ==
    [result |-> dedup[g], token |-> IF dedup[g] = "renewed" THEN g + 1 ELSE g]

\* Token g came less than REFRESH_RESULT_TTL_MS ago.
RecentlyIssued(g) == g > 0 /\ dedup[g - 1] = "renewed"

\* refreshLocks has no entry, and neither has the dedup cache: token g goes to
\* the server.
Present(h, g) ==
    /\ dedup[g] = "none"
    /\ refreshLock' = g
    /\ dedup' = [dedup EXCEPT ![g] = "pending"]
    /\ rfPc' = [rfPc EXCEPT ![h] = "waiting"]
    /\ hasty' = (hasty \/ RecentlyIssued(g))
    /\ UNCHANGED got

\* Mutant: no lock, every token is refreshed on its own.
RenewWithoutLock(h) ==
    LET g == held[h] IN
    /\ rfPc[h] = "holding"
    /\ g < MaxGeneration
    /\ \/ Present(h, g)
       \/ /\ dedup[g] = "pending"
          /\ rfPc' = [rfPc EXCEPT ![h] = "waiting"]
          /\ UNCHANGED <<refreshLock, dedup, got, hasty>>
       \/ /\ dedup[g] \in Results
          /\ got' = [got EXCEPT ![h] = Remembered(g)]
          /\ rfPc' = [rfPc EXCEPT ![h] = "storing"]
          /\ UNCHANGED <<refreshLock, dedup, hasty>>
    /\ UNCHANGED <<live, storedToken, held>>

\* refreshProviderCredentials: the access token is due, or upstream answered
\* 401 or 403, which may be for the model and just after a renewal.  A pending
\* refresh of the connection is joined whatever its token.
Renew(h) ==
    LET g == held[h] IN
    /\ rfPc[h] = "holding"
    /\ g < MaxGeneration
    /\ \/ /\ refreshLock # NoToken
          /\ rfPc' = [rfPc EXCEPT ![h] = "waiting"]
          /\ UNCHANGED <<refreshLock, dedup, got, hasty>>
       \/ /\ refreshLock = NoToken
          /\ Present(h, g)
       \/ /\ refreshLock = NoToken
          /\ dedup[g] \in Results
          /\ got' = [got EXCEPT ![h] = Remembered(g)]
          /\ rfPc' = [rfPc EXCEPT ![h] = "storing"]
          /\ UNCHANGED <<refreshLock, dedup, hasty>>
    /\ UNCHANGED <<live, storedToken, held>>
-----------------------------------------------------------------------------
\* The server's answer to a presented token, or none.
Reply(g, result) ==
    /\ result = "renewed" => g = live
    /\ result = "invalid" => g # live
    /\ live' = IF result = "renewed" THEN g + 1 ELSE live

Settled == \A h \in Holders : rfPc[h] # "storing"

\* The refresh ends: its result is remembered, the lock deleted, and everyone
\* who joined gets it.
Answer(result) ==
    LET g == refreshLock IN
    /\ Settled
    /\ g # NoToken
    /\ Reply(g, result)
    /\ dedup' = [dedup EXCEPT ![g] = result]
    /\ refreshLock' = NoToken
    /\ rfPc' = [h \in Holders |-> IF rfPc[h] = "waiting" THEN "storing" ELSE rfPc[h]]
    /\ got' = [h \in Holders |->
                 IF rfPc[h] = "waiting"
                 THEN [result |-> result, token |-> IF result = "renewed" THEN g + 1 ELSE g]
                 ELSE got[h]]
    /\ UNCHANGED <<storedToken, held, hasty>>

\* Mutant: the holder goes on with its new token and leaves the record alone.
StoreNothing(h) ==
    /\ rfPc[h] = "storing"
    /\ got' = [got EXCEPT ![h] = NothingGot]
    /\ \/ /\ got[h].result = "renewed"
          /\ held' = [held EXCEPT ![h] = got[h].token]
          /\ rfPc' = [rfPc EXCEPT ![h] = "holding"]
       \/ /\ got[h].result # "renewed"
          /\ \/ /\ rfPc' = [rfPc EXCEPT ![h] = "idle"]
                /\ held' = [held EXCEPT ![h] = 0]
             \/ /\ got[h].result = "null"
                /\ rfPc' = [rfPc EXCEPT ![h] = "holding"]
                /\ UNCHANGED held
    /\ UNCHANGED <<live, storedToken, refreshLock, dedup, hasty>>

\* updateProviderCredentials writes a new token; the holder goes on with it.
\* After null refreshWithRetry may try again with the same credentials;
\* otherwise, and after an unrecoverable error, the holder gives up.
Store(h) ==
    /\ rfPc[h] = "storing"
    /\ got' = [got EXCEPT ![h] = NothingGot]
    /\ \/ /\ got[h].result = "renewed"
          /\ storedToken' = got[h].token
          /\ held' = [held EXCEPT ![h] = got[h].token]
          /\ rfPc' = [rfPc EXCEPT ![h] = "holding"]
       \/ /\ got[h].result # "renewed"
          /\ \/ /\ rfPc' = [rfPc EXCEPT ![h] = "idle"]
                /\ held' = [held EXCEPT ![h] = 0]
             \/ /\ got[h].result = "null"
                /\ rfPc' = [rfPc EXCEPT ![h] = "holding"]
                /\ UNCHANGED held
          /\ UNCHANGED storedToken
    /\ UNCHANGED <<live, refreshLock, dedup, hasty>>

\* REFRESH_RESULT_TTL_MS after the answer.
Forget(g) ==
    /\ Settled
    /\ dedup[g] \in Results
    /\ dedup' = [dedup EXCEPT ![g] = "none"]
    /\ UNCHANGED <<live, storedToken, refreshLock, rfPc, held, got, hasty>>

RefreshNext ==
    \/ \E h \in Holders : Take(h) \/ Drop(h) \/ Renew(h) \/ Store(h)
    \/ \E result \in Results : Answer(result)
    \/ \E g \in Generations : Forget(g)
-----------------------------------------------------------------------------
(* Properties *)

\* A connection has one refresh in flight at a time, whatever tokens its
\* requests hold, and whoever waits waits for that one.
OneRefreshAtATime ==
    /\ \A g \in Generations : dedup[g] = "pending" <=> g = refreshLock
    /\ (\E h \in Holders : rfPc[h] = "waiting") <=> refreshLock # NoToken

\* "In-flight dedup to prevent refresh_token_reused errors" (CHANGELOG.md): no
\* rotation is lost, the database holds the token the server accepts or a holder
\* is about to write it.  It does not hold: a holder of an older token is given
\* the result remembered for it, and writes it over the newer one.
RotationIsKept ==
    storedToken = live \/ \E h \in Holders : rfPc[h] = "storing" /\ got[h].token = live

\* Nothing else loses a rotation: it takes a renewal of a token whose own issue is
\* not yet forgotten, whoever joins whose refresh, and however long a holder has
\* kept its record.
OnlyHasteLosesRotations == hasty \/ RotationIsKept

\* The callers of a connection's refresh share it: one at a time, joined by all
\* who come while it is pending, and its result goes to all of them and to
\* nobody else.
Flight == INSTANCE SingleFlight WITH
    Callers <- Holders, flying <- refreshLock # NoToken,
    aboard <- {h \in Holders : rfPc[h] = "waiting"},
    landed <- {h \in Holders : rfPc[h] = "storing"}

RefreshIsSingleFlight == Flight!Spec

RefreshSpec == RefreshInit /\ [][RefreshNext]_refreshVars
=============================================================================
