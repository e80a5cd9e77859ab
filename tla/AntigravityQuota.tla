--------------------------- MODULE AntigravityQuota ---------------------------
(***************************************************************************)
(* src/sse/services/antigravityQuota.js: what one Antigravity account's    *)
(* requests learn about its quota from 409 and 429 answers, and the strike *)
(* breaker per model that distrusts readings which keep being refused.     *)
(*                                                                         *)
(*   idle --Send--> upstream --Refused--> waiting --QuotaAnswer--> resumed *)
(*     ^               | \--Refused (refreshed lately)-------->   |        *)
(*     +--- Succeed ---+------------------- Judge ----------------+        *)
(*                                                                         *)
(* Times are ticks.  Of a quota reading only whether something remains is  *)
(* kept, and the time to its reset.  A refresh resolves to the object in   *)
(* the cache, which its waiters read, and may change, one after the other  *)
(* in the microtasks that follow: nothing else happens in between.         *)
(***************************************************************************)
EXTENDS Integers

CONSTANTS
    QuotaModels,
    QuotaRequests,
    StrikeThreshold,
    StrikeWindow,
    StrikeBlock,        \* STRIKE_BLOCK_MS
    RefreshInterval,    \* MIN_REFRESH_INTERVAL_MS
    MaxReset            \* longest upstream reset

ASSUME QuotaAssumption ==
    /\ QuotaModels # {}
    /\ StrikeThreshold \in Nat \ {0}
    /\ StrikeWindow \in Nat
    /\ StrikeBlock \in Nat \ {0}
    /\ RefreshInterval \in Nat
    /\ MaxReset \in Nat

Longest == IF MaxReset < StrikeBlock THEN StrikeBlock ELSE MaxReset

\* none: the model is not in the cache; byStrikes: the entry was synthesized.
Readings == [remains : {"none", "some", "zero"}, resetIn : 0 .. Longest, byStrikes : BOOLEAN]
NoReading == [remains |-> "none", resetIn |-> 0, byStrikes |-> FALSE]
BlockedReading(t) == [remains |-> "zero", resetIn |-> t, byStrikes |-> TRUE]

VARIABLES
    quotaCache,
    sinceRefresh,   \* ticks since the last attempt, up to RefreshInterval
    inflight,       \* is a quota request under way?
    strikes,        \* count and age of the window per model; count 0: no entry
    blockedFor,     \* ticks left of strikeBlocks; -1: no entry, 0: expired entry
    quotaPc,
    asked,          \* the model each request asks for
    reading,        \* does the refresh a resumed request awaited have a result?
    doubts          \* history: refusals since success or an exhausted reading, by greatest age

quotaVars ==
    <<quotaCache, sinceRefresh, inflight, strikes, blockedFor, quotaPc, asked, reading, doubts>>

QuotaTypeOK ==
    /\ quotaCache \in [QuotaModels -> Readings]
    /\ sinceRefresh \in 0 .. RefreshInterval
    /\ inflight \in BOOLEAN
    /\ strikes \in [QuotaModels -> [count : 0 .. StrikeThreshold, age : 0 .. StrikeWindow + 1]]
    /\ blockedFor \in [QuotaModels -> -1 .. StrikeBlock]
    /\ quotaPc \in [QuotaRequests -> {"idle", "upstream", "waiting", "resumed"}]
    /\ asked \in [QuotaRequests -> QuotaModels]
    /\ reading \in [QuotaRequests -> BOOLEAN]
    /\ doubts \in [QuotaModels -> [0 .. StrikeWindow -> Nat]]

NoStrikes == [count |-> 0, age |-> 0]

\* Of every age, how many refusals are that old at most.
NoDoubts == [age \in 0 .. StrikeWindow |-> 0]

QuotaInit ==
    /\ quotaCache = [m \in QuotaModels |-> NoReading]
    /\ sinceRefresh = RefreshInterval
    /\ inflight = FALSE
    /\ strikes = [m \in QuotaModels |-> NoStrikes]
    /\ blockedFor = [m \in QuotaModels |-> -1]
    /\ quotaPc = [r \in QuotaRequests |-> "idle"]
    /\ asked = [r \in QuotaRequests |-> CHOOSE m \in QuotaModels : TRUE]
    /\ reading = [r \in QuotaRequests |-> FALSE]
    /\ doubts = [m \in QuotaModels |-> NoDoubts]
-----------------------------------------------------------------------------
\* The pre-filter of getProviderCredentials.
Skipped(m) == quotaCache[m].remains = "zero" /\ quotaCache[m].resetIn > 0

Send(r, m) ==
    /\ quotaPc[r] = "idle"
    /\ ~Skipped(m)
    /\ quotaPc' = [quotaPc EXCEPT ![r] = "upstream"]
    /\ asked' = [asked EXCEPT ![r] = m]
    /\ UNCHANGED <<quotaCache, sinceRefresh, inflight, strikes, blockedFor, reading, doubts>>

\* Mutant: the block goes, its entry in the cache stays.
ClearStrikesOnly(m) ==
    /\ strikes' = [strikes EXCEPT ![m] = NoStrikes]
    /\ blockedFor' = [blockedFor EXCEPT ![m] = -1]
    /\ UNCHANGED quotaCache

\* clearAntigravityStrikes.
ClearStrikes(m) ==
    /\ strikes' = [strikes EXCEPT ![m] = NoStrikes]
    /\ blockedFor' = [blockedFor EXCEPT ![m] = -1]
    /\ quotaCache' = IF /\ blockedFor[m] >= 0
                        /\ quotaCache[m].byStrikes
                        /\ quotaCache[m].resetIn = blockedFor[m]
                     THEN [quotaCache EXCEPT ![m] = NoReading]
                     ELSE quotaCache

Succeed(r) ==
    /\ quotaPc[r] = "upstream"
    /\ ClearStrikes(asked[r])
    /\ quotaPc' = [quotaPc EXCEPT ![r] = "idle"]
    /\ doubts' = [doubts EXCEPT ![asked[r]] = NoDoubts]
    /\ UNCHANGED <<sinceRefresh, inflight, asked, reading>>

\* 409 or 429: join the refresh under way, make do with the cache, or start one.
Refused(r) ==
    /\ quotaPc[r] = "upstream"
    /\ \/ /\ inflight
          /\ quotaPc' = [quotaPc EXCEPT ![r] = "waiting"]
          /\ UNCHANGED <<inflight, sinceRefresh, reading>>
       \/ /\ ~inflight /\ sinceRefresh < RefreshInterval
          /\ quotaPc' = [quotaPc EXCEPT ![r] = "resumed"]
          /\ reading' = [reading EXCEPT ![r] = TRUE]
          /\ UNCHANGED <<inflight, sinceRefresh>>
       \/ /\ ~inflight /\ sinceRefresh = RefreshInterval
          /\ inflight' = TRUE
          /\ sinceRefresh' = 0
          /\ quotaPc' = [quotaPc EXCEPT ![r] = "waiting"]
          /\ UNCHANGED reading
    /\ UNCHANGED <<quotaCache, strikes, blockedFor, asked, doubts>>

\* Other upstream errors are not this module's.
FailOtherwise(r) ==
    /\ quotaPc[r] = "upstream"
    /\ quotaPc' = [quotaPc EXCEPT ![r] = "idle"]
    /\ UNCHANGED <<quotaCache, sinceRefresh, inflight, strikes, blockedFor, asked, reading, doubts>>
-----------------------------------------------------------------------------
Calm == \A r \in QuotaRequests : quotaPc[r] # "resumed"

Resumed(hasReading) ==
    /\ quotaPc' = [r \in QuotaRequests |-> IF quotaPc[r] = "waiting" THEN "resumed" ELSE quotaPc[r]]
    /\ reading' = [r \in QuotaRequests |-> IF quotaPc[r] = "waiting" THEN hasReading ELSE reading[r]]

\* applyActiveStrikeBlocks on a fresh snapshot; expired blocks are dropped.
ApplyBlocks(quotas) ==
    /\ quotaCache' = [m \in QuotaModels |->
                        IF blockedFor[m] > 0 THEN BlockedReading(blockedFor[m]) ELSE quotas[m]]
    /\ blockedFor' = [m \in QuotaModels |-> IF blockedFor[m] = 0 THEN -1 ELSE blockedFor[m]]

\* Mutant: a failed quota request strands those who wait for it.
QuotaAnswerForgetting(quotas) ==
    /\ Calm
    /\ inflight
    /\ inflight' = FALSE
    /\ \/ ApplyBlocks(quotas) /\ Resumed(TRUE)
       \/ UNCHANGED <<quotaCache, blockedFor, quotaPc, reading>>
    /\ UNCHANGED <<sinceRefresh, strikes, asked, doubts>>

\* The quota request ends, with a snapshot or in an error.
QuotaAnswer(quotas) ==
    /\ Calm
    /\ inflight
    /\ inflight' = FALSE
    /\ \/ ApplyBlocks(quotas) /\ Resumed(TRUE)
       \/ UNCHANGED <<quotaCache, blockedFor>> /\ Resumed(FALSE)
    /\ UNCHANGED <<sinceRefresh, strikes, asked, doubts>>

UpstreamReadings ==
    {NoReading}
        \union [remains : {"some"}, resetIn : {0}, byStrikes : {FALSE}]
        \union [remains : {"zero"}, resetIn : 0 .. MaxReset, byStrikes : {FALSE}]
-----------------------------------------------------------------------------
\* Mutant: old strikes count for ever.
CountedForever(m) == [strikes[m] EXCEPT !.count = @ + 1]

\* The strike of a refusal: the window is anchored at its first strike.
Counted(m) ==
    IF strikes[m].count > 0 /\ strikes[m].age <= StrikeWindow
    THEN [strikes[m] EXCEPT !.count = @ + 1]
    ELSE [count |-> 1, age |-> 0]

OneMore(d) == [age \in 0 .. StrikeWindow |-> d[age] + 1]

\* handleAntigravityQuotaError, after the refresh: a refusal that the reading
\* does not explain is a strike; an exhausted reading ends the series.
Judge(r) ==
    LET m == asked[r]
        unexplained == ~reading[r] \/ quotaCache[m].remains # "zero"
        strike == Counted(m)
    IN  /\ quotaPc[r] = "resumed"
        /\ \/ /\ unexplained /\ strike.count < StrikeThreshold
              /\ strikes' = [strikes EXCEPT ![m] = strike]
              /\ doubts' = [doubts EXCEPT ![m] = OneMore(@)]
              /\ UNCHANGED <<quotaCache, blockedFor>>
           \/ /\ unexplained /\ strike.count >= StrikeThreshold
              /\ strikes' = [strikes EXCEPT ![m] = NoStrikes]
              /\ quotaCache' = [quotaCache EXCEPT ![m] = BlockedReading(StrikeBlock)]
              /\ blockedFor' = [blockedFor EXCEPT ![m] = StrikeBlock]
              /\ doubts' = [doubts EXCEPT ![m] = NoDoubts]
           \/ /\ ~unexplained
              /\ strikes' = [strikes EXCEPT ![m] = NoStrikes]
              /\ doubts' = [doubts EXCEPT ![m] = NoDoubts]
              /\ UNCHANGED <<quotaCache, blockedFor>>
        /\ quotaPc' = [quotaPc EXCEPT ![r] = "idle"]
        /\ reading' = [reading EXCEPT ![r] = FALSE]
        /\ UNCHANGED <<sinceRefresh, inflight, asked>>

OneTickOlder(d) == [age \in 0 .. StrikeWindow |-> IF age = 0 THEN 0 ELSE d[age - 1]]

Earlier(n) == IF n > 0 THEN n - 1 ELSE n

QuotaTick ==
    /\ Calm
    /\ sinceRefresh' = IF sinceRefresh < RefreshInterval THEN sinceRefresh + 1 ELSE sinceRefresh
    /\ quotaCache' = [m \in QuotaModels |-> [quotaCache[m] EXCEPT !.resetIn = Earlier(@)]]
    /\ blockedFor' = [m \in QuotaModels |-> Earlier(blockedFor[m])]
    /\ strikes' = [m \in QuotaModels |->
         IF strikes[m].count > 0 /\ strikes[m].age <= StrikeWindow
         THEN [strikes[m] EXCEPT !.age = @ + 1] ELSE strikes[m]]
    /\ doubts' = [m \in QuotaModels |-> OneTickOlder(doubts[m])]
    /\ UNCHANGED <<inflight, quotaPc, asked, reading>>

QuotaNext ==
    \/ \E r \in QuotaRequests :
         \/ \E m \in QuotaModels : Send(r, m)
         \/ Succeed(r)
         \/ Refused(r)
         \/ FailOtherwise(r)
         \/ Judge(r)
    \/ \E quotas \in [QuotaModels -> UpstreamReadings] : QuotaAnswer(quotas)
    \/ QuotaTick
-----------------------------------------------------------------------------
(* Properties *)

\* The cache skips a model because of strikes only while the block is there: a
\* success, or an end of the block, leaves no entry behind that would.
NoGhostBlock ==
    \A m \in QuotaModels :
        quotaCache[m].byStrikes /\ Skipped(m) => blockedFor[m] = quotaCache[m].resetIn

\* A block is set on the StrikeThreshold-th refusal that no reading explained,
\* all within the window and without a success in between ("consecutive").
BlocksAreEarned ==
    [][\A m \in QuotaModels :
         blockedFor'[m] > blockedFor[m] => doubts[m][StrikeWindow] >= StrikeThreshold - 1]_quotaVars

\* Whoever waits for a quota request goes on, whether it succeeds or fails.
RefusalsAreJudged ==
    \A r \in QuotaRequests : quotaPc[r] = "waiting" ~> quotaPc[r] = "idle"

\* Refused requests of all models share one quota request, and all of them go on
\* when it ends, whether it has brought a reading or not.
QuotaFlight == INSTANCE SingleFlight WITH
    Callers <- QuotaRequests, flying <- inflight,
    aboard <- {r \in QuotaRequests : quotaPc[r] = "waiting"},
    landed <- {r \in QuotaRequests : quotaPc[r] = "resumed"}

QuotaIsSingleFlight == QuotaFlight!Spec

\* Quota requests end, and what follows an answer is not delayed.
QuotaFairness ==
    /\ WF_quotaVars(\E quotas \in [QuotaModels -> UpstreamReadings] : QuotaAnswer(quotas))
    /\ \A r \in QuotaRequests : WF_quotaVars(Judge(r))

QuotaSpec == QuotaInit /\ [][QuotaNext]_quotaVars /\ QuotaFairness
=============================================================================
