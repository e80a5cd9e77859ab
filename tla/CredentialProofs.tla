--------------------------- MODULE CredentialProofs ---------------------------
(***************************************************************************)
(* Theorems about what the requests of an account share: its rotating      *)
(* refresh token (TokenRefresh), for any number of requests and rotations, *)
(* and its quota (AntigravityQuota), for any requests, models and times.   *)
(***************************************************************************)
EXTENDS TokenRefresh, AntigravityQuota, TLAPS

(* Refresh tokens *)

\* A presented token has a successor.
LockTypeOK == refreshLock # NoToken => refreshLock < MaxGeneration

LockInvariant == RefreshTypeOK /\ LockTypeOK /\ OneRefreshAtATime

LEMMA TokenTypes ==
    /\ Generations \subseteq Nat
    /\ NoToken \notin Generations
    /\ MaxGeneration \in Nat
    /\ \A g \in Generations : g < MaxGeneration => g + 1 \in Generations
  BY RefreshAssumption DEF Generations, NoToken

\* Whoever finds neither a lock nor a cache entry sets both.
LEMMA PresentKeepsLock ==
    ASSUME LockInvariant, NEW h \in Holders, refreshLock = NoToken, rfPc[h] = "holding",
           held[h] < MaxGeneration, Present(h, held[h]),
           UNCHANGED <<live, storedToken, held>>
    PROVE  LockInvariant'
<1> USE DEF LockInvariant, RefreshTypeOK, LockTypeOK
<1> DEFINE g == held[h]
<1>1. g \in Generations /\ g # NoToken
  BY TokenTypes
<1>2. /\ refreshLock' = g
      /\ dedup' = [dedup EXCEPT ![g] = "pending"]
      /\ rfPc' = [rfPc EXCEPT ![h] = "waiting"]
      /\ UNCHANGED got
  BY DEF Present
<1>7. hasty' \in BOOLEAN
  BY DEF Present
<1> HIDE DEF g
<1>3. RefreshTypeOK'
  BY <1>1, <1>2, <1>7
<1>4. LockTypeOK'
  BY <1>2 DEF g
<1>5. \A k \in Generations : dedup'[k] = "pending" <=> k = g
  BY <1>1, <1>2, TokenTypes DEF OneRefreshAtATime
<1>6. rfPc'[h] = "waiting"
  BY <1>2
<1> QED
  BY <1>1, <1>2, <1>3, <1>4, <1>5, <1>6 DEF OneRefreshAtATime

\* What the cache remembers of a token is a result of the server.
LEMMA RememberedType ==
    ASSUME RefreshTypeOK, NEW g \in Generations, g < MaxGeneration, dedup[g] \in Results
    PROVE  Remembered(g) \in [result : Results, token : Generations]
  BY TokenTypes DEF Remembered

LEMMA RenewKeepsLock ==
    ASSUME LockInvariant, NEW h \in Holders, Renew(h)
    PROVE  LockInvariant'
<1> USE DEF LockInvariant, RefreshTypeOK, LockTypeOK
<1> DEFINE g == held[h]
<1>1. /\ rfPc[h] = "holding"
      /\ g \in Generations
      /\ g < MaxGeneration
      /\ UNCHANGED <<live, storedToken, held>>
  BY DEF Renew
<1>2. CASE /\ refreshLock # NoToken
           /\ rfPc' = [rfPc EXCEPT ![h] = "waiting"]
           /\ UNCHANGED <<refreshLock, dedup, got, hasty>>
  <2>1. rfPc'[h] = "waiting"
    BY <1>2
  <2> QED
    BY <1>1, <1>2, <2>1 DEF OneRefreshAtATime
<1>3. CASE refreshLock = NoToken /\ Present(h, g)
  BY <1>1, <1>3, PresentKeepsLock
<1>4. CASE /\ refreshLock = NoToken
           /\ dedup[g] \in Results
           /\ got' = [got EXCEPT ![h] = Remembered(g)]
           /\ rfPc' = [rfPc EXCEPT ![h] = "storing"]
           /\ UNCHANGED <<refreshLock, dedup, hasty>>
  <2>1. RefreshTypeOK'
    BY <1>1, <1>4, RememberedType
  <2>2. \A k \in Holders : rfPc'[k] = "waiting" <=> rfPc[k] = "waiting"
    BY <1>1, <1>4
  <2> QED
    BY <1>1, <1>4, <2>1, <2>2 DEF OneRefreshAtATime
<1> QED
  BY <1>2, <1>3, <1>4 DEF Renew

LEMMA AnswerKeepsLock ==
    ASSUME LockInvariant, NEW result \in Results, Answer(result)
    PROVE  LockInvariant'
<1> USE DEF LockInvariant, RefreshTypeOK, LockTypeOK
<1> DEFINE g == refreshLock
           token == IF result = "renewed" THEN g + 1 ELSE g
<1>1. /\ g \in Generations
      /\ g < MaxGeneration
      /\ Reply(g, result)
      /\ dedup' = [dedup EXCEPT ![g] = result]
      /\ refreshLock' = NoToken
      /\ rfPc' = [h \in Holders |-> IF rfPc[h] = "waiting" THEN "storing" ELSE rfPc[h]]
      /\ got' = [h \in Holders |->
                   IF rfPc[h] = "waiting" THEN [result |-> result, token |-> token] ELSE got[h]]
      /\ UNCHANGED <<storedToken, held, hasty>>
  BY DEF Answer
<1>2. token \in Generations /\ live' \in Generations
  BY <1>1, TokenTypes DEF Reply
<1>3. result # "pending"
  BY DEF Results
<1> HIDE DEF g, token
<1>4. RefreshTypeOK'
  BY <1>1, <1>2
<1>5. \A k \in Generations : dedup'[k] # "pending"
  BY <1>1, <1>3 DEF OneRefreshAtATime, g
<1>6. \A h \in Holders : rfPc'[h] # "waiting"
  BY <1>1
<1> QED
  BY <1>1, <1>4, <1>5, <1>6, TokenTypes DEF OneRefreshAtATime

LEMMA StoreKeepsLock ==
    ASSUME LockInvariant, NEW h \in Holders, Store(h)
    PROVE  LockInvariant'
<1> USE DEF LockInvariant, RefreshTypeOK, LockTypeOK
<1>1. NothingGot \in [result : Results, token : Generations] /\ 0 \in Generations
  BY RefreshAssumption DEF NothingGot, Results, Generations
<1>2. got[h].token \in Generations
  OBVIOUS
<1>3. \A k \in Holders : rfPc'[k] = "waiting" <=> rfPc[k] = "waiting"
  BY DEF Store
<1>4. RefreshTypeOK'
  <2>1. UNCHANGED <<live, refreshLock, dedup, hasty>> /\ storedToken' \in {storedToken, got[h].token}
    BY DEF Store
  <2>2. /\ held' \in {[held EXCEPT ![h] = got[h].token], [held EXCEPT ![h] = 0], held}
        /\ rfPc' \in {[rfPc EXCEPT ![h] = "holding"], [rfPc EXCEPT ![h] = "idle"]}
        /\ got' = [got EXCEPT ![h] = NothingGot]
    BY DEF Store
  <2>3. got' \in [Holders -> [result : Results, token : Generations]]
    BY <1>1, <2>2
  <2>4. held' \in [Holders -> Generations]
    BY <1>1, <1>2, <2>2
  <2> QED
    BY <1>2, <2>1, <2>2, <2>3, <2>4
<1>5. UNCHANGED <<refreshLock, dedup>>
  BY DEF Store
<1> QED
  BY <1>3, <1>4, <1>5 DEF OneRefreshAtATime

LEMMA StepsKeepLock == LockInvariant /\ [RefreshNext]_refreshVars => LockInvariant'
<1> SUFFICES ASSUME LockInvariant, [RefreshNext]_refreshVars
             PROVE  LockInvariant'
  OBVIOUS
<1> USE DEF LockInvariant, RefreshTypeOK, LockTypeOK
<1>1. ASSUME NEW h \in Holders, Take(h)
      PROVE  LockInvariant'
  <2>1. \A k \in Holders : rfPc'[k] = "waiting" <=> rfPc[k] = "waiting"
    BY <1>1 DEF Take
  <2> QED
    BY <1>1, <2>1 DEF Take, OneRefreshAtATime
<1>2. ASSUME NEW h \in Holders, Drop(h)
      PROVE  LockInvariant'
  <2>1. \A k \in Holders : rfPc'[k] = "waiting" <=> rfPc[k] = "waiting"
    BY <1>2 DEF Drop
  <2>2. 0 \in Generations
    BY RefreshAssumption DEF Generations
  <2> QED
    BY <1>2, <2>1, <2>2 DEF Drop, OneRefreshAtATime
<1>3. ASSUME NEW h \in Holders, Renew(h)
      PROVE  LockInvariant'
  BY <1>3, RenewKeepsLock
<1>4. ASSUME NEW h \in Holders, Store(h)
      PROVE  LockInvariant'
  BY <1>4, StoreKeepsLock
<1>5. ASSUME NEW result \in Results, Answer(result)
      PROVE  LockInvariant'
  BY <1>5, AnswerKeepsLock
<1>6. ASSUME NEW g \in Generations, Forget(g)
      PROVE  LockInvariant'
  <2>1. \A k \in Generations : dedup'[k] = "pending" <=> dedup[k] = "pending"
    BY <1>6 DEF Forget, Results
  <2> QED
    BY <1>6, <2>1 DEF Forget, OneRefreshAtATime
<1>7. CASE UNCHANGED refreshVars
  BY <1>7 DEF refreshVars, OneRefreshAtATime
<1> QED
  BY <1>1, <1>2, <1>3, <1>4, <1>5, <1>6, <1>7 DEF RefreshNext

LEMMA LockStarts == RefreshInit => LockInvariant
<1> SUFFICES ASSUME RefreshInit
             PROVE  LockInvariant
  OBVIOUS
<1>1. 0 \in Generations /\ NothingGot \in [result : Results, token : Generations]
  BY RefreshAssumption DEF NothingGot, Results, Generations
<1>2. hasty \in BOOLEAN /\ refreshLock = NoToken /\ NoToken \notin Generations
  BY TokenTypes DEF RefreshInit
<1>3. \A g \in Generations : dedup[g] = "none"
  BY DEF RefreshInit
<1>4. \A h \in Holders : rfPc[h] = "idle"
  BY DEF RefreshInit
<1>5. RefreshTypeOK
  BY <1>1, <1>2 DEF RefreshInit, RefreshTypeOK
<1> QED
  BY <1>2, <1>3, <1>4, <1>5 DEF LockInvariant, LockTypeOK, OneRefreshAtATime

LEMMA LockInvariantHolds == RefreshSpec => []LockInvariant
  BY LockStarts, StepsKeepLock, PTL DEF RefreshSpec

\* However many requests hold whatever tokens of a connection, one refresh is in
\* flight at a time, and whoever waits waits for that one.
THEOREM RefreshesAreSerial == RefreshSpec => []OneRefreshAtATime
<1>1. LockInvariant => OneRefreshAtATime
  BY DEF LockInvariant
<1> QED
  BY <1>1, LockInvariantHolds, PTL

-----------------------------------------------------------------------------
(* The rotation *)

\* As long as no token has been renewed while its issue was remembered, the cache
\* remembers the rotation of the token before the live one only, and whoever is
\* about to store a renewed token has the live one.
RotationInvariant ==
    /\ \A g \in Generations : dedup[g] = "renewed" => live = g + 1
    /\ refreshLock = live => \A g \in Generations : dedup[g] # "renewed"
    /\ \A h \in Holders :
         rfPc[h] = "storing" /\ got[h].result = "renewed" => got[h].token = live
    /\ \/ storedToken = live
       \/ \E h \in Holders : rfPc[h] = "storing" /\ got[h].result = "renewed"

LEMMA AnswerKeepsRotation ==
    ASSUME LockInvariant, RotationInvariant, NEW result \in Results, Answer(result)
    PROVE  RotationInvariant'
<1> DEFINE g == refreshLock
           token == IF result = "renewed" THEN g + 1 ELSE g
<1>1. /\ Settled
      /\ g \in Generations
      /\ Reply(g, result)
      /\ dedup' = [dedup EXCEPT ![g] = result]
      /\ refreshLock' = NoToken
      /\ rfPc' = [h \in Holders |-> IF rfPc[h] = "waiting" THEN "storing" ELSE rfPc[h]]
      /\ got' = [h \in Holders |->
                   IF rfPc[h] = "waiting" THEN [result |-> result, token |-> token] ELSE got[h]]
      /\ UNCHANGED storedToken
  BY DEF Answer, LockInvariant, RefreshTypeOK
<1>2. /\ dedup \in [Generations -> Results \union {"none", "pending"}]
      /\ live \in Generations
      /\ rfPc \in [Holders -> {"idle", "holding", "waiting", "storing"}]
  BY DEF LockInvariant, RefreshTypeOK
<1>3. PICK w \in Holders : rfPc[w] = "waiting"
  BY <1>1, TokenTypes DEF LockInvariant, OneRefreshAtATime
<1>4. storedToken = live
  BY <1>1 DEF RotationInvariant, Settled
<1>5. live' \in Generations \union {g + 1}
  BY <1>1, <1>2 DEF Reply
<1>6. refreshLock' # live'
  BY <1>1, <1>5, TokenTypes DEF NoToken
<1>7. \A h \in Holders : rfPc'[h] = "storing" => got'[h] = [result |-> result, token |-> token]
  BY <1>1, <1>2 DEF Settled
<1>8. CASE result = "renewed"
  <2>1. g = live /\ live' = g + 1 /\ token = live'
    BY <1>1, <1>8 DEF Reply
  <2>2. \A k \in Generations : dedup'[k] = "renewed" => k = g
    BY <1>1, <1>2, <2>1 DEF RotationInvariant
  <2>3. rfPc'[w] = "storing" /\ got'[w].result = "renewed"
    BY <1>1, <1>3, <1>7, <1>8
  <2> QED
    BY <1>3, <1>6, <1>7, <2>1, <2>2, <2>3 DEF RotationInvariant
<1>9. CASE result # "renewed"
  <2>1. live' = live
    BY <1>1, <1>9 DEF Reply
  <2>2. \A k \in Generations : dedup'[k] = "renewed" => dedup[k] = "renewed"
    BY <1>1, <1>2, <1>9
  <2>3. \A h \in Holders : rfPc'[h] = "storing" => got'[h].result # "renewed"
    BY <1>7, <1>9
  <2> QED
    BY <1>1, <1>4, <1>6, <2>1, <2>2, <2>3 DEF RotationInvariant
<1> QED
  BY <1>8, <1>9

LEMMA RenewKeepsRotation ==
    ASSUME LockInvariant, RotationInvariant, NEW h \in Holders, Renew(h), ~hasty'
    PROVE  RotationInvariant'
<1> DEFINE g == held[h]
<1>1. /\ rfPc[h] = "holding"
      /\ g \in Generations
      /\ UNCHANGED <<live, storedToken, held>>
  BY DEF Renew, LockInvariant, RefreshTypeOK
<1>2. /\ dedup \in [Generations -> Results \union {"none", "pending"}]
      /\ live \in Generations
      /\ rfPc \in [Holders -> {"idle", "holding", "waiting", "storing"}]
      /\ got \in [Holders -> [result : Results, token : Generations]]
  BY DEF LockInvariant, RefreshTypeOK
<1>3. \A k \in Holders : k # h => rfPc'[k] = rfPc[k] /\ got'[k] = got[k]
  BY <1>2 DEF Renew, Present
<1>4. CASE /\ refreshLock # NoToken
           /\ rfPc' = [rfPc EXCEPT ![h] = "waiting"]
           /\ UNCHANGED <<refreshLock, dedup, got>>
  <2>1. rfPc'[h] = "waiting"
    BY <1>2, <1>4
  <2> QED
    BY <1>1, <1>3, <1>4, <2>1 DEF RotationInvariant
<1>5. CASE /\ refreshLock = NoToken
           /\ Present(h, g)
  <2>1. /\ refreshLock' = g
        /\ dedup' = [dedup EXCEPT ![g] = "pending"]
        /\ rfPc' = [rfPc EXCEPT ![h] = "waiting"]
        /\ ~RecentlyIssued(g)
    BY <1>5 DEF Present
  <2>2. \A k \in Generations : dedup'[k] = "renewed" => dedup[k] = "renewed"
    BY <1>1, <1>2, <2>1
  <2>3. ASSUME g = live, NEW k \in Generations, dedup[k] = "renewed"
        PROVE  FALSE
    <3>1. live = k + 1
      BY <2>3 DEF RotationInvariant
    <3>2. g > 0 /\ g - 1 = k
      BY <2>3, <3>1, TokenTypes
    <3> QED
      BY <2>1, <2>3, <3>2 DEF RecentlyIssued
  <2>4. rfPc'[h] = "waiting"
    BY <1>2, <2>1
  <2> QED
    BY <1>1, <1>3, <2>1, <2>2, <2>3, <2>4 DEF RotationInvariant
<1>6. CASE /\ refreshLock = NoToken
           /\ dedup[g] \in Results
           /\ got' = [got EXCEPT ![h] = Remembered(g)]
           /\ rfPc' = [rfPc EXCEPT ![h] = "storing"]
           /\ UNCHANGED <<refreshLock, dedup, hasty>>
  <2>1. got'[h] = Remembered(g)
    BY <1>2, <1>6
  <2>2. got'[h].result = "renewed" => got'[h].token = live
    BY <1>1, <2>1 DEF Remembered, RotationInvariant
  <2> QED
    BY <1>1, <1>3, <1>6, <2>2 DEF RotationInvariant
<1> QED
  BY <1>4, <1>5, <1>6 DEF Renew

LEMMA StoreKeepsRotation ==
    ASSUME LockInvariant, RotationInvariant, NEW h \in Holders, Store(h)
    PROVE  RotationInvariant'
<1>1. /\ rfPc \in [Holders -> {"idle", "holding", "waiting", "storing"}]
      /\ got \in [Holders -> [result : Results, token : Generations]]
  BY DEF LockInvariant, RefreshTypeOK
<1>2. \A k \in Holders : k # h => rfPc'[k] = rfPc[k] /\ got'[k] = got[k]
  BY <1>1 DEF Store
<1>3. rfPc[h] = "storing" /\ rfPc'[h] # "storing" /\ UNCHANGED <<live, refreshLock, dedup>>
  BY <1>1 DEF Store
<1>4. CASE got[h].result = "renewed"
  <2>1. storedToken' = live'
    BY <1>3, <1>4 DEF Store, RotationInvariant
  <2> QED
    BY <1>2, <1>3, <2>1 DEF RotationInvariant
<1>5. CASE got[h].result # "renewed"
  <2>1. UNCHANGED storedToken
    BY <1>5 DEF Store
  <2> QED
    BY <1>2, <1>3, <1>5, <2>1 DEF RotationInvariant
<1> QED
  BY <1>4, <1>5

LEMMA StepsKeepRotation ==
    LockInvariant /\ (~hasty => RotationInvariant) /\ [RefreshNext]_refreshVars
      => (~hasty => RotationInvariant)'
<1> SUFFICES ASSUME LockInvariant, ~hasty => RotationInvariant, [RefreshNext]_refreshVars, ~hasty'
             PROVE  RotationInvariant'
  OBVIOUS
<1>0. RotationInvariant
  <2>1. hasty => hasty'
    BY DEF RefreshNext, Take, Drop, Renew, Present, Store, Answer, Forget, refreshVars
  <2> QED
    BY <2>1
<1>1. /\ rfPc \in [Holders -> {"idle", "holding", "waiting", "storing"}]
      /\ dedup \in [Generations -> Results \union {"none", "pending"}]
  BY DEF LockInvariant, RefreshTypeOK
<1>2. ASSUME NEW h \in Holders, Take(h) \/ Drop(h)
      PROVE  RotationInvariant'
  <2>1. \A k \in Holders : rfPc'[k] = "storing" <=> rfPc[k] = "storing"
    BY <1>1, <1>2 DEF Take, Drop
  <2>2. UNCHANGED <<live, storedToken, refreshLock, dedup, got>>
    BY <1>2 DEF Take, Drop
  <2> QED
    BY <1>0, <2>1, <2>2 DEF RotationInvariant
<1>3. ASSUME NEW h \in Holders, Renew(h)
      PROVE  RotationInvariant'
  BY <1>0, <1>3, RenewKeepsRotation
<1>4. ASSUME NEW h \in Holders, Store(h)
      PROVE  RotationInvariant'
  BY <1>0, <1>4, StoreKeepsRotation
<1>5. ASSUME NEW result \in Results, Answer(result)
      PROVE  RotationInvariant'
  BY <1>0, <1>5, AnswerKeepsRotation
<1>6. ASSUME NEW g \in Generations, Forget(g)
      PROVE  RotationInvariant'
  <2>1. \A k \in Generations : dedup'[k] = "renewed" => dedup[k] = "renewed"
    BY <1>1, <1>6 DEF Forget
  <2> QED
    BY <1>0, <1>6, <2>1 DEF Forget, RotationInvariant
<1>7. CASE UNCHANGED refreshVars
  BY <1>0, <1>7 DEF refreshVars, RotationInvariant
<1> QED
  BY <1>2, <1>3, <1>4, <1>5, <1>6, <1>7 DEF RefreshNext

LEMMA RotationStarts == RefreshInit => RotationInvariant
<1>1. \A g \in Generations : [k \in Generations |-> "none"][g] # "renewed"
  OBVIOUS
<1> QED
  BY <1>1 DEF RefreshInit, RotationInvariant

LEMMA RotationIsEnough == (~hasty => RotationInvariant) => OnlyHasteLosesRotations
  BY DEF RotationInvariant, RotationIsKept, OnlyHasteLosesRotations

\* A rotation is lost only after a token was renewed while its own issue was still
\* remembered, less than REFRESH_RESULT_TTL_MS after it: otherwise the database holds
\* the token the server accepts, or a holder is about to write it, whoever joins whose
\* refresh and however long holders keep an older record.
THEOREM RotationsAreLostInHaste == RefreshSpec => []OnlyHasteLosesRotations
<1>1. LockInvariant /\ (~hasty => RotationInvariant) /\ [RefreshNext]_refreshVars
        => (~hasty => RotationInvariant)'
  BY StepsKeepRotation
<1> QED
  BY <1>1, RotationStarts, RotationIsEnough, LockInvariantHolds, PTL DEF RefreshSpec

-----------------------------------------------------------------------------
(* Blocks of a model's quota *)

BlockTypeOK ==
    /\ quotaCache \in [QuotaModels -> Readings]
    /\ blockedFor \in [QuotaModels -> -1 .. StrikeBlock]

BlockInvariant == BlockTypeOK /\ NoGhostBlock

LEMMA ReadingTypes ==
    /\ StrikeBlock \in Nat
    /\ Longest \in Nat
    /\ NoReading \in Readings /\ ~NoReading.byStrikes
    /\ \A t \in 0 .. StrikeBlock :
         BlockedReading(t) \in Readings /\ BlockedReading(t).resetIn = t
    /\ \A u \in UpstreamReadings : u \in Readings /\ ~u.byStrikes
<1>1. StrikeBlock \in Nat /\ MaxReset \in Nat
  BY QuotaAssumption
<1>2. /\ Longest \in Nat
      /\ \A t \in 0 .. StrikeBlock : t \in 0 .. Longest
      /\ \A t \in 0 .. MaxReset : t \in 0 .. Longest
      /\ 0 \in 0 .. Longest
  BY <1>1 DEF Longest
<1>3. NoReading \in Readings /\ ~NoReading.byStrikes
  BY <1>2 DEF NoReading, Readings
<1>4. ASSUME NEW t \in 0 .. StrikeBlock
      PROVE  BlockedReading(t) \in Readings /\ BlockedReading(t).resetIn = t
  BY <1>2 DEF BlockedReading, Readings
<1>5. ASSUME NEW u \in UpstreamReadings
      PROVE  u \in Readings /\ ~u.byStrikes
  <2>1. CASE u = NoReading
    BY <1>3, <2>1
  <2>2. CASE u \in [remains : {"some"}, resetIn : {0}, byStrikes : {FALSE}]
    BY <1>2, <2>2 DEF Readings
  <2>3. CASE u \in [remains : {"zero"}, resetIn : 0 .. MaxReset, byStrikes : {FALSE}]
    BY <1>2, <2>3 DEF Readings
  <2> QED
    BY <2>1, <2>2, <2>3 DEF UpstreamReadings
<1> QED
  BY <1>1, <1>2, <1>3, <1>4, <1>5

LEMMA ClearingKeepsBlocks ==
    ASSUME BlockInvariant, NEW a, ClearStrikes(a)
    PROVE  BlockInvariant'
<1> USE DEF BlockInvariant, BlockTypeOK
<1>1. BlockTypeOK'
  <2>1. quotaCache' \in [QuotaModels -> Readings]
    BY ReadingTypes DEF ClearStrikes
  <2>2. -1 \in -1 .. StrikeBlock
    BY ReadingTypes
  <2>3. blockedFor' = [blockedFor EXCEPT ![a] = -1]
    BY DEF ClearStrikes
  <2> QED
    BY <2>1, <2>2, <2>3
<1>2. ASSUME NEW m \in QuotaModels, quotaCache'[m].byStrikes, Skipped(m)'
      PROVE  blockedFor'[m] = quotaCache'[m].resetIn
  <2>1. m # a
    BY <1>2, ReadingTypes DEF ClearStrikes, NoGhostBlock, Skipped, Readings
  <2> QED
    BY <1>2, <2>1 DEF ClearStrikes, NoGhostBlock, Skipped
<1> QED
  BY <1>1, <1>2 DEF NoGhostBlock

LEMMA AnswerKeepsBlocks ==
    ASSUME BlockInvariant, NEW quotas \in [QuotaModels -> UpstreamReadings], ApplyBlocks(quotas)
    PROVE  BlockInvariant'
<1> USE DEF BlockInvariant, BlockTypeOK
<1>1. BlockTypeOK'
  BY ReadingTypes DEF ApplyBlocks
<1>2. ASSUME NEW m \in QuotaModels, quotaCache'[m].byStrikes
      PROVE  blockedFor'[m] = quotaCache'[m].resetIn
  <2>1. blockedFor[m] > 0
    BY <1>2, ReadingTypes DEF ApplyBlocks
  <2>2. quotaCache'[m] = BlockedReading(blockedFor[m]) /\ blockedFor'[m] = blockedFor[m]
    BY <2>1 DEF ApplyBlocks
  <2> QED
    BY <2>1, <2>2, ReadingTypes
<1> QED
  BY <1>1, <1>2 DEF NoGhostBlock

LEMMA TickKeepsBlocks ==
    ASSUME BlockInvariant, QuotaTick
    PROVE  BlockInvariant'
<1> USE DEF BlockInvariant, BlockTypeOK
<1>1. ASSUME NEW m \in QuotaModels
      PROVE  /\ quotaCache'[m] = [quotaCache[m] EXCEPT !.resetIn = Earlier(@)]
             /\ quotaCache'[m] \in Readings
             /\ quotaCache'[m].resetIn = Earlier(quotaCache[m].resetIn)
             /\ blockedFor'[m] = Earlier(blockedFor[m])
             /\ blockedFor'[m] \in -1 .. StrikeBlock
  <2>1. /\ quotaCache'[m] = [quotaCache[m] EXCEPT !.resetIn = Earlier(@)]
        /\ blockedFor'[m] = Earlier(blockedFor[m])
    BY DEF QuotaTick
  <2>2. quotaCache[m] \in Readings /\ blockedFor[m] \in -1 .. StrikeBlock
    OBVIOUS
  <2>3. /\ \A t \in 0 .. Longest : Earlier(t) \in 0 .. Longest
        /\ Earlier(blockedFor[m]) \in -1 .. StrikeBlock
    BY <2>2, ReadingTypes DEF Earlier
  <2>4. /\ quotaCache'[m] \in Readings
        /\ quotaCache'[m].resetIn = Earlier(quotaCache[m].resetIn)
    BY <2>1, <2>2, <2>3 DEF Readings
  <2> QED
    BY <2>1, <2>3, <2>4
<1>2. BlockTypeOK'
  BY <1>1 DEF QuotaTick
<1>3. ASSUME NEW m \in QuotaModels, quotaCache'[m].byStrikes, Skipped(m)'
      PROVE  blockedFor'[m] = quotaCache'[m].resetIn
  <2>1. quotaCache[m] \in Readings
    OBVIOUS
  <2>2. quotaCache[m].byStrikes /\ Skipped(m)
    BY <1>1, <1>3, <2>1 DEF Skipped, Earlier, Readings
  <2> QED
    BY <1>1, <2>2 DEF NoGhostBlock
<1> QED
  BY <1>2, <1>3 DEF NoGhostBlock

LEMMA StepsKeepBlocks == BlockInvariant /\ [QuotaNext]_quotaVars => BlockInvariant'
<1> SUFFICES ASSUME BlockInvariant, [QuotaNext]_quotaVars
             PROVE  BlockInvariant'
  OBVIOUS
<1>1. ASSUME UNCHANGED <<quotaCache, blockedFor>>
      PROVE  BlockInvariant'
  BY <1>1 DEF BlockInvariant, BlockTypeOK, NoGhostBlock, Skipped
<1>2. ASSUME NEW r \in QuotaRequests, NEW m \in QuotaModels, Send(r, m)
      PROVE  BlockInvariant'
  BY <1>1, <1>2 DEF Send
<1>3. ASSUME NEW r \in QuotaRequests, Succeed(r)
      PROVE  BlockInvariant'
  BY <1>3, ClearingKeepsBlocks DEF Succeed
<1>4. ASSUME NEW r \in QuotaRequests, Refused(r) \/ FailOtherwise(r)
      PROVE  BlockInvariant'
  BY <1>1, <1>4 DEF Refused, FailOtherwise
<1>5. ASSUME NEW r \in QuotaRequests, Judge(r)
      PROVE  BlockInvariant'
  <2> DEFINE a == asked[r]
  <2>1. CASE UNCHANGED <<quotaCache, blockedFor>>
    BY <1>1, <2>1
  <2>2. CASE /\ quotaCache' = [quotaCache EXCEPT ![a] = BlockedReading(StrikeBlock)]
             /\ blockedFor' = [blockedFor EXCEPT ![a] = StrikeBlock]
    <3>1. BlockTypeOK'
      <4>1. StrikeBlock \in 0 .. StrikeBlock /\ StrikeBlock \in -1 .. StrikeBlock
        BY ReadingTypes
      <4>2. BlockedReading(StrikeBlock) \in Readings
        BY <4>1, ReadingTypes
      <4> QED
        BY <2>2, <4>1, <4>2 DEF BlockInvariant, BlockTypeOK
    <3>2. NoGhostBlock'
      BY <2>2, ReadingTypes DEF BlockInvariant, BlockTypeOK, NoGhostBlock, Skipped
    <3> QED
      BY <3>1, <3>2 DEF BlockInvariant
  <2> QED
    BY <1>5, <2>1, <2>2 DEF Judge
<1>6. ASSUME NEW quotas \in [QuotaModels -> UpstreamReadings], QuotaAnswer(quotas)
      PROVE  BlockInvariant'
  BY <1>1, <1>6, AnswerKeepsBlocks DEF QuotaAnswer
<1>7. CASE QuotaTick
  BY <1>7, TickKeepsBlocks
<1>8. CASE UNCHANGED quotaVars
  BY <1>1, <1>8 DEF quotaVars
<1> QED
  BY <1>2, <1>3, <1>4, <1>5, <1>6, <1>7, <1>8 DEF QuotaNext

LEMMA BlocksStart == QuotaInit => BlockInvariant
  BY ReadingTypes DEF QuotaInit, BlockInvariant, BlockTypeOK, NoGhostBlock

\* For any number of requests and models: a model is skipped because of strikes only
\* while its block is there; a success or the end of the block leaves nothing behind.
THEOREM BlocksLeaveNoGhosts == QuotaSpec => []NoGhostBlock
<1>1. BlockInvariant => NoGhostBlock
  BY DEF BlockInvariant
<1> QED
  BY <1>1, BlocksStart, StepsKeepBlocks, PTL DEF QuotaSpec
-----------------------------------------------------------------------------
(* Strikes of a model *)

\* The older, the more refusals are that old at most.
DoubtsGrow ==
    \A m \in QuotaModels : \A a, b \in 0 .. StrikeWindow : a <= b => doubts[m][a] <= doubts[m][b]

\* Every strike of a window that runs was a refusal not older than the window.
StrikesAreDoubts ==
    \A m \in QuotaModels :
        strikes[m].count > 0 /\ strikes[m].age <= StrikeWindow =>
            strikes[m].count <= doubts[m][strikes[m].age]

StrikeInvariant == QuotaTypeOK /\ DoubtsGrow /\ StrikesAreDoubts

Strikes == [count : 0 .. StrikeThreshold, age : 0 .. StrikeWindow + 1]

Doubts == [0 .. StrikeWindow -> Nat]

LEMMA StrikeTypes ==
    /\ StrikeThreshold \in Nat \ {0}
    /\ StrikeWindow \in Nat
    /\ 0 \in 0 .. StrikeWindow /\ StrikeWindow \in 0 .. StrikeWindow
    /\ NoStrikes \in Strikes /\ NoStrikes.count = 0
    /\ NoDoubts \in Doubts /\ \A a \in 0 .. StrikeWindow : NoDoubts[a] = 0
<1>1. StrikeThreshold \in Nat \ {0} /\ StrikeWindow \in Nat
  BY QuotaAssumption
<1> QED
  BY <1>1 DEF NoStrikes, Strikes, NoDoubts, Doubts

\* A model whose strikes and doubts both start anew, or both stay.
LEMMA AnewKeepsStrikes ==
    ASSUME StrikeInvariant, QuotaTypeOK', NEW a,
           strikes' = [strikes EXCEPT ![a] = NoStrikes],
           doubts' = [doubts EXCEPT ![a] = NoDoubts]
    PROVE  StrikeInvariant'
<1> USE DEF StrikeInvariant, QuotaTypeOK
<1>1. ASSUME NEW m \in QuotaModels
      PROVE  /\ m = a => strikes'[m] = NoStrikes /\ doubts'[m] = NoDoubts
             /\ m # a => strikes'[m] = strikes[m] /\ doubts'[m] = doubts[m]
  OBVIOUS
<1>2. DoubtsGrow'
  <2> SUFFICES ASSUME NEW m \in QuotaModels, NEW x \in 0 .. StrikeWindow,
                      NEW y \in 0 .. StrikeWindow, x <= y
               PROVE  doubts'[m][x] <= doubts'[m][y]
    BY DEF DoubtsGrow
  <2>1. CASE m = a
    <3>1. doubts'[m][x] = 0 /\ doubts'[m][y] = 0
      BY <1>1, <2>1, StrikeTypes
    <3> QED
      BY <3>1
  <2>2. CASE m # a
    BY <1>1, <2>2 DEF DoubtsGrow
  <2> QED
    BY <2>1, <2>2
<1>3. StrikesAreDoubts'
  <2> SUFFICES ASSUME NEW m \in QuotaModels, strikes'[m].count > 0, strikes'[m].age <= StrikeWindow
               PROVE  strikes'[m].count <= doubts'[m][strikes'[m].age]
    BY DEF StrikesAreDoubts
  <2>1. m # a
    BY <1>1, StrikeTypes
  <2> QED
    BY <1>1, <2>1 DEF StrikesAreDoubts
<1> QED
  BY <1>2, <1>3

LEMMA CountedIsDoubted ==
    ASSUME StrikeInvariant, NEW m \in QuotaModels
    PROVE  /\ Counted(m).count \in Nat \ {0}
           /\ Counted(m).age \in 0 .. StrikeWindow
           /\ Counted(m) = [count |-> Counted(m).count, age |-> Counted(m).age]
           /\ Counted(m).count - 1 <= doubts[m][Counted(m).age]
<1>1. strikes[m] \in Strikes /\ doubts[m] \in Doubts
  BY DEF StrikeInvariant, QuotaTypeOK, Strikes, Doubts
<1>2. CASE strikes[m].count > 0 /\ strikes[m].age <= StrikeWindow
  <2>1. Counted(m) = [count |-> strikes[m].count + 1, age |-> strikes[m].age]
    BY <1>1, <1>2 DEF Counted, Strikes
  <2>2. strikes[m].count <= doubts[m][strikes[m].age]
    BY <1>2 DEF StrikeInvariant, StrikesAreDoubts
  <2>3. strikes[m].count \in Nat /\ strikes[m].age \in 0 .. StrikeWindow
    BY <1>1, <1>2, StrikeTypes DEF Strikes
  <2> QED
    BY <1>1, <2>1, <2>2, <2>3 DEF Doubts
<1>3. CASE ~(strikes[m].count > 0 /\ strikes[m].age <= StrikeWindow)
  <2>1. Counted(m) = [count |-> 1, age |-> 0]
    BY <1>3 DEF Counted
  <2>2. doubts[m][0] \in Nat
    BY <1>1, StrikeTypes DEF Doubts
  <2> QED
    BY <2>1, <2>2, StrikeTypes
<1> QED
  BY <1>2, <1>3

LEMMA StrikeKeepsStrikes ==
    ASSUME StrikeInvariant, QuotaTypeOK', NEW a \in QuotaModels,
           strikes' = [strikes EXCEPT ![a] = Counted(a)],
           doubts' = [doubts EXCEPT ![a] = OneMore(@)]
    PROVE  StrikeInvariant'
<1> USE DEF StrikeInvariant, QuotaTypeOK
<1>1. ASSUME NEW m \in QuotaModels
      PROVE  /\ m = a => strikes'[m] = Counted(m) /\ doubts'[m] = OneMore(doubts[m])
             /\ m # a => strikes'[m] = strikes[m] /\ doubts'[m] = doubts[m]
  OBVIOUS
<1>2. \A m \in QuotaModels : doubts[m] \in Doubts
  BY DEF Doubts
<1>3. DoubtsGrow'
  <2> SUFFICES ASSUME NEW m \in QuotaModels, NEW x \in 0 .. StrikeWindow,
                      NEW y \in 0 .. StrikeWindow, x <= y
               PROVE  doubts'[m][x] <= doubts'[m][y]
    BY DEF DoubtsGrow
  <2>1. doubts[m][x] \in Nat /\ doubts[m][y] \in Nat /\ doubts[m][x] <= doubts[m][y]
    BY <1>2 DEF DoubtsGrow, Doubts
  <2>2. \/ doubts'[m][x] = doubts[m][x] + 1 /\ doubts'[m][y] = doubts[m][y] + 1
        \/ doubts'[m][x] = doubts[m][x] /\ doubts'[m][y] = doubts[m][y]
    BY <1>1 DEF OneMore
  <2> HIDE DEF StrikeInvariant, QuotaTypeOK
  <2> QED
    BY <2>1, <2>2
<1>4. StrikesAreDoubts'
  <2> SUFFICES ASSUME NEW m \in QuotaModels, strikes'[m].count > 0, strikes'[m].age <= StrikeWindow
               PROVE  strikes'[m].count <= doubts'[m][strikes'[m].age]
    BY DEF StrikesAreDoubts
  <2>1. CASE m = a
    <3>1. strikes'[m] = Counted(m) /\ doubts'[m] = OneMore(doubts[m])
      BY <1>1, <2>1
    <3>2. /\ Counted(m).count \in Nat
          /\ Counted(m).age \in 0 .. StrikeWindow
          /\ Counted(m).count - 1 <= doubts[m][Counted(m).age]
      BY CountedIsDoubted
    <3>3. doubts'[m][Counted(m).age] = doubts[m][Counted(m).age] + 1
      BY <3>1, <3>2 DEF OneMore
    <3>4. doubts[m][Counted(m).age] \in Nat
      BY <1>2, <3>2 DEF Doubts
    <3>5. Counted(m).count <= doubts'[m][Counted(m).age]
      <4>1. PICK n \in Nat : n = Counted(m).count
        BY <3>2
      <4>2. PICK d \in Nat : d = doubts[m][Counted(m).age]
        BY <3>4
      <4>3. n - 1 <= d
        BY <3>2, <4>1, <4>2
      <4>4. n <= d + 1
        BY <4>3
      <4> QED
        BY <3>3, <4>1, <4>2, <4>4
    <3> QED
      BY <3>1, <3>5
  <2>2. CASE m # a
    BY <1>1, <2>2 DEF StrikesAreDoubts
  <2> QED
    BY <2>1, <2>2
<1> QED
  BY <1>3, <1>4

LEMMA TickKeepsStrikes ==
    ASSUME StrikeInvariant, QuotaTick, BlockTypeOK'
    PROVE  StrikeInvariant'
<1> USE DEF StrikeInvariant
<1>1. ASSUME NEW m \in QuotaModels
      PROVE  /\ strikes[m] \in Strikes /\ doubts[m] \in Doubts
             /\ strikes'[m] \in Strikes /\ doubts'[m] \in Doubts
             /\ \A a \in 0 .. StrikeWindow :
                  doubts'[m][a] = IF a = 0 THEN 0 ELSE doubts[m][a - 1]
             /\ \/ strikes[m].count > 0 /\ strikes[m].age <= StrikeWindow
                     /\ strikes'[m] = [count |-> strikes[m].count, age |-> strikes[m].age + 1]
                \/ ~(strikes[m].count > 0 /\ strikes[m].age <= StrikeWindow)
                     /\ strikes'[m] = strikes[m]
  <2>1. strikes[m] \in Strikes /\ doubts[m] \in Doubts
    BY DEF QuotaTypeOK, Strikes, Doubts
  <2>2. doubts'[m] = OneTickOlder(doubts[m])
    BY DEF QuotaTick
  <2>3. strikes'[m] = IF strikes[m].count > 0 /\ strikes[m].age <= StrikeWindow
                      THEN [strikes[m] EXCEPT !.age = @ + 1] ELSE strikes[m]
    BY DEF QuotaTick
  <2>4. \A a \in 0 .. StrikeWindow : a # 0 => doubts[m][a - 1] \in Nat
    <3>1. \A a \in 0 .. StrikeWindow : a # 0 => a - 1 \in 0 .. StrikeWindow
      BY StrikeTypes
    <3> QED
      BY <2>1, <3>1 DEF Doubts
  <2>5. doubts'[m] \in Doubts
           /\ \A a \in 0 .. StrikeWindow : doubts'[m][a] = IF a = 0 THEN 0 ELSE doubts[m][a - 1]
    <3>1. doubts'[m] = [a \in 0 .. StrikeWindow |-> IF a = 0 THEN 0 ELSE doubts[m][a - 1]]
      BY <2>2 DEF OneTickOlder
    <3>2. \A a \in 0 .. StrikeWindow : (IF a = 0 THEN 0 ELSE doubts[m][a - 1]) \in Nat
      BY <2>4
    <3> QED
      BY <3>1, <3>2 DEF Doubts
  <2>6. [strikes[m] EXCEPT !.age = @ + 1] = [count |-> strikes[m].count, age |-> strikes[m].age + 1]
    BY <2>1 DEF Strikes
  <2>7. strikes[m].age <= StrikeWindow => strikes[m].age + 1 \in 0 .. StrikeWindow + 1
    BY <2>1, StrikeTypes DEF Strikes
  <2>8. strikes'[m] \in Strikes
    BY <2>1, <2>3, <2>6, <2>7 DEF Strikes
  <2> QED
    BY <2>1, <2>3, <2>5, <2>6, <2>8
<1>2. QuotaTypeOK'
  <2>1. sinceRefresh' \in 0 .. RefreshInterval
    BY QuotaAssumption DEF QuotaTick, QuotaTypeOK
  <2>2. strikes' \in [QuotaModels -> Strikes]
    BY <1>1 DEF QuotaTick
  <2>3. doubts' \in [QuotaModels -> Doubts]
    BY <1>1 DEF QuotaTick
  <2>4. UNCHANGED <<inflight, quotaPc, asked, reading>>
    BY DEF QuotaTick
  <2> QED
    BY <2>1, <2>2, <2>3, <2>4 DEF QuotaTypeOK, BlockTypeOK, Strikes, Doubts
<1>3. DoubtsGrow'
  <2> SUFFICES ASSUME NEW m \in QuotaModels, NEW x \in 0 .. StrikeWindow,
                      NEW y \in 0 .. StrikeWindow, x <= y
               PROVE  doubts'[m][x] <= doubts'[m][y]
    BY DEF DoubtsGrow
  <2>1. CASE x = 0
    <3>1. doubts'[m][x] = 0
      BY <1>1, <2>1
    <3>2. doubts'[m][y] \in Nat
      BY <1>1 DEF Doubts
    <3> QED
      BY <3>1, <3>2
  <2>2. CASE x # 0
    <3>1. y # 0 /\ x - 1 \in 0 .. StrikeWindow /\ y - 1 \in 0 .. StrikeWindow /\ x - 1 <= y - 1
      BY <2>2, StrikeTypes
    <3>2. doubts[m][x - 1] <= doubts[m][y - 1]
      BY <3>1 DEF DoubtsGrow
    <3> QED
      BY <1>1, <2>2, <3>1, <3>2
  <2> QED
    BY <2>1, <2>2
<1>4. StrikesAreDoubts'
  <2> SUFFICES ASSUME NEW m \in QuotaModels, strikes'[m].count > 0, strikes'[m].age <= StrikeWindow
               PROVE  strikes'[m].count <= doubts'[m][strikes'[m].age]
    BY DEF StrikesAreDoubts
  <2>1. strikes[m].count > 0 /\ strikes[m].age <= StrikeWindow
          /\ strikes'[m] = [count |-> strikes[m].count, age |-> strikes[m].age + 1]
    BY <1>1
  <2>2. strikes[m].age + 1 \in 0 .. StrikeWindow /\ strikes[m].age \in Nat
    BY <1>1, <2>1, StrikeTypes DEF Strikes
  <2>3. doubts'[m][strikes[m].age + 1] = doubts[m][strikes[m].age]
    <3>1. PICK k \in 0 .. StrikeWindow : k = strikes[m].age + 1
      BY <2>2
    <3>2. k # 0 /\ k - 1 = strikes[m].age
      BY <2>2, <3>1
    <3>3. doubts'[m][k] = IF k = 0 THEN 0 ELSE doubts[m][k - 1]
      BY <1>1, <3>1
    <3> QED
      BY <3>1, <3>2, <3>3
  <2> QED
    BY <2>1, <2>3 DEF StrikesAreDoubts
<1> QED
  BY <1>2, <1>3, <1>4

LEMMA StepsKeepStrikes ==
    BlockInvariant' /\ StrikeInvariant /\ [QuotaNext]_quotaVars => StrikeInvariant'
<1> SUFFICES ASSUME BlockInvariant', StrikeInvariant, [QuotaNext]_quotaVars
             PROVE  StrikeInvariant'
  OBVIOUS
<1>1. BlockTypeOK'
  BY DEF BlockInvariant
<1>2. ASSUME UNCHANGED <<strikes, doubts>>, QuotaTypeOK'
      PROVE  StrikeInvariant'
  BY <1>2 DEF StrikeInvariant, DoubtsGrow, StrikesAreDoubts
<1>3. /\ strikes \in [QuotaModels -> Strikes] /\ doubts \in [QuotaModels -> Doubts]
      /\ sinceRefresh \in 0 .. RefreshInterval /\ 0 \in 0 .. RefreshInterval /\ inflight \in BOOLEAN
      /\ quotaPc \in [QuotaRequests -> {"idle", "upstream", "waiting", "resumed"}]
      /\ asked \in [QuotaRequests -> QuotaModels]
      /\ reading \in [QuotaRequests -> BOOLEAN]
  BY QuotaAssumption DEF StrikeInvariant, QuotaTypeOK, Strikes, Doubts
<1>4. ASSUME NEW r \in QuotaRequests, NEW m \in QuotaModels, Send(r, m)
      PROVE  StrikeInvariant'
  <2>1. QuotaTypeOK'
    BY <1>1, <1>3, <1>4 DEF Send, QuotaTypeOK, BlockTypeOK, Strikes, Doubts
  <2> QED
    BY <1>2, <1>4, <2>1 DEF Send
<1>5. ASSUME NEW r \in QuotaRequests, Succeed(r)
      PROVE  StrikeInvariant'
  <2>1. /\ strikes' = [strikes EXCEPT ![asked[r]] = NoStrikes]
        /\ doubts' = [doubts EXCEPT ![asked[r]] = NoDoubts]
    BY <1>5 DEF Succeed, ClearStrikes
  <2>2. strikes' \in [QuotaModels -> Strikes] /\ doubts' \in [QuotaModels -> Doubts]
    BY <1>3, <2>1, StrikeTypes
  <2>3. QuotaTypeOK'
    BY <1>1, <1>3, <1>5, <2>2 DEF Succeed, QuotaTypeOK, BlockTypeOK, Strikes, Doubts
  <2> QED
    BY <2>1, <2>3, AnewKeepsStrikes
<1>6. ASSUME NEW r \in QuotaRequests, Refused(r) \/ FailOtherwise(r)
      PROVE  StrikeInvariant'
  <2>1. QuotaTypeOK'
    BY <1>1, <1>3, <1>6 DEF Refused, FailOtherwise, QuotaTypeOK, BlockTypeOK, Strikes, Doubts
  <2> QED
    BY <1>2, <1>6, <2>1 DEF Refused, FailOtherwise
<1>7. ASSUME NEW r \in QuotaRequests, Judge(r)
      PROVE  StrikeInvariant'
  <2>1. PICK a \in QuotaModels : a = asked[r]
    BY <1>3
  <2>2. /\ quotaPc' = [quotaPc EXCEPT ![r] = "idle"]
        /\ reading' = [reading EXCEPT ![r] = FALSE]
        /\ UNCHANGED <<sinceRefresh, inflight, asked>>
    BY <1>7 DEF Judge
  <2>3. ASSUME strikes' \in [QuotaModels -> Strikes], doubts' \in [QuotaModels -> Doubts]
        PROVE  QuotaTypeOK'
    BY <1>1, <1>3, <2>2, <2>3 DEF QuotaTypeOK, BlockTypeOK, Strikes, Doubts
  <2>4. CASE /\ strikes' = [strikes EXCEPT ![a] = NoStrikes]
             /\ doubts' = [doubts EXCEPT ![a] = NoDoubts]
    <3>1. QuotaTypeOK'
      BY <1>3, <2>3, <2>4, StrikeTypes
    <3> QED
      BY <2>4, <3>1, AnewKeepsStrikes
  <2>5. CASE /\ Counted(a).count < StrikeThreshold
             /\ strikes' = [strikes EXCEPT ![a] = Counted(a)]
             /\ doubts' = [doubts EXCEPT ![a] = OneMore(@)]
    <3>1. Counted(a) \in Strikes
      <4>1. Counted(a).count \in 0 .. StrikeThreshold /\ Counted(a).age \in 0 .. StrikeWindow + 1
        BY <2>5, CountedIsDoubted, StrikeTypes
      <4>2. Counted(a) = [count |-> Counted(a).count, age |-> Counted(a).age]
        BY CountedIsDoubted
      <4> QED
        BY <4>1, <4>2 DEF Strikes
    <3>2. OneMore(doubts[a]) \in Doubts
      <4>1. PICK d \in Doubts : d = doubts[a]
        BY <1>3
      <4>2. OneMore(d) \in Doubts
        BY DEF OneMore, Doubts
      <4> QED
        BY <4>1, <4>2
    <3>3. QuotaTypeOK'
      BY <1>3, <2>3, <2>5, <3>1, <3>2
    <3> QED
      BY <2>5, <3>3, StrikeKeepsStrikes
  <2> QED
    BY <1>7, <2>1, <2>4, <2>5 DEF Judge
<1>8. ASSUME NEW quotas \in [QuotaModels -> UpstreamReadings], QuotaAnswer(quotas)
      PROVE  StrikeInvariant'
  <2>1. QuotaTypeOK'
    BY <1>1, <1>3, <1>8 DEF QuotaAnswer, Resumed, QuotaTypeOK, BlockTypeOK, Strikes, Doubts
  <2> QED
    BY <1>2, <1>8, <2>1 DEF QuotaAnswer
<1>9. CASE QuotaTick
  BY <1>1, <1>9, TickKeepsStrikes
<1>10. CASE UNCHANGED quotaVars
  BY <1>2, <1>10 DEF quotaVars, StrikeInvariant, QuotaTypeOK
<1> QED
  BY <1>4, <1>5, <1>6, <1>7, <1>8, <1>9, <1>10 DEF QuotaNext

\* Only the judgement of a refusal sets a block, on a strike that completes the series.
LEMMA BlockingIsEarned ==
    ASSUME StrikeInvariant, [QuotaNext]_quotaVars, NEW m \in QuotaModels,
           blockedFor'[m] > blockedFor[m]
    PROVE  doubts[m][StrikeWindow] >= StrikeThreshold - 1
<1>1. blockedFor \in [QuotaModels -> -1 .. StrikeBlock] /\ StrikeBlock \in Nat
  BY ReadingTypes DEF StrikeInvariant, QuotaTypeOK
<1>2. PICK r \in QuotaRequests : Judge(r)
  <2>1. blockedFor' # blockedFor
    BY <1>1
  <2>2. ASSUME NEW r \in QuotaRequests, Succeed(r)
        PROVE  FALSE
    BY <1>1, <2>2 DEF Succeed, ClearStrikes
  <2>3. ASSUME NEW quotas \in [QuotaModels -> UpstreamReadings], QuotaAnswer(quotas)
        PROVE  FALSE
    <3>1. blockedFor' = [k \in QuotaModels |-> IF blockedFor[k] = 0 THEN -1 ELSE blockedFor[k]]
      BY <2>1, <2>3 DEF QuotaAnswer, ApplyBlocks
    <3> QED
      BY <1>1, <3>1
  <2>4. ASSUME QuotaTick
        PROVE  FALSE
    BY <1>1, <2>4 DEF QuotaTick, Earlier
  <2> QED
    BY <2>1, <2>2, <2>3, <2>4 DEF QuotaNext, quotaVars, Send, Refused, FailOtherwise
<1>3. asked[r] \in QuotaModels
  BY DEF StrikeInvariant, QuotaTypeOK
<1>4. m = asked[r] /\ Counted(m).count >= StrikeThreshold
  BY <1>1, <1>2, <1>3 DEF Judge
<1>5. /\ Counted(m).count \in Nat
      /\ Counted(m).age \in 0 .. StrikeWindow
      /\ Counted(m).count - 1 <= doubts[m][Counted(m).age]
  BY CountedIsDoubted
<1>6. PICK k \in 0 .. StrikeWindow : k = Counted(m).age
  BY <1>5
<1>7. /\ doubts[m][k] \in Nat
      /\ doubts[m][StrikeWindow] \in Nat
      /\ k <= StrikeWindow /\ StrikeWindow \in 0 .. StrikeWindow
  BY StrikeTypes DEF StrikeInvariant, QuotaTypeOK
<1>8. doubts[m][k] <= doubts[m][StrikeWindow]
  BY <1>7 DEF StrikeInvariant, DoubtsGrow
<1>9. PICK n \in Nat : n = Counted(m).count
  BY <1>5
<1>10. n - 1 <= doubts[m][k] /\ n >= StrikeThreshold
  BY <1>4, <1>5, <1>6, <1>9
<1> QED
  BY <1>7, <1>8, <1>10, StrikeTypes

LEMMA StrikesStart == QuotaInit => BlockInvariant /\ StrikeInvariant
<1> SUFFICES ASSUME QuotaInit
             PROVE  BlockInvariant /\ StrikeInvariant
  OBVIOUS
<1>1. BlockInvariant
  BY BlocksStart
<1>2. QuotaTypeOK
  <2>1. (CHOOSE m \in QuotaModels : TRUE) \in QuotaModels
    BY QuotaAssumption
  <2>2. asked \in [QuotaRequests -> QuotaModels]
    BY <2>1 DEF QuotaInit
  <2>3. strikes \in [QuotaModels -> Strikes] /\ doubts \in [QuotaModels -> Doubts]
    BY StrikeTypes DEF QuotaInit
  <2>4. sinceRefresh \in 0 .. RefreshInterval
    BY QuotaAssumption DEF QuotaInit
  <2>5. /\ inflight \in BOOLEAN
        /\ quotaPc \in [QuotaRequests -> {"idle", "upstream", "waiting", "resumed"}]
        /\ reading \in [QuotaRequests -> BOOLEAN]
    BY DEF QuotaInit
  <2> QED
    BY <1>1, <2>2, <2>3, <2>4, <2>5 DEF QuotaTypeOK, BlockInvariant, BlockTypeOK, Strikes, Doubts
<1>3. DoubtsGrow /\ StrikesAreDoubts
  BY StrikeTypes DEF QuotaInit, DoubtsGrow, StrikesAreDoubts
<1> QED
  BY <1>1, <1>2, <1>3 DEF StrikeInvariant

\* For any number of requests and models, and any threshold and window: a block is set
\* only on the StrikeThreshold-th unexplained refusal within the window, without a
\* success in between; and the variables of the strike breaker keep their types.
THEOREM BlocksNeedStrikes == QuotaSpec => []QuotaTypeOK /\ BlocksAreEarned
<1>1. StrikeInvariant => QuotaTypeOK
  BY DEF StrikeInvariant
<1>2. StrikeInvariant /\ [QuotaNext]_quotaVars =>
        [\A m \in QuotaModels :
           blockedFor'[m] > blockedFor[m] => doubts[m][StrikeWindow] >= StrikeThreshold - 1]_quotaVars
  BY BlockingIsEarned
<1> QED
  BY <1>1, <1>2, StrikesStart, StepsKeepBlocks, StepsKeepStrikes, PTL DEF QuotaSpec, BlocksAreEarned
-----------------------------------------------------------------------------
(* Shared calls *)

\* Every step of a refresh is one of the flight it shares, or none of its: what
\* holders do before and after does not show.
LEMMA RefreshStepsFly ==
    ASSUME LockInvariant, [RefreshNext]_refreshVars
    PROVE  [Flight!Next]_(Flight!flightVars)
<1> DEFINE Among(state) == {h \in Holders : rfPc[h] = state}
<1>1. rfPc \in [Holders -> {"idle", "holding", "waiting", "storing"}]
  BY DEF LockInvariant, RefreshTypeOK
<1>2. ASSUME UNCHANGED refreshLock,
             \A k \in Holders : (rfPc'[k] = "waiting" <=> rfPc[k] = "waiting")
                             /\ (rfPc'[k] = "storing" <=> rfPc[k] = "storing")
      PROVE  UNCHANGED Flight!flightVars
  BY <1>2 DEF Flight!flightVars
<1>3. ASSUME NEW h \in Holders, Take(h) \/ Drop(h)
      PROVE  UNCHANGED Flight!flightVars
  <2>1. /\ UNCHANGED refreshLock
        /\ \A k \in Holders : (rfPc'[k] = "waiting" <=> rfPc[k] = "waiting")
                           /\ (rfPc'[k] = "storing" <=> rfPc[k] = "storing")
    BY <1>1, <1>3 DEF Take, Drop
  <2> QED
    BY <1>2, <2>1
<1>4. ASSUME NEW h \in Holders, Renew(h)
      PROVE  Flight!Next
  <2>1. rfPc[h] = "holding" /\ h \notin Among("waiting") /\ h \notin Among("storing")
    BY <1>4 DEF Renew
  <2>2. CASE rfPc' = [rfPc EXCEPT ![h] = "waiting"] /\ refreshLock' # NoToken
    <3>1. Among("waiting")' = Among("waiting") \union {h} /\ Among("storing")' = Among("storing")
      BY <1>1, <2>1, <2>2
    <3>2. Flight!Board(h)
      BY <2>1, <2>2, <3>1 DEF Flight!Board
    <3> QED
      BY <3>2 DEF Flight!Next
  <2>3. CASE rfPc' = [rfPc EXCEPT ![h] = "storing"] /\ refreshLock = NoToken /\ refreshLock' = NoToken
    <3>1. Among("storing")' = Among("storing") \union {h} /\ Among("waiting")' = Among("waiting")
      BY <1>1, <2>1, <2>3
    <3>2. Flight!MakeDo(h)
      BY <2>1, <2>3, <3>1 DEF Flight!MakeDo
    <3> QED
      BY <3>2 DEF Flight!Next
  <2>4. held[h] # NoToken
    BY TokenTypes DEF LockInvariant, RefreshTypeOK
  <2> QED
    BY <1>4, <2>2, <2>3, <2>4 DEF Renew, Present
<1>5. ASSUME NEW h \in Holders, Store(h)
      PROVE  Flight!Next
  <2>1. /\ rfPc[h] = "storing" /\ UNCHANGED refreshLock
        /\ rfPc' \in {[rfPc EXCEPT ![h] = "holding"], [rfPc EXCEPT ![h] = "idle"]}
    BY <1>5 DEF Store
  <2>2. Among("storing")' = Among("storing") \ {h} /\ Among("waiting")' = Among("waiting")
    BY <1>1, <2>1
  <2>3. Flight!GoOn(h)
    BY <2>1, <2>2 DEF Flight!GoOn
  <2> QED
    BY <2>3 DEF Flight!Next
<1>6. ASSUME NEW result \in Results, Answer(result)
      PROVE  Flight!Next
  <2>1. /\ refreshLock # NoToken /\ refreshLock' = NoToken
        /\ Among("storing") = {}
        /\ rfPc' = [h \in Holders |-> IF rfPc[h] = "waiting" THEN "storing" ELSE rfPc[h]]
    BY <1>6 DEF Answer, Settled
  <2>2. Among("waiting")' = {} /\ Among("storing")' = Among("waiting")
    BY <1>1, <2>1
  <2>3. Among("waiting") # {}
    BY <2>1 DEF LockInvariant, OneRefreshAtATime
  <2>4. Flight!Land
    BY <2>1, <2>2, <2>3 DEF Flight!Land
  <2> QED
    BY <2>4 DEF Flight!Next
<1>7. CASE (\E g \in Generations : Forget(g)) \/ UNCHANGED refreshVars
  <2>1. UNCHANGED refreshLock /\ UNCHANGED rfPc
    BY <1>7 DEF Forget, refreshVars
  <2> QED
    BY <1>2, <2>1
<1> QED
  BY <1>3, <1>4, <1>5, <1>6, <1>7 DEF RefreshNext

LEMMA FlightStarts == RefreshInit => Flight!Init
  BY DEF RefreshInit, Flight!Init

\* The callers of a refresh share it, however many they are and whatever generations
\* of the token they hold: the locks and the cache implement SingleFlight.
THEOREM RefreshesAreShared == RefreshSpec => RefreshIsSingleFlight
<1>1. LockInvariant /\ [RefreshNext]_refreshVars => [Flight!Next]_(Flight!flightVars)
  BY RefreshStepsFly
<1> QED
  BY <1>1, FlightStarts, LockInvariantHolds, PTL
     DEF RefreshSpec, RefreshIsSingleFlight, Flight!Spec

\* A quota request is under way exactly while somebody waits for it.
FlightInvariant ==
    /\ quotaPc \in [QuotaRequests -> {"idle", "upstream", "waiting", "resumed"}]
    /\ inflight \in BOOLEAN
    /\ inflight => \E r \in QuotaRequests : quotaPc[r] = "waiting"

\* What a step of the quota cache is to its flight.
LEMMA QuotaStepsFly ==
    ASSUME FlightInvariant, [QuotaNext]_quotaVars
    PROVE  FlightInvariant' /\ [QuotaFlight!Next]_(QuotaFlight!flightVars)
<1> DEFINE Among(state) == {r \in QuotaRequests : quotaPc[r] = state}
<1>1. /\ quotaPc \in [QuotaRequests -> {"idle", "upstream", "waiting", "resumed"}]
      /\ inflight \in BOOLEAN
      /\ inflight => \E r \in QuotaRequests : quotaPc[r] = "waiting"
  BY DEF FlightInvariant
<1>2. ASSUME UNCHANGED inflight,
             quotaPc' \in [QuotaRequests -> {"idle", "upstream", "waiting", "resumed"}],
             \A k \in QuotaRequests : (quotaPc'[k] = "waiting" <=> quotaPc[k] = "waiting")
                                   /\ (quotaPc'[k] = "resumed" <=> quotaPc[k] = "resumed")
      PROVE  FlightInvariant' /\ UNCHANGED QuotaFlight!flightVars
  BY <1>1, <1>2 DEF QuotaFlight!flightVars, FlightInvariant
<1>3. ASSUME NEW r \in QuotaRequests, UNCHANGED inflight, quotaPc[r] \in {"idle", "upstream"},
             quotaPc' \in {[quotaPc EXCEPT ![r] = "idle"], [quotaPc EXCEPT ![r] = "upstream"]}
      PROVE  FlightInvariant' /\ UNCHANGED QuotaFlight!flightVars
  <2>1. /\ quotaPc' \in [QuotaRequests -> {"idle", "upstream", "waiting", "resumed"}]
        /\ \A k \in QuotaRequests : (quotaPc'[k] = "waiting" <=> quotaPc[k] = "waiting")
                                 /\ (quotaPc'[k] = "resumed" <=> quotaPc[k] = "resumed")
    BY <1>1, <1>3
  <2> QED
    BY <1>2, <1>3, <2>1
<1>4. ASSUME NEW r \in QuotaRequests,
             (\E m \in QuotaModels : Send(r, m)) \/ Succeed(r) \/ FailOtherwise(r)
      PROVE  FlightInvariant' /\ UNCHANGED QuotaFlight!flightVars
  <2>1. /\ UNCHANGED inflight /\ quotaPc[r] \in {"idle", "upstream"}
        /\ quotaPc' \in {[quotaPc EXCEPT ![r] = "idle"], [quotaPc EXCEPT ![r] = "upstream"]}
    BY <1>4 DEF Send, Succeed, FailOtherwise
  <2> QED
    BY <1>3, <2>1
<1>5. ASSUME NEW r \in QuotaRequests, Refused(r)
      PROVE  FlightInvariant' /\ QuotaFlight!Next
  <2>1. r \notin Among("waiting") /\ r \notin Among("resumed")
    BY <1>5 DEF Refused
  <2>2. CASE quotaPc' = [quotaPc EXCEPT ![r] = "waiting"] /\ inflight' = TRUE
    <3>1. Among("waiting")' = Among("waiting") \union {r} /\ Among("resumed")' = Among("resumed")
      BY <1>1, <2>1, <2>2
    <3>2. QuotaFlight!Board(r)
      BY <2>1, <2>2, <3>1 DEF QuotaFlight!Board
    <3>3. FlightInvariant'
      BY <1>1, <2>2, <3>1 DEF FlightInvariant
    <3> QED
      BY <3>2, <3>3 DEF QuotaFlight!Next
  <2>3. CASE quotaPc' = [quotaPc EXCEPT ![r] = "resumed"] /\ ~inflight /\ inflight' = inflight
    <3>1. Among("resumed")' = Among("resumed") \union {r} /\ Among("waiting")' = Among("waiting")
      BY <1>1, <2>1, <2>3
    <3>2. QuotaFlight!MakeDo(r)
      BY <2>1, <2>3, <3>1 DEF QuotaFlight!MakeDo
    <3>3. FlightInvariant'
      BY <1>1, <2>3 DEF FlightInvariant
    <3> QED
      BY <3>2, <3>3 DEF QuotaFlight!Next
  <2> QED
    BY <1>1, <1>5, <2>2, <2>3 DEF Refused
<1>6. ASSUME NEW r \in QuotaRequests, Judge(r)
      PROVE  FlightInvariant' /\ QuotaFlight!Next
  <2>1. quotaPc[r] = "resumed" /\ UNCHANGED inflight /\ quotaPc' = [quotaPc EXCEPT ![r] = "idle"]
    BY <1>6 DEF Judge
  <2>2. Among("resumed")' = Among("resumed") \ {r} /\ Among("waiting")' = Among("waiting")
    BY <1>1, <2>1
  <2>3. QuotaFlight!GoOn(r)
    BY <2>1, <2>2 DEF QuotaFlight!GoOn
  <2>4. FlightInvariant'
    BY <1>1, <2>1, <2>2 DEF FlightInvariant
  <2> QED
    BY <2>3, <2>4 DEF QuotaFlight!Next
<1>7. ASSUME NEW quotas \in [QuotaModels -> UpstreamReadings], QuotaAnswer(quotas)
      PROVE  FlightInvariant' /\ QuotaFlight!Next
  <2>1. /\ inflight /\ inflight' = FALSE /\ Among("resumed") = {}
        /\ quotaPc' = [r \in QuotaRequests |->
                         IF quotaPc[r] = "waiting" THEN "resumed" ELSE quotaPc[r]]
    BY <1>7 DEF QuotaAnswer, Calm, Resumed
  <2>2. Among("waiting")' = {} /\ Among("resumed")' = Among("waiting")
    BY <1>1, <2>1
  <2>3. QuotaFlight!Land
    BY <1>1, <2>1, <2>2 DEF QuotaFlight!Land
  <2>4. FlightInvariant'
    BY <1>1, <2>1 DEF FlightInvariant
  <2> QED
    BY <2>3, <2>4 DEF QuotaFlight!Next
<1>8. CASE QuotaTick \/ UNCHANGED quotaVars
  <2>1. UNCHANGED inflight /\ UNCHANGED quotaPc
    BY <1>8 DEF QuotaTick, quotaVars
  <2> QED
    BY <1>1, <1>2, <2>1
<1> QED
  BY <1>4, <1>5, <1>6, <1>7, <1>8 DEF QuotaNext

LEMMA QuotaFlightStarts == QuotaInit => FlightInvariant /\ QuotaFlight!Init
  BY DEF QuotaInit, FlightInvariant, QuotaFlight!Init

\* Refused requests, however many and for whatever models, share one quota request and
\* are all let go when it ends: the quota cache implements SingleFlight.
THEOREM QuotaRequestsAreShared == QuotaSpec => QuotaIsSingleFlight
<1>1. FlightInvariant /\ [QuotaNext]_quotaVars =>
          FlightInvariant' /\ [QuotaFlight!Next]_(QuotaFlight!flightVars)
  BY QuotaStepsFly
<1> QED
  BY <1>1, QuotaFlightStarts, PTL DEF QuotaSpec, QuotaIsSingleFlight, QuotaFlight!Spec
=============================================================================
