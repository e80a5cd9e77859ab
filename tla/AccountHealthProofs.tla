-------------------------- MODULE AccountHealthProofs --------------------------
(***************************************************************************)
(* Theorems about AccountHealth, for every number of requests and models   *)
(* and every choice of cooldowns and levels.                               *)
(***************************************************************************)
EXTENDS AccountHealth, NumberTheorems

(* Lemmas about the operations on one record *)

LEMMA KeyIsAModelOrAll == \A m \in Models : m \in Keys /\ AllModels \in Keys
  BY DEF Keys

LEMMA NewAccountHealthy ==
    NewAccount \in Account /\ CopyOf(NewAccount) \in Copy
  BY HealthAssumption DEF NewAccount, Account, CopyOf, Copy, Absent

LEMMA CopyType == ASSUME NEW a \in Account PROVE CopyOf(a) \in Copy
  BY DEF CopyOf, Copy, Account

\* Activation clears the locks the row has at that time and the backoff.
LEMMA ActivatedHealthy ==
    ASSUME NEW a \in Account
    PROVE  /\ Activated(a) \in Account
           /\ Activated(a).backoffLevel = 0
           /\ \A k \in Keys : Activated(a).lock[k] <= 0
  BY HealthAssumption DEF Activated, Account, Absent, Null

\* Clearing keys puts no lock in force.
LEMMA ClearedType ==
    ASSUME NEW a \in Account, NEW ks
    PROVE  /\ Cleared(a, ks) \in Account
           /\ Cleared(a, ks).testStatus = a.testStatus
           /\ Cleared(a, ks).backoffLevel = a.backoffLevel
           /\ \A k \in Keys : a.lock[k] <= 0 => Cleared(a, ks).lock[k] <= 0
  BY HealthAssumption DEF Cleared, Account, Absent, Null

\* Time puts no lock in force.
LEMMA LaterType ==
    ASSUME NEW a \in Account
    PROVE  /\ Later(a) \in Account
           /\ Later(a).testStatus = a.testStatus
           /\ Later(a).backoffLevel = a.backoffLevel
           /\ \A k \in Keys : a.lock[k] <= 0 => Later(a).lock[k] <= 0
  BY HealthAssumption DEF Later, Account, Absent

LEMMA LaterCopyType == ASSUME NEW s \in Copy PROVE Later(s) \in Copy
  BY HealthAssumption DEF Later, Copy, Absent

\* A backoff lasts no longer than the longest lock.
LEMMA QuotaCooldownType ==
    ASSUME NEW level \in 1 .. MaxLevel
    PROVE  QuotaCooldown(level) \in 0 .. MaxCooldown
<1> DEFINE power == 2 ^ (level - 1)
           product == BaseCooldown * power
<1>1. power \in Nat
  BY PowerPositive, HealthAssumption
<1>2. \A a, b \in Nat : a * b \in Nat
  OBVIOUS
<1> HIDE DEF power
<1>3. product \in Nat
  BY <1>1, <1>2, HealthAssumption
<1>4. QuotaCooldown(level) = IF product < MaxBackoff THEN product ELSE MaxBackoff
  BY DEF QuotaCooldown, product, power
<1> HIDE DEF product
<1> QED
  BY <1>3, <1>4, HealthAssumption

\* Every penalty is a lock of a key the record has, within the bounds.
LEMMA PenaltyType ==
    ASSUME NEW m \in Models, NEW n \in 0 .. MaxLevel, NEW p \in Penalties(m, n)
    PROVE  p.key \in Keys /\ p.level \in 0 .. MaxLevel /\ p.cooldown \in 0 .. MaxCooldown
<1>1. Escalated(n) \in 1 .. MaxLevel
  BY HealthAssumption DEF Escalated
<1>2. QuotaCooldown(Escalated(n)) \in 0 .. MaxCooldown
  BY <1>1, QuotaCooldownType
<1> QED
  BY <1>1, <1>2, KeyIsAModelOrAll, HealthAssumption DEF Penalties

LEMMA LockedType ==
    ASSUME NEW a \in Account, NEW m \in Models, NEW n \in 0 .. MaxLevel,
           NEW p \in Penalties(m, n)
    PROVE  Locked(a, p) \in Account /\ Locked(a, p).testStatus = "unavailable"
<1>1. p.key \in Keys /\ p.level \in 0 .. MaxLevel /\ p.cooldown \in 0 .. MaxCooldown
  BY PenaltyType
<1>2. p.cooldown \in Absent .. MaxCooldown
  BY <1>1, HealthAssumption DEF Absent
<1> QED
  BY <1>1, <1>2 DEF Locked, Account
-----------------------------------------------------------------------------
(* Two facts the steps rest on: a request has a model until it and its       *)
(* callback are over, so a refusal always locks a key of the record; and a   *)
(* callback belongs to a request that has had its answer.                    *)
WorksOnAModel ==
    \A r \in Requests :
        /\ pc[r] # "idle" \/ r \in clearing => model[r] \in Models
        /\ r \in clearing => pc[r] \in {"idle", "refused", "marking"}

IInv == TypeOK /\ WorksOnAModel /\ ActiveMeansUnlocked

LEMMA InitInv == Init => IInv
<1> SUFFICES ASSUME Init PROVE IInv
  OBVIOUS
<1>1. 0 \in 0 .. MaxLevel
  BY HealthAssumption
<1>2. TypeOK
  BY <1>1, NewAccountHealthy DEF Init, TypeOK, Labels
<1>3. WorksOnAModel
  BY DEF Init, WorksOnAModel
<1>4. ActiveMeansUnlocked
  BY DEF Init, ActiveMeansUnlocked, NewAccount, Absent
<1> QED
  BY <1>2, <1>3, <1>4 DEF IInv

\* Whatever a request is left with, it and its copy stay within their types.
LEMMA ForgetType ==
    ASSUME TypeOK, NEW r \in Requests, Keep \/ Forget(r) \/ (\E m \in Models : Begin(r, m))
    PROVE  /\ model' \in [Requests -> Models \cup {NoModel}]
           /\ snapshot' \in [Requests -> Copy]
<1>1. CASE Keep
  BY <1>1 DEF Keep, TypeOK
<1>2. CASE Forget(r)
  BY <1>2, NewAccountHealthy DEF Forget, TypeOK
<1>3. CASE \E m \in Models : Begin(r, m)
  <2>1. CopyOf(account) \in Copy
    BY CopyType DEF TypeOK
  <2> QED
    BY <1>3, <2>1 DEF Begin, TypeOK
<1> QED
  BY <1>1, <1>2, <1>3

\* Every step preserves the invariant.
LEMMA StepInv == IInv /\ [Next]_vars => IInv'
<1> SUFFICES ASSUME IInv, [Next]_vars PROVE IInv'
  OBVIOUS
<1> USE DEF IInv
<1>0. ASSUME UNCHANGED account PROVE ActiveMeansUnlocked'
  BY <1>0 DEF ActiveMeansUnlocked
<1>1. ASSUME NEW r \in Requests, NEW m \in Models, Select(r, m) \/ OpenCooldown(r, m)
      PROVE  IInv'
  <2>1. Begin(r, m) /\ UNCHANGED <<account, levelRead, clearing>>
    BY <1>1 DEF Select, OpenCooldown
  <2>2. pc' \in [Requests -> Labels]
    BY <1>1 DEF Select, OpenCooldown, Goto, TypeOK, Labels
  <2>3. TypeOK'
    BY <2>1, <2>2, ForgetType DEF TypeOK
  <2>4. WorksOnAModel'
    BY <1>1, <2>1 DEF Select, OpenCooldown, Goto, Begin, WorksOnAModel, TypeOK
  <2> QED
    BY <1>0, <2>1, <2>3, <2>4
<1>2. ASSUME NEW r \in Requests, Answer(r) PROVE IInv'
  <2>1. UNCHANGED <<account, levelRead>> /\ pc[r] = "selected" /\ pc' \in [Requests -> Labels]
    BY <1>2 DEF Answer, Goto, TypeOK, Labels
  <2>2. model' \in [Requests -> Models \cup {NoModel}] /\ snapshot' \in [Requests -> Copy]
    BY <1>2, ForgetType, NewAccountHealthy DEF Answer, TypeOK
  <2>3. clearing' \subseteq Requests
    BY <1>2 DEF Answer, TypeOK
  <2>4. TypeOK'
    BY <2>1, <2>2, <2>3 DEF TypeOK
  <2>5. WorksOnAModel'
    <3>1. pc' = [pc EXCEPT ![r] = pc'[r]] /\ pc'[r] \in {"idle", "refused"}
      BY <1>2 DEF Answer, Goto, TypeOK
    <3>2. CASE UNCHANGED model /\ clearing' \subseteq clearing \cup {r}
      BY <2>1, <3>1, <3>2 DEF WorksOnAModel, TypeOK
    <3>3. CASE Forget(r) /\ pc'[r] = "idle" /\ UNCHANGED clearing
      <4>1. r \notin clearing
        BY <2>1 DEF WorksOnAModel
      <4> QED
        BY <3>1, <3>3, <4>1 DEF Forget, WorksOnAModel, TypeOK
    <3> QED
      BY <1>2, <3>2, <3>3 DEF Answer, Keep, Goto, TypeOK
  <2> QED
    BY <1>0, <2>1, <2>4, <2>5
<1>3. ASSUME NEW r \in Requests, ReadLevel(r) PROVE IInv'
  <2>1. TypeOK'
    BY <1>3 DEF ReadLevel, Goto, TypeOK, Labels, Account
  <2>2. WorksOnAModel'
    BY <1>3 DEF ReadLevel, Goto, WorksOnAModel, TypeOK
  <2> QED
    BY <1>0, <1>3, <2>1, <2>2 DEF ReadLevel
<1>4. ASSUME NEW r \in Requests, Mark(r) PROVE IInv'
  <2>1. model[r] \in Models /\ levelRead[r] \in 0 .. MaxLevel /\ account \in Account
    BY <1>4 DEF Mark, WorksOnAModel, TypeOK
  <2>2. account' \in Account /\ account'.testStatus = "unavailable"
    BY <1>4, <2>1, LockedType DEF Mark
  <2>3. Keep \/ Forget(r)
    BY <1>4 DEF Mark
  <2>4. pc' \in [Requests -> Labels] /\ levelRead' \in [Requests -> 0 .. MaxLevel]
    BY <1>4, HealthAssumption DEF Mark, Goto, TypeOK, Labels
  <2>5. TypeOK'
    BY <1>4, <2>2, <2>3, <2>4, ForgetType DEF Mark, TypeOK
  <2>6. WorksOnAModel'
    BY <1>4 DEF Mark, Goto, Keep, Forget, WorksOnAModel, TypeOK
  <2>7. ActiveMeansUnlocked'
    BY <2>2 DEF ActiveMeansUnlocked
  <2> QED
    BY <2>5, <2>6, <2>7
<1>5. ASSUME NEW r \in Requests, ClearError(r) PROVE IInv'
  <2> DEFINE s == snapshot[r]
  <2>1. account \in Account
    BY DEF TypeOK
  <2>2. \/ UNCHANGED account
        \/ account' = Activated(account)
        \/ account' = Cleared(account, KeysToClear(model[r], s))
    BY <1>5 DEF ClearError
  <2>3. account' \in Account /\ ActiveMeansUnlocked'
    BY <2>1, <2>2, ActivatedHealthy, ClearedType DEF ActiveMeansUnlocked
  <2>4. TypeOK'
    BY <1>5, <2>3, NewAccountHealthy DEF ClearError, TypeOK
  <2>5. WorksOnAModel'
    BY <1>5 DEF ClearError, WorksOnAModel, TypeOK
  <2> QED
    BY <2>3, <2>4, <2>5
<1>6. ASSUME NEW r \in Requests, Unlock(r) PROVE IInv'
  <2>1. account \in Account
    BY DEF TypeOK
  <2>2. account' = Activated(account) \/ account' = Cleared(account, {model[r]})
    BY <1>6 DEF Unlock
  <2>3. account' \in Account /\ ActiveMeansUnlocked'
    BY <2>1, <2>2, ActivatedHealthy, ClearedType DEF ActiveMeansUnlocked
  <2>4. TypeOK'
    BY <1>6, <2>3, ForgetType DEF Unlock, Goto, TypeOK, Labels
  <2>5. WorksOnAModel'
    BY <1>6 DEF Unlock, Goto, Forget, WorksOnAModel, TypeOK
  <2> QED
    BY <2>3, <2>4, <2>5
<1>7. CASE TestPasses
  <2>1. account' \in Account /\ ActiveMeansUnlocked'
    BY <1>7, ActivatedHealthy DEF TestPasses, ActiveMeansUnlocked, TypeOK
  <2> QED
    BY <1>7, <2>1 DEF TestPasses, TypeOK, WorksOnAModel
<1>8. CASE TestFails
  <2>1. account' \in Account /\ account'.testStatus = "error"
    BY <1>8 DEF TestFails, TypeOK, Account
  <2>2. ActiveMeansUnlocked'
    BY <2>1 DEF ActiveMeansUnlocked
  <2> QED
    BY <1>8, <2>1, <2>2 DEF TestFails, TypeOK, WorksOnAModel
<1>9. CASE Tick
  <2>1. account' \in Account /\ ActiveMeansUnlocked'
    BY <1>9, LaterType DEF Tick, ActiveMeansUnlocked, TypeOK
  <2>2. snapshot' \in [Requests -> Copy]
    BY <1>9, LaterCopyType DEF Tick, TypeOK
  <2>3. TypeOK'
    BY <1>9, <2>1, <2>2 DEF Tick, TypeOK
  <2>4. WorksOnAModel'
    BY <1>9 DEF Tick, WorksOnAModel
  <2> QED
    BY <2>1, <2>3, <2>4
<1>10. CASE UNCHANGED vars
  BY <1>10 DEF vars, TypeOK, WorksOnAModel, ActiveMeansUnlocked
<1> QED
  BY <1>1, <1>2, <1>3, <1>4, <1>5, <1>6, <1>7, <1>8, <1>9, <1>10 DEF Next

THEOREM Invariance == Spec => []IInv
  BY InitInv, StepInv, PTL DEF Spec

\* Every variable keeps its type; in particular no lock lasts longer than
\* MaxCooldown and no level exceeds MaxLevel.
THEOREM TypeCorrect == Spec => []TypeOK
  BY Invariance, PTL DEF IInv

\* However stale the copies of the record that requests and the dashboard
\* compute their patches from, an active account has no lock in force and no
\* backoff (resetHealthStateOnActivation).
THEOREM ActiveAccountsAreUnlocked == Spec => []ActiveMeansUnlocked
  BY Invariance, PTL DEF IInv
=============================================================================
