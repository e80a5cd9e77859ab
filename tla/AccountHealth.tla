----------------------------- MODULE AccountHealth -----------------------------
(***************************************************************************)
(* The health record of one account: its model locks, testStatus and       *)
(* backoffLevel in the connections table, and who reads and writes them:   *)
(* getProviderCredentials, markAccountUnavailable and clearAccountError of *)
(* src/sse/services/auth.js on behalf of the requests of                   *)
(* src/sse/handlers/chat.js, and two operations of the dashboard.          *)
(*                                                                         *)
(*   idle --Select--> selected --Answer--> idle + ClearError               *)
(*     |                  \--> refused --ReadLevel--> marking --Mark--> idle*)
(*     \--OpenCooldown--> unlocking --Unlock--> idle                       *)
(*                                                                         *)
(* Each write is one transaction that merges a patch into the row, but the *)
(* patch was computed from an earlier read: clearAccountError works with   *)
(* the record as it was when the account was selected (snapshot).          *)
(*                                                                         *)
(* A lock is kept as the time it has left: > 0 active, 0 expired, Null     *)
(* when it has been cleared, Absent when the record never had the key.     *)
(* The 2 s cache of getProviderConnections is left out: every write        *)
(* empties it.  lastError is set exactly when testStatus is "unavailable"  *)
(* or "error"; the warning a successful test may leave is not modelled.    *)
(***************************************************************************)
EXTENDS Integers

CONSTANTS
    Requests,
    Models,
    AllModels,      \* the key modelLock___all
    NoModel,        \* an idle request
    BaseCooldown,   \* BACKOFF_CONFIG.base, in ticks
    MaxBackoff,     \* BACKOFF_CONFIG.max
    MaxLevel,       \* BACKOFF_CONFIG.maxLevel
    MaxCooldown     \* the longest lock

ASSUME HealthAssumption ==
    /\ AllModels \notin Models
    /\ NoModel \notin Models
    /\ BaseCooldown \in Nat \ {0}
    /\ MaxBackoff \in Nat \ {0}
    /\ MaxLevel \in Nat \ {0}
    /\ MaxCooldown \in Nat
    /\ MaxBackoff <= MaxCooldown

Absent == -2
Null == -1

Keys == Models \cup {AllModels}

Account ==
    [ lock         : [Keys -> Absent .. MaxCooldown],
      testStatus   : {"active", "unavailable", "error"},
      backoffLevel : 0 .. MaxLevel ]

NewAccount ==
    [ lock |-> [k \in Keys |-> Absent], testStatus |-> "active", backoffLevel |-> 0 ]

\* What a copy of the record is read for.
Copy == [ lock : [Keys -> Absent .. MaxCooldown], testStatus : {"active", "unavailable", "error"} ]

CopyOf(a) == [ lock |-> a.lock, testStatus |-> a.testStatus ]

VARIABLES
    account,        \* the row in the connections table
    pc,
    model,          \* the model each request, or the dashboard, is about
    snapshot,       \* the record each of them read
    levelRead,      \* backoffLevel as read by markAccountUnavailable
    clearing        \* onRequestSuccess callbacks under way

vars == <<account, pc, model, snapshot, levelRead, clearing>>

Labels == {"idle", "selected", "refused", "marking", "unlocking"}

TypeOK ==
    /\ account \in Account
    /\ pc \in [Requests -> Labels]
    /\ model \in [Requests -> Models \cup {NoModel}]
    /\ snapshot \in [Requests -> Copy]
    /\ levelRead \in [Requests -> 0 .. MaxLevel]
    /\ clearing \subseteq Requests

Init ==
    /\ account = NewAccount
    /\ pc = [r \in Requests |-> "idle"]
    /\ model = [r \in Requests |-> NoModel]
    /\ snapshot = [r \in Requests |-> CopyOf(NewAccount)]
    /\ levelRead = [r \in Requests |-> 0]
    /\ clearing = {}
-----------------------------------------------------------------------------
\* isModelLockActive: a key without a value falls back on the lock of the whole
\* account, but an expired one does not.
LockActive(a, m) ==
    IF a.lock[m] >= 0 THEN a.lock[m] > 0 ELSE a.lock[AllModels] > 0

\* Mutant: activating an account leaves its locks alone.
ActivatedKeepingLocks(a) ==
    [a EXCEPT !.testStatus = "active", !.backoffLevel = 0]

\* resetHealthStateOnActivation: a patch with testStatus "active" also clears
\* every lock the row has by then.
Activated(a) ==
    [ lock |-> [k \in Keys |-> IF a.lock[k] = Absent THEN Absent ELSE Null],
      testStatus |-> "active",
      backoffLevel |-> 0 ]

\* The row after the keys ks have been set to null.
Cleared(a, ks) == [a EXCEPT !.lock = [k \in Keys |-> IF k \in ks THEN Null ELSE a.lock[k]]]

\* Mutant: the level has no limit.
EscalatedForever(level) == level + 1

Escalated(level) == IF level < MaxLevel THEN level + 1 ELSE MaxLevel

\* getQuotaCooldown
QuotaCooldown(level) ==
    LET cooldown == BaseCooldown * 2 ^ (level - 1)
    IN  IF cooldown < MaxBackoff THEN cooldown ELSE MaxBackoff

\* What markAccountUnavailable may decide about a refusal for model m when it
\* has read the level n: the backoff rules, the rules with a fixed cooldown, a
\* reset time the provider has reported, GitHub's monthly limit.
Penalties(m, n) ==
    {[key |-> m, level |-> Escalated(n), cooldown |-> QuotaCooldown(Escalated(n))]}
    \cup {[key |-> m, level |-> n, cooldown |-> d] : d \in 1 .. MaxCooldown}
    \cup {[key |-> k, level |-> 0, cooldown |-> d] : k \in {m, AllModels}, d \in 1 .. MaxCooldown}

Locked(a, p) ==
    [ lock |-> [a.lock EXCEPT ![p.key] = p.cooldown],
      testStatus |-> "unavailable",
      backoffLevel |-> p.level ]

Goto(r, label) == pc' = [pc EXCEPT ![r] = label]

\* A request keeps its local variables until it and its callback are over.
Keep == UNCHANGED <<model, snapshot>>

Forget(r) ==
    /\ model' = [model EXCEPT ![r] = NoModel]
    /\ snapshot' = [snapshot EXCEPT ![r] = CopyOf(NewAccount)]

\* A request that begins with the record as it is now.
Begin(r, m) ==
    /\ model' = [model EXCEPT ![r] = m]
    /\ snapshot' = [snapshot EXCEPT ![r] = CopyOf(account)]

\* getProviderCredentials returns the account, with the record it has read.
Select(r, m) ==
    /\ pc[r] = "idle"
    /\ r \notin clearing
    /\ ~LockActive(account, m)
    /\ Goto(r, "selected")
    /\ Begin(r, m)
    /\ UNCHANGED <<account, levelRead, clearing>>

\* The upstream call succeeds, is refused, or both (an error page sent with
\* status 200: onRequestSuccess is started before the page is recognised), or
\* ends in a way that leaves the account alone (client gone, 422, no slot).
Answer(r) ==
    /\ pc[r] = "selected"
    /\ \/ /\ Goto(r, "idle")
          /\ clearing' = clearing \cup {r}
          /\ Keep
       \/ /\ Goto(r, "refused")
          /\ \/ clearing' = clearing \cup {r} /\ Keep
             \/ /\ snapshot' = [snapshot EXCEPT ![r] = CopyOf(NewAccount)]
                /\ UNCHANGED <<model, clearing>>
       \/ /\ Goto(r, "idle")
          /\ Forget(r)
          /\ UNCHANGED clearing
    /\ UNCHANGED <<account, levelRead>>

\* markAccountUnavailable, up to its write.
ReadLevel(r) ==
    /\ pc[r] = "refused"
    /\ Goto(r, "marking")
    /\ levelRead' = [levelRead EXCEPT ![r] = account.backoffLevel]
    /\ UNCHANGED <<account, model, snapshot, clearing>>

\* The write of markAccountUnavailable: whatever lock was there is overwritten.
Mark(r) ==
    /\ pc[r] = "marking"
    /\ \E p \in Penalties(model[r], levelRead[r]) : account' = Locked(account, p)
    /\ Goto(r, "idle")
    /\ levelRead' = [levelRead EXCEPT ![r] = 0]
    /\ IF r \in clearing THEN Keep ELSE Forget(r)
    /\ UNCHANGED clearing

\* The keys clearAccountError clears after a success of model m, as seen in s.
KeysToClear(m, s) ==
    {k \in Keys : s.lock[k] # Absent /\ (k \in {m, AllModels} \/ s.lock[k] = 0)}

\* Mutant: the keys of other models count whether or not their locks have expired.
RemainingLocksOfAnyAge(m, s) == {k \in Keys \ {m, AllModels} : s.lock[k] # Absent}

RemainingLocks(m, s) == {k \in Keys \ KeysToClear(m, s) : s.lock[k] > 0}

\* clearAccountError
ClearError(r) ==
    LET s == snapshot[r] IN
    /\ r \in clearing
    /\ clearing' = clearing \ {r}
    /\ account' =
         CASE KeysToClear(model[r], s) = {} /\ s.testStatus = "active" -> account
           [] RemainingLocks(model[r], s) = {} -> Activated(account)
           [] OTHER -> Cleared(account, KeysToClear(model[r], s))
    /\ snapshot' = [snapshot EXCEPT ![r] = CopyOf(NewAccount)]
    /\ model' = IF pc[r] = "idle" THEN [model EXCEPT ![r] = NoModel] ELSE model
    /\ UNCHANGED <<pc, levelRead>>

\* The dashboard clears the cooldown of model m: it reads the record ...
OpenCooldown(r, m) ==
    /\ pc[r] = "idle"
    /\ r \notin clearing
    /\ account.lock[m] >= 0
    /\ Goto(r, "unlocking")
    /\ Begin(r, m)
    /\ UNCHANGED <<account, levelRead, clearing>>

\* ... and writes.
Unlock(r) ==
    /\ pc[r] = "unlocking"
    /\ account' = IF snapshot[r].testStatus = "unavailable" THEN Activated(account)
                  ELSE Cleared(account, {model[r]})
    /\ Goto(r, "idle")
    /\ Forget(r)
    /\ UNCHANGED <<levelRead, clearing>>

\* The dashboard tests the connection: the outcome is written as it is.
TestPasses ==
    /\ account' = Activated(account)
    /\ UNCHANGED <<pc, model, snapshot, levelRead, clearing>>

TestFails ==
    /\ account' = [account EXCEPT !.testStatus = "error"]
    /\ UNCHANGED <<pc, model, snapshot, levelRead, clearing>>

Later(a) == [a EXCEPT !.lock = [k \in Keys |-> IF a.lock[k] > 0 THEN a.lock[k] - 1 ELSE a.lock[k]]]

\* Expiry times are absolute: they come nearer in the copies as well.
Tick ==
    /\ account' = Later(account)
    /\ snapshot' = [r \in Requests |-> Later(snapshot[r])]
    /\ UNCHANGED <<pc, model, levelRead, clearing>>

Next ==
    \/ \E r \in Requests :
         \/ \E m \in Models : Select(r, m) \/ OpenCooldown(r, m)
         \/ Answer(r)
         \/ ReadLevel(r)
         \/ Mark(r)
         \/ ClearError(r)
         \/ Unlock(r)
    \/ TestPasses
    \/ TestFails
    \/ Tick

Spec == Init /\ [][Next]_vars
-----------------------------------------------------------------------------
(* Properties *)

\* An account shown as active has no lock in force and no backoff, whatever
\* stale copy of the record the write that activated it was computed from
\* (resetHealthStateOnActivation).
ActiveMeansUnlocked ==
    account.testStatus = "active" =>
        /\ \A k \in Keys : account.lock[k] <= 0
        /\ account.backoffLevel = 0

\* clearAccountError "resets error state only if no active locks remain": a
\* success with one model does not make the account active while the lock of
\* another model is in force.
SuccessKeepsOtherLocks ==
    [][\A r \in Requests :
         /\ r \in clearing \ clearing'
         /\ account.testStatus # "active" /\ account'.testStatus = "active"
         => \A k \in Models \ {model[r]} : account.lock[k] <= 0]_vars

\* "GitHub premium-request exhaustion is account-wide until the next UTC
\* month": while the lock of the whole account is in force no request gets it.
AccountWideLockHolds ==
    [][\A r \in Requests :
         pc[r] = "idle" /\ pc'[r] = "selected" => account.lock[AllModels] <= 0]_vars
-----------------------------------------------------------------------------
(* Liveness: time passes, and a callback that was started runs. *)
Fairness ==
    /\ WF_vars(Tick)
    /\ \A r \in Requests : WF_vars(ClearError(r))

FairSpec == Spec /\ Fairness

NoRefusal == \A r \in Requests : pc[r] \notin {"refused", "marking"}

\* Once neither requests nor tests fail any more, and requests succeed again
\* and again, the account is shown as active again, whichever models the
\* successes are for and whichever models are still locked.
HealthRecovers ==
    /\ <>[]NoRefusal
    /\ <>[][~TestFails]_vars
    /\ []<>(clearing # {})
    => (account.testStatus # "active" ~> account.testStatus = "active")
=============================================================================
