----------------------- MODULE ProviderBreakerProofs -----------------------
(***************************************************************************)
(* Theorems about ProviderBreaker, for every number of requests, accounts  *)
(* and proxy buckets and every value of the thresholds.                    *)
(***************************************************************************)
EXTENDS ProviderBreaker, NumberTheorems

(* Lemmas about the operations on one breaker *)

\* A cooldown lasts at least one tick: an OPEN breaker is not probed in the
\* instant it opened.
LEMMA NoInstantProbe ==
    ASSUME NEW br \in Breaker, br.openAge = 0
    PROVE  ~CooldownOver(br)
<1> DEFINE steps == br.openProbeCycles \div BackoffEscalationCount
           multiplier == BackoffMultiplier(br.openProbeCycles)
           product == ResetTimeout * multiplier
<1>1. \A n \in Nat, d \in Nat \ {0} : n \div d \in Nat
  OBVIOUS
<1>2. br.openProbeCycles \in Nat
  BY DEF Breaker
<1>3. steps \in Nat
  BY <1>1, <1>2, BreakerAssumption
<1> HIDE DEF steps
<1>4. 2 ^ steps \in Nat /\ 2 ^ steps >= 1
  BY <1>3, PowerPositive
<1>5. multiplier \in Nat /\ multiplier >= 1
  BY <1>4, BreakerAssumption DEF BackoffMultiplier, steps
<1>6. \A a, b \in Nat : a >= 1 /\ b >= 1 => a * b \in Nat /\ a * b >= 1
  OBVIOUS
<1> HIDE DEF multiplier
<1>7. product \in Nat /\ product >= 1
  BY <1>5, <1>6, BreakerAssumption
<1>8. CooldownOver(br) <=> br.openAge >= product
  BY DEF CooldownOver, multiplier
<1> HIDE DEF product
<1> QED
  BY <1>7, <1>8

LEMMA LongestCooldownType == LongestCooldown \in Nat
<1>1. \A a, b \in Nat : a * b \in Nat
  OBVIOUS
<1> QED
  BY <1>1, BreakerAssumption DEF LongestCooldown

\* A breaker with one field changed within its range is a breaker.
LEMMA FieldUpdate ==
    ASSUME NEW br \in Breaker
    PROVE  /\ \A s \in BreakerStates : [br EXCEPT !.state = s] \in Breaker
           /\ \A n \in 0 .. FailureThreshold : [br EXCEPT !.successCount = n] \in Breaker
           /\ \A n \in 0 .. HalfOpenRequests : [br EXCEPT !.halfOpenRemaining = n] \in Breaker
           /\ \A n \in 0 .. LongestCooldown : [br EXCEPT !.openAge = n] \in Breaker
           /\ \A n \in Nat : [br EXCEPT !.openProbeCycles = n] \in Breaker
           /\ \A f \in [0 .. FailureWindow -> 0 .. FailureThreshold] :
                [br EXCEPT !.failures = f] \in Breaker
  BY DEF Breaker

\* What Transition changes, and that it leaves a breaker a breaker.
LEMMA TransitionType ==
    ASSUME NEW br \in Breaker, NEW s \in BreakerStates
    PROVE  /\ Transition(br, s) \in Breaker
           /\ Transition(br, s).state = s
           /\ s = "OPEN" => Transition(br, s).openAge = 0
           /\ s = "HALF_OPEN" => Transition(br, s).halfOpenRemaining = HalfOpenRequests
<1> DEFINE moved == [br EXCEPT !.state = s]
           young == [moved EXCEPT !.openAge = 0]
           noToken == [young EXCEPT !.halfOpenRemaining = 0]
           tokens == [young EXCEPT !.halfOpenRemaining = HalfOpenRequests]
           noSuccess == [young EXCEPT !.successCount = 0]
           noCycles == [noSuccess EXCEPT !.openProbeCycles = 0]
<1>1. /\ 0 \in 0 .. LongestCooldown /\ 0 \in 0 .. HalfOpenRequests /\ 0 \in 0 .. FailureThreshold
      /\ HalfOpenRequests \in 0 .. HalfOpenRequests
  BY BreakerAssumption, LongestCooldownType
<1>2. moved \in Breaker
  BY FieldUpdate
<1>3. young \in Breaker
  <2> HIDE DEF moved
  <2> QED BY <1>1, <1>2, FieldUpdate
<1>4. noToken \in Breaker /\ tokens \in Breaker /\ noSuccess \in Breaker
  <2> HIDE DEF young
  <2> QED BY <1>1, <1>3, FieldUpdate
<1>5. noCycles \in Breaker
  <2> HIDE DEF noSuccess
  <2> QED BY <1>4, FieldUpdate
<1>6. CASE s = "OPEN"
  <2>1. Transition(br, s) = noToken
    BY <1>6 DEF Transition, Breaker
  <2>2. noToken.state = s /\ noToken.openAge = 0
    BY DEF Breaker
  <2> QED
    BY <1>4, <1>6, <2>1, <2>2
<1>7. CASE s = "HALF_OPEN"
  <2>1. Transition(br, s) = tokens
    BY <1>7 DEF Transition, Breaker
  <2>2. tokens.state = s /\ tokens.halfOpenRemaining = HalfOpenRequests
    BY DEF Breaker
  <2> QED
    BY <1>4, <1>7, <2>1, <2>2
<1>8. CASE s = "CLOSED"
  <2>1. Transition(br, s) = noCycles
    BY <1>8 DEF Transition, Breaker
  <2>2. noCycles.state = s
    BY DEF Breaker
  <2> QED
    BY <1>5, <1>8, <2>1, <2>2
<1>9. CASE s = "DEGRADED"
  <2>1. Transition(br, s) = moved /\ moved.state = s
    BY <1>9 DEF Transition, Breaker
  <2> QED
    BY <1>2, <1>9, <2>1
<1> QED
  BY <1>6, <1>7, <1>8, <1>9 DEF BreakerStates

LEMMA NewBreakerType == NewBreaker \in Breaker
  BY BreakerAssumption, LongestCooldownType DEF NewBreaker, Breaker, BreakerStates

LEMMA AfterCanExecuteType ==
    ASSUME NEW br \in Breaker
    PROVE  AfterCanExecute(br) \in Breaker
<1>1. Transition(br, "HALF_OPEN") \in Breaker
  BY TransitionType DEF BreakerStates
<1>2. br.halfOpenRemaining > 0 =>
        [br EXCEPT !.halfOpenRemaining = @ - 1] \in Breaker
  <2>1. br.halfOpenRemaining > 0 => br.halfOpenRemaining - 1 \in 0 .. HalfOpenRequests
    BY BreakerAssumption DEF Breaker
  <2> QED
    BY <2>1, FieldUpdate
<1> QED
  BY <1>1, <1>2 DEF AfterCanExecute

LEMMA OnSuccessType ==
    ASSUME NEW br \in Breaker
    PROVE  OnSuccess(br) \in Breaker
<1> DEFINE counted == [br EXCEPT !.successCount = Saturated(@, FailureThreshold)]
<1>1. counted \in Breaker
  <2>1. Saturated(br.successCount, FailureThreshold) \in 0 .. FailureThreshold
    BY BreakerAssumption DEF Breaker, Saturated
  <2> QED
    BY <2>1, FieldUpdate
<1> HIDE DEF counted
<1>2. Transition(counted, "CLOSED") \in Breaker
  BY <1>1, TransitionType DEF BreakerStates
<1> QED
  BY <1>1, <1>2 DEF OnSuccess, counted

LEMMA OnFailureType ==
    ASSUME NEW br \in Breaker
    PROVE  OnFailure(br) \in Breaker
<1> DEFINE counted == [br EXCEPT !.failures[0] = Saturated(@, FailureThreshold)]
           cycles == IF BackoffMultiplier(br.openProbeCycles) = MaxBackoffMultiplier
                     THEN br.openProbeCycles ELSE br.openProbeCycles + 1
           reopened == [counted EXCEPT !.openProbeCycles = cycles]
<1>1. counted \in Breaker
  <2>1. 0 \in 0 .. FailureWindow /\ br.failures[0] \in 0 .. FailureThreshold
    BY BreakerAssumption DEF Breaker
  <2>2. Saturated(br.failures[0], FailureThreshold) \in 0 .. FailureThreshold
    BY <2>1, BreakerAssumption DEF Saturated
  <2> QED
    BY <2>1, <2>2 DEF Breaker
<1>2. cycles \in Nat
  BY DEF Breaker
<1>3. reopened \in Breaker
  BY <1>1, <1>2 DEF Breaker
<1> HIDE DEF counted, cycles, reopened
<1>4. /\ Transition(reopened, "OPEN") \in Breaker
      /\ Transition(counted, "OPEN") \in Breaker
      /\ Transition(counted, "DEGRADED") \in Breaker
  BY <1>1, <1>3, TransitionType DEF BreakerStates
<1> QED
  BY <1>1, <1>4 DEF OnFailure, counted, cycles, reopened

LEMMA ElapseType ==
    ASSUME NEW br \in Breaker
    PROVE  Elapse(br) \in Breaker /\ Elapse(br).state = br.state
                                 /\ Elapse(br).halfOpenRemaining = br.halfOpenRemaining
<1> DEFINE aged == [a \in 0 .. FailureWindow |-> IF a = 0 THEN 0 ELSE br.failures[a - 1]]
           age == IF br.state = "OPEN" THEN Saturated(br.openAge, LongestCooldown) ELSE br.openAge
<1>1. aged \in [0 .. FailureWindow -> 0 .. FailureThreshold]
  BY BreakerAssumption DEF Breaker
<1>2. age \in 0 .. LongestCooldown
  BY BreakerAssumption DEF Breaker, Saturated, LongestCooldown
<1>3. Elapse(br) = [br EXCEPT !.failures = aged, !.openAge = age]
  BY DEF Elapse
<1> HIDE DEF aged, age
<1> QED
  BY <1>1, <1>2, <1>3 DEF Breaker

\* What a granted canExecute leaves behind, state by state.
LEMMA AfterCanExecuteStates ==
    ASSUME NEW br \in Breaker, CanExecute(br)
    PROVE  /\ br.state \in {"CLOSED", "DEGRADED"} => AfterCanExecute(br) = br
           /\ br.state = "OPEN" =>
                /\ AfterCanExecute(br).state = "HALF_OPEN"
                /\ AfterCanExecute(br).halfOpenRemaining = HalfOpenRequests
           /\ br.state = "HALF_OPEN" =>
                /\ AfterCanExecute(br).state = "HALF_OPEN"
                /\ AfterCanExecute(br).halfOpenRemaining = br.halfOpenRemaining - 1
<1>1. CASE br.state \in {"CLOSED", "DEGRADED"}
  BY <1>1 DEF AfterCanExecute
<1>2. CASE br.state = "OPEN"
  <2>1. AfterCanExecute(br) = Transition(br, "HALF_OPEN")
    BY <1>2 DEF AfterCanExecute, CanExecute
  <2> QED
    BY <1>2, <2>1, TransitionType DEF BreakerStates
<1>3. CASE br.state = "HALF_OPEN"
  <2>1. AfterCanExecute(br) = [br EXCEPT !.halfOpenRemaining = br.halfOpenRemaining - 1]
    BY <1>3 DEF AfterCanExecute, CanExecute
  <2> QED
    BY <1>3, <2>1 DEF Breaker
<1> QED
  BY <1>1, <1>2, <1>3 DEF CanExecute

\* A success closes a HALF_OPEN breaker and opens none.
LEMMA OnSuccessStates ==
    ASSUME NEW br \in Breaker
    PROVE  /\ br.state = "HALF_OPEN" => OnSuccess(br).state = "CLOSED"
           /\ OnSuccess(br).state \in {br.state, "CLOSED"}
           /\ br.state = "OPEN" => OnSuccess(br).state = "OPEN"
<1> DEFINE counted == [br EXCEPT !.successCount = Saturated(@, FailureThreshold)]
<1>1. counted \in Breaker /\ counted.state = br.state
  <2>1. Saturated(br.successCount, FailureThreshold) \in 0 .. FailureThreshold
    BY BreakerAssumption DEF Breaker, Saturated
  <2> QED
    BY <2>1, FieldUpdate DEF Breaker
<1> HIDE DEF counted
<1>2. Transition(counted, "CLOSED").state = "CLOSED"
  BY <1>1, TransitionType DEF BreakerStates
<1> QED
  BY <1>1, <1>2 DEF OnSuccess, counted

\* A failure leaves a breaker that admits requests in any state but HALF_OPEN,
\* and an opened breaker has just been opened.
LEMMA OnFailureStates ==
    ASSUME NEW br \in Breaker, br.state # "OPEN"
    PROVE  /\ OnFailure(br).state # "HALF_OPEN"
           /\ br.state = "HALF_OPEN" => OnFailure(br).state = "OPEN"
           /\ OnFailure(br).state = "OPEN" => OnFailure(br).openAge = 0
<1> DEFINE counted == [br EXCEPT !.failures[0] = Saturated(@, FailureThreshold)]
           cycles == IF BackoffMultiplier(br.openProbeCycles) = MaxBackoffMultiplier
                     THEN br.openProbeCycles ELSE br.openProbeCycles + 1
           reopened == [counted EXCEPT !.openProbeCycles = cycles]
<1>1. counted \in Breaker /\ counted.state = br.state
  <2>1. 0 \in 0 .. FailureWindow /\ br.failures[0] \in 0 .. FailureThreshold
    BY BreakerAssumption DEF Breaker
  <2>2. Saturated(br.failures[0], FailureThreshold) \in 0 .. FailureThreshold
    BY <2>1, BreakerAssumption DEF Saturated
  <2> QED
    BY <2>1, <2>2 DEF Breaker
<1>2. cycles \in Nat
  BY DEF Breaker
<1> HIDE DEF cycles, counted
<1>3. reopened \in Breaker
  BY <1>1, <1>2, FieldUpdate
<1> HIDE DEF reopened
<1>4. /\ Transition(reopened, "OPEN").state = "OPEN"
      /\ Transition(reopened, "OPEN").openAge = 0
      /\ Transition(counted, "OPEN").state = "OPEN"
      /\ Transition(counted, "OPEN").openAge = 0
      /\ Transition(counted, "DEGRADED").state = "DEGRADED"
  BY <1>1, <1>3, TransitionType DEF BreakerStates
<1>5. OnFailure(br) = CASE br.state = "HALF_OPEN" -> Transition(reopened, "OPEN")
                        [] br.state = "OPEN" -> counted
                        [] FailuresInWindow(counted) >= FailureThreshold ->
                             Transition(counted, "OPEN")
                        [] /\ FailuresInWindow(counted)
                                  \in DegradationThreshold .. FailureThreshold - 1
                           /\ br.state = "CLOSED" -> Transition(counted, "DEGRADED")
                        [] OTHER -> counted
  BY DEF OnFailure, counted, cycles, reopened
<1>6. CASE br.state = "HALF_OPEN"
  BY <1>4, <1>5, <1>6
<1>7. CASE br.state \in {"CLOSED", "DEGRADED"}
  BY <1>1, <1>4, <1>5, <1>7
<1> QED
  BY <1>6, <1>7 DEF Breaker, BreakerStates

\* The breaker recordProviderFailure leaves behind is not HALF_OPEN, and not
\* closed if it was being probed.
LEMMA CountedFailureStates ==
    ASSUME NEW br \in Breaker, CanExecute(br)
    PROVE  LET after == AfterCanExecute(OnFailure(AfterCanExecute(br)))
           IN  /\ after \in Breaker
               /\ after.state # "HALF_OPEN"
               /\ br.state \in {"OPEN", "HALF_OPEN"} => after.state = "OPEN"
<1> DEFINE asked == AfterCanExecute(br)
           failed == OnFailure(asked)
<1>1. asked \in Breaker /\ asked.state # "OPEN"
  BY AfterCanExecuteType, AfterCanExecuteStates DEF Breaker, BreakerStates
<1>2. br.state \in {"OPEN", "HALF_OPEN"} => asked.state = "HALF_OPEN"
  BY AfterCanExecuteStates
<1> HIDE DEF asked
<1>3. failed \in Breaker
  BY <1>1, OnFailureType
<1>4. /\ failed.state # "HALF_OPEN"
      /\ asked.state = "HALF_OPEN" => failed.state = "OPEN"
      /\ failed.state = "OPEN" => failed.openAge = 0
  BY <1>1, OnFailureStates
<1> HIDE DEF failed
<1>5. failed.state = "OPEN" => ~CooldownOver(failed)
  BY <1>3, <1>4, NoInstantProbe
<1>6. AfterCanExecute(failed) = failed
  BY <1>4, <1>5 DEF AfterCanExecute
<1> QED
  BY <1>2, <1>3, <1>4, <1>6 DEF asked, failed
-----------------------------------------------------------------------------
(* The inductive invariant *)

\* A request that is using an account uses one of the provider.
UsesAnAccount ==
    \A r \in Requests :
        pc[r] \in {"attempting", "fault", "refused"} => connection[r] \in Connections

\* Requests are counted for a bucket only while it is HALF_OPEN.
CountsProbesOnly ==
    \A b \in ProxyBuckets : breaker[b].state # "HALF_OPEN" => admitted[b] = 0

IInv == TypeOK /\ UsesAnAccount /\ ProbeLimit /\ CountsProbesOnly

BreakerPart ==
    /\ breaker \in [ProxyBuckets -> Breaker]
    /\ admitted \in [ProxyBuckets -> Nat]
    /\ ProbeLimit
    /\ CountsProbesOnly

LEMMA InitInvariant == Init => IInv
<1> SUFFICES ASSUME Init PROVE IInv
  OBVIOUS
<1>1. TypeOK
  <2>1. breaker \in [ProxyBuckets -> Breaker]
    BY NewBreakerType DEF Init
  <2> QED
    BY <2>1, BucketAssumption DEF Init, TypeOK, Labels
<1>2. UsesAnAccount
  BY DEF Init, UsesAnAccount
<1>3. ProbeLimit /\ CountsProbesOnly
  BY DEF Init, ProbeLimit, CountsProbesOnly, NewBreaker
<1> QED
  BY <1>1, <1>2, <1>3 DEF IInv

\* SetBreaker keeps the probe count if the new breaker, when it is HALF_OPEN,
\* has tokens left for no more than the requests not yet let in.
LEMMA SetBreakerKeeps ==
    ASSUME BreakerPart, NEW b \in ProxyBuckets, NEW br \in Breaker, NEW n \in {0, 1},
           br.state = "HALF_OPEN" => admitted[b] + n + br.halfOpenRemaining <= HalfOpenRequests + 1,
           SetBreaker(b, br, n)
    PROVE  BreakerPart'
<1>1. /\ breaker' \in [ProxyBuckets -> Breaker]
      /\ \A d \in ProxyBuckets : breaker'[d] = IF d = b THEN br ELSE breaker[d]
  BY DEF SetBreaker, BreakerPart
<1>2. /\ admitted' \in [ProxyBuckets -> Nat]
      /\ \A d \in ProxyBuckets :
           admitted'[d] = IF d = b THEN IF br.state = "HALF_OPEN" THEN admitted[b] + n ELSE 0
                                   ELSE admitted[d]
  BY DEF SetBreaker, BreakerPart
<1>3. ProbeLimit'
  BY <1>1, <1>2 DEF ProbeLimit, BreakerPart
<1>4. CountsProbesOnly'
  BY <1>1, <1>2 DEF CountsProbesOnly, BreakerPart
<1> QED
  BY <1>1, <1>2, <1>3, <1>4 DEF BreakerPart

\* The three ways in which a breaker is asked or told something.
LEMMA AskKeeps ==
    ASSUME BreakerPart, NEW b \in ProxyBuckets, NEW n \in {0, 1}, CanExecute(breaker[b]),
           SetBreaker(b, AfterCanExecute(breaker[b]), n)
    PROVE  BreakerPart'
<1> DEFINE br == breaker[b]
           asked == AfterCanExecute(br)
<1>1. br \in Breaker /\ asked \in Breaker
  BY AfterCanExecuteType DEF BreakerPart
<1>2. asked.state = "HALF_OPEN" => admitted[b] + n + asked.halfOpenRemaining <= HalfOpenRequests + 1
  <2>1. /\ admitted[b] \in Nat /\ HalfOpenRequests \in Nat /\ br.halfOpenRemaining \in Nat
        /\ br.state = "HALF_OPEN" => admitted[b] + br.halfOpenRemaining <= HalfOpenRequests + 1
        /\ br.state # "HALF_OPEN" => admitted[b] = 0
    <3>1. HalfOpenRequests \in Nat /\ br.halfOpenRemaining \in 0 .. HalfOpenRequests
      BY <1>1, BreakerAssumption DEF Breaker
    <3>2. /\ admitted[b] \in Nat
          /\ br.state = "HALF_OPEN" => admitted[b] + br.halfOpenRemaining <= HalfOpenRequests + 1
          /\ br.state # "HALF_OPEN" => admitted[b] = 0
      BY DEF BreakerPart, ProbeLimit, CountsProbesOnly
    <3> QED
      BY <3>1, <3>2
  <2>2. CASE br.state \in {"CLOSED", "DEGRADED"}
    BY <1>1, <2>2, AfterCanExecuteStates
  <2>3. CASE br.state = "OPEN"
    BY <1>1, <2>1, <2>3, AfterCanExecuteStates
  <2>4. CASE br.state = "HALF_OPEN"
    BY <1>1, <2>1, <2>4, AfterCanExecuteStates
  <2> QED
    BY <1>1, <2>2, <2>3, <2>4 DEF Breaker, BreakerStates
<1> QED
  BY <1>1, <1>2, SetBreakerKeeps

LEMMA SuccessKeeps ==
    ASSUME BreakerPart, NEW b \in ProxyBuckets, SetBreaker(b, OnSuccess(breaker[b]), 0)
    PROVE  BreakerPart'
<1>1. breaker[b] \in Breaker /\ OnSuccess(breaker[b]) \in Breaker
  BY OnSuccessType DEF BreakerPart
<1>2. OnSuccess(breaker[b]).state # "HALF_OPEN"
  BY <1>1, OnSuccessStates DEF Breaker, BreakerStates
<1> QED
  BY <1>1, <1>2, SetBreakerKeeps

LEMMA CountFailureKeeps ==
    ASSUME BreakerPart, NEW b \in ProxyBuckets, CountFailure(b)
    PROVE  BreakerPart'
<1>1. CASE CanExecute(breaker[b])
  <2> DEFINE after == AfterCanExecute(OnFailure(AfterCanExecute(breaker[b])))
  <2>1. breaker[b] \in Breaker
    BY DEF BreakerPart
  <2>2. after \in Breaker /\ after.state # "HALF_OPEN"
    BY <1>1, <2>1, CountedFailureStates
  <2>3. SetBreaker(b, after, 0)
    BY <1>1 DEF CountFailure
  <2> HIDE DEF after
  <2> QED
    BY <2>2, <2>3, SetBreakerKeeps
<1>2. CASE ~CanExecute(breaker[b])
  BY <1>2 DEF CountFailure, BreakerPart, ProbeLimit, CountsProbesOnly
<1> QED
  BY <1>1, <1>2

\* The request half of the type invariant; BreakerPart is the other half.
RequestPart ==
    /\ registry \in Seq(ProxyBuckets)
    /\ sinceRecorded \in [Connections -> 0 .. DedupWindow]
    /\ pc \in [Requests -> Labels]
    /\ connection \in [Requests -> Connections \cup {NoConnection}]
    /\ excluded \in [Requests -> SUBSET Connections]
    /\ succeeding \subseteq Requests \X Connections
    /\ UsesAnAccount

LEMMA Parts == IInv <=> RequestPart /\ BreakerPart
  BY DEF IInv, TypeOK, RequestPart, BreakerPart

LEMMA RegisteredInBuckets ==
    ASSUME registry \in Seq(ProxyBuckets)
    PROVE  \A i \in DOMAIN registry : registry[i] \in ProxyBuckets
  OBVIOUS

LEMMA NextInvariant == IInv /\ [Next]_vars => IInv'
<1> SUFFICES ASSUME RequestPart, BreakerPart, [Next]_vars
             PROVE  RequestPart' /\ BreakerPart'
  <2>1. IInv' <=> RequestPart' /\ BreakerPart'
    BY DEF IInv, TypeOK, RequestPart, BreakerPart
  <2> QED
    BY <2>1, Parts
<1> USE BucketAssumption
<1>1. ASSUME NEW r \in Requests, Gate(r)
      PROVE  RequestPart' /\ BreakerPart'
  <2>1. RequestPart'
    BY <1>1 DEF Gate, Goto, RequestPart, UsesAnAccount, Labels
  <2>2. CASE UNCHANGED <<breaker, admitted>>
    BY <2>1, <2>2 DEF BreakerPart, ProbeLimit, CountsProbesOnly
  <2>3. CASE \E i \in DOMAIN registry :
               /\ FirstExecutable(i)
               /\ SetBreaker(registry[i], AfterCanExecute(breaker[registry[i]]), 0)
    <3>1. PICK i \in DOMAIN registry :
            /\ FirstExecutable(i)
            /\ SetBreaker(registry[i], AfterCanExecute(breaker[registry[i]]), 0)
      BY <2>3
    <3>2. registry[i] \in ProxyBuckets
      BY RegisteredInBuckets DEF RequestPart
    <3>3. CanExecute(breaker[registry[i]])
      BY <3>1 DEF FirstExecutable
    <3> QED
      BY <2>1, <3>1, <3>2, <3>3, AskKeeps
  <2> QED
    BY <1>1, <2>1, <2>2, <2>3 DEF Gate
<1>2. ASSUME NEW r \in Requests, Retry(r)
      PROVE  RequestPart' /\ BreakerPart'
  BY <1>2 DEF Retry, Goto, RequestPart, BreakerPart, UsesAnAccount, Labels, ProbeLimit,
              CountsProbesOnly
<1>3. ASSUME NEW r \in Requests, NEW c \in Connections, Attempt(r, c)
      PROVE  RequestPart' /\ BreakerPart'
  <2>1. BucketOf[c] \in ProxyBuckets
    OBVIOUS
  <2>2. CASE InCooldown(BucketOf[c])
    <3>1. UNCHANGED <<breaker, admitted, pc, connection, registry, sinceRecorded, succeeding>>
      BY <1>3, <2>2 DEF Attempt
    <3>2. excluded' \in [Requests -> SUBSET Connections]
      <4>1. excluded' = [excluded EXCEPT ![r] = @ \cup {c}]
        BY <1>3, <2>2 DEF Attempt
      <4>2. excluded \in [Requests -> SUBSET Connections]
        BY DEF RequestPart
      <4> HIDE BucketAssumption
      <4> QED
        BY <4>1, <4>2
    <3> QED
      BY <3>1, <3>2 DEF RequestPart, BreakerPart, UsesAnAccount, ProbeLimit, CountsProbesOnly
  <2>3. CASE ~InCooldown(BucketOf[c])
    <3>1. RequestPart'
      BY <1>3, <2>3 DEF Attempt, Goto, RequestPart, UsesAnAccount, Labels
    <3>2. CASE Registered(BucketOf[c])
      <4>1. CanExecute(breaker[BucketOf[c]])
        BY <2>3, <3>2 DEF InCooldown
      <4>2. SetBreaker(BucketOf[c], AfterCanExecute(breaker[BucketOf[c]]), 1)
        BY <1>3, <2>3, <3>2 DEF Attempt
      <4> QED
        BY <2>1, <3>1, <4>1, <4>2, AskKeeps
    <3>3. CASE ~Registered(BucketOf[c])
      BY <1>3, <2>3, <3>1, <3>3 DEF Attempt, BreakerPart, ProbeLimit, CountsProbesOnly
    <3> QED
      BY <3>2, <3>3
  <2> QED
    BY <2>2, <2>3
<1>4. ASSUME NEW r \in Requests, NEW c \in Connections, RecordSuccess(r, c)
      PROVE  RequestPart' /\ BreakerPart'
  <2>1. RequestPart'
    BY <1>4 DEF RecordSuccess, RequestPart, UsesAnAccount
  <2>2. CASE Registered(BucketOf[c])
    <3>1. BucketOf[c] \in ProxyBuckets /\ SetBreaker(BucketOf[c], OnSuccess(breaker[BucketOf[c]]), 0)
      BY <1>4, <2>2 DEF RecordSuccess
    <3> QED
      BY <2>1, <3>1, SuccessKeeps
  <2>3. CASE ~Registered(BucketOf[c])
    BY <1>4, <2>1, <2>3 DEF RecordSuccess, BreakerPart, ProbeLimit, CountsProbesOnly
  <2> QED
    BY <2>2, <2>3
<1>5. ASSUME NEW r \in Requests, NoAccount(r) \/ NoCapacity(r) \/ Respond(r) \/ Unrecorded(r)
      PROVE  RequestPart' /\ BreakerPart'
  <2>1. BreakerPart'
    BY <1>5 DEF NoAccount, NoCapacity, Respond, Unrecorded, BreakerPart, ProbeLimit,
                CountsProbesOnly
  <2>2. CASE NoAccount(r) \/ Unrecorded(r)
    BY <2>1, <2>2 DEF NoAccount, Unrecorded, Return, Goto, RequestPart, UsesAnAccount, Labels
  <2>3. CASE NoCapacity(r)
    BY <2>1, <2>3 DEF NoCapacity, TryNextAccount, Goto, RequestPart, UsesAnAccount, Labels
  <2>4. CASE Respond(r)
    <3>1. connection[r] \in Connections
      BY <2>4 DEF Respond, RequestPart, UsesAnAccount
    <3>2. succeeding' \subseteq Requests \X Connections
      BY <2>4, <3>1 DEF Respond, RequestPart
    <3> QED
      BY <2>1, <2>4, <3>2 DEF Respond, Return, Goto, RequestPart, UsesAnAccount, Labels
  <2> QED
    BY <1>5, <2>1, <2>2, <2>3, <2>4
<1>6. ASSUME NEW r \in Requests, RecordFailure(r)
      PROVE  RequestPart' /\ BreakerPart'
  <2>1. connection[r] \in Connections
    BY <1>6 DEF RecordFailure, RequestPart, UsesAnAccount
  <2>2. BucketOf[connection[r]] \in ProxyBuckets
    BY <2>1
  <2>3. \/ CountFailure(BucketOf[connection[r]])
        \/ UNCHANGED <<registry, breaker, admitted>>
    BY <1>6 DEF RecordFailure
  <2>4. BreakerPart'
    BY <2>2, <2>3, CountFailureKeeps DEF BreakerPart, ProbeLimit, CountsProbesOnly
  <2>5. registry' \in Seq(ProxyBuckets)
    <3>1. registry' \in {registry, Append(registry, BucketOf[connection[r]])}
      BY <2>3 DEF CountFailure
    <3>2. \A s \in Seq(ProxyBuckets), b \in ProxyBuckets : Append(s, b) \in Seq(ProxyBuckets)
      OBVIOUS
    <3> QED
      BY <2>2, <3>1, <3>2 DEF RequestPart
  <2>6. sinceRecorded' \in [Connections -> 0 .. DedupWindow]
    BY <1>6, <2>1 DEF RecordFailure, RequestPart
  <2>7. RequestPart'
    BY <1>6, <2>1, <2>5, <2>6 DEF RecordFailure, TryNextAccount, Goto, RequestPart,
                                  UsesAnAccount, Labels
  <2> QED
    BY <2>4, <2>7
<1>7. ASSUME NEW b \in ProxyBuckets, FilterCandidate(b)
      PROVE  RequestPart' /\ BreakerPart'
  <2>1. RequestPart'
    BY <1>7 DEF FilterCandidate, requestVars, RequestPart, UsesAnAccount
  <2> QED
    BY <1>7, <2>1, AskKeeps DEF FilterCandidate
<1>8. CASE Tick
  <2>1. \A b \in ProxyBuckets :
          /\ breaker'[b] \in Breaker
          /\ breaker'[b].state = breaker[b].state
          /\ breaker'[b].halfOpenRemaining = breaker[b].halfOpenRemaining
    BY <1>8, ElapseType DEF Tick, BreakerPart
  <2>2. BreakerPart'
    BY <1>8, <2>1 DEF Tick, BreakerPart, ProbeLimit, CountsProbesOnly
  <2>3. sinceRecorded' \in [Connections -> 0 .. DedupWindow]
    BY <1>8 DEF Tick, RequestPart, Saturated
  <2> QED
    BY <1>8, <2>2, <2>3 DEF Tick, requestVars, RequestPart, UsesAnAccount
<1>9. CASE UNCHANGED vars
  BY <1>9 DEF vars, RequestPart, BreakerPart, UsesAnAccount, ProbeLimit, CountsProbesOnly
<1> QED
  BY <1>1, <1>2, <1>3, <1>4, <1>5, <1>6, <1>7, <1>8, <1>9 DEF Next

\* IInv holds in every state: the invariant the theorems below rest on.
THEOREM Invariance == Spec => []IInv
<1>1. Init => IInv
  BY InitInvariant
<1>2. IInv /\ [Next]_vars => IInv'
  BY NextInvariant
<1> QED
  BY <1>1, <1>2, PTL DEF Spec

\* Every variable keeps its type, whatever order gates, answers, callbacks and
\* clock ticks come in.
THEOREM TypeCorrect == Spec => []TypeOK
<1>1. IInv => TypeOK
  BY DEF IInv
<1> QED
  BY <1>1, Invariance, PTL

\* However many requests, accounts and buckets there are, a HALF_OPEN bucket
\* admits at most HalfOpenRequests + 1 requests.
THEOREM ProbesAreLimited == Spec => []ProbeLimit
<1>1. IInv => ProbeLimit
  BY DEF IInv
<1> QED
  BY <1>1, Invariance, PTL
-----------------------------------------------------------------------------
(* What a step may do to a breaker *)

\* SetBreaker touches one breaker.
LEMMA SetBreakerOnly ==
    ASSUME IInv, NEW b \in ProxyBuckets, NEW br, NEW n, SetBreaker(b, br, n)
    PROVE  \A d \in ProxyBuckets : breaker'[d] = IF d = b THEN br ELSE breaker[d]
  BY DEF SetBreaker, IInv, TypeOK

\* Asking a breaker neither opens nor closes it.
LEMMA AskingDecidesNothing ==
    ASSUME NEW br \in Breaker, CanExecute(br)
    PROVE  /\ AfterCanExecute(br).failures = br.failures
           /\ AfterCanExecute(br).state # "OPEN"
           /\ br.state \in {"OPEN", "HALF_OPEN"} => AfterCanExecute(br).state = "HALF_OPEN"
<1>1. br.state \in BreakerStates
  BY DEF Breaker
<1>2. AfterCanExecute(br).failures = br.failures
  BY DEF AfterCanExecute, Transition, Breaker
<1> QED
  BY <1>1, <1>2, AfterCanExecuteStates DEF BreakerStates

\* The changes a step can make, and the request that makes them: a failure is
\* counted and a breaker is opened by the report of a fault behind it, and it is
\* closed by a success behind it.
Opens(b) ==
    \/ breaker'[b].failures[0] > breaker[b].failures[0]
    \/ breaker[b].state # "OPEN" /\ breaker'[b].state = "OPEN"

Closes(b) ==
    /\ breaker[b].state \in {"OPEN", "HALF_OPEN"}
    /\ breaker'[b].state \in {"CLOSED", "DEGRADED"}

OpenedByFault(b) ==
    \E r \in Requests : /\ pc[r] = "fault" /\ pc'[r] = "selecting"
                        /\ BucketOf[connection[r]] = b

ClosedByProbe(b) ==
    /\ breaker[b].state = "HALF_OPEN"
    /\ \E r \in Requests, c \in Connections :
          /\ BucketOf[c] = b
          /\ <<r, c>> \in succeeding \ succeeding'

LEMMA BreakerSteps ==
    ASSUME IInv, Next, NEW b \in ProxyBuckets
    PROVE  (Opens(b) => OpenedByFault(b)) /\ (Closes(b) => ClosedByProbe(b))
<1> USE BucketAssumption
<1>0. \A d \in ProxyBuckets : breaker[d] \in Breaker
  BY DEF IInv, TypeOK
<1>a. breaker[b].failures[0] \in Nat
  BY <1>0, BreakerAssumption DEF Breaker
<1>1. ASSUME UNCHANGED breaker
      PROVE  ~Opens(b) /\ ~Closes(b)
  BY <1>0, <1>a, <1>1 DEF Opens, Closes
<1>2. ASSUME NEW d \in ProxyBuckets, NEW n, CanExecute(breaker[d]),
             SetBreaker(d, AfterCanExecute(breaker[d]), n)
      PROVE  ~Opens(b) /\ ~Closes(b)
  <2>1. breaker'[b] = IF b = d THEN AfterCanExecute(breaker[d]) ELSE breaker[b]
    BY <1>2, SetBreakerOnly
  <2>2. CASE b # d
    BY <1>a, <2>1, <2>2 DEF Opens, Closes
  <2>3. CASE b = d
    BY <1>0, <1>a, <1>2, <2>1, <2>3, AskingDecidesNothing DEF Opens, Closes
  <2> QED
    BY <2>2, <2>3
<1>3. ASSUME NEW r \in Requests, Gate(r)
      PROVE  ~Opens(b) /\ ~Closes(b)
  <2>1. \/ UNCHANGED breaker
        \/ \E i \in DOMAIN registry :
             /\ FirstExecutable(i)
             /\ SetBreaker(registry[i], AfterCanExecute(breaker[registry[i]]), 0)
    BY <1>3 DEF Gate
  <2>2. ASSUME NEW i \in DOMAIN registry, FirstExecutable(i),
               SetBreaker(registry[i], AfterCanExecute(breaker[registry[i]]), 0)
        PROVE  ~Opens(b) /\ ~Closes(b)
    <3>1. registry[i] \in ProxyBuckets
      BY RegisteredInBuckets DEF IInv, TypeOK
    <3>2. CanExecute(breaker[registry[i]])
      BY <2>2 DEF FirstExecutable
    <3> QED
      BY <1>2, <2>2, <3>1, <3>2
  <2> QED
    BY <1>1, <2>1, <2>2
<1>4. ASSUME NEW r \in Requests, NEW c \in Connections, Attempt(r, c)
      PROVE  ~Opens(b) /\ ~Closes(b)
  <2>1. \/ UNCHANGED breaker
        \/ /\ CanExecute(breaker[BucketOf[c]])
           /\ SetBreaker(BucketOf[c], AfterCanExecute(breaker[BucketOf[c]]), 1)
    BY <1>4 DEF Attempt, InCooldown
  <2> QED
    BY <1>1, <1>2, <2>1
<1>5. ASSUME NEW r \in Requests, NEW c \in Connections, RecordSuccess(r, c)
      PROVE  ~Opens(b) /\ (Closes(b) => ClosedByProbe(b))
  <2>1. CASE UNCHANGED breaker
    BY <1>1, <2>1
  <2>2. CASE SetBreaker(BucketOf[c], OnSuccess(breaker[BucketOf[c]]), 0)
    <3>1. breaker'[b] = IF b = BucketOf[c] THEN OnSuccess(breaker[b]) ELSE breaker[b]
      BY <2>2, SetBreakerOnly
    <3>2. CASE b # BucketOf[c]
      BY <1>a, <3>1, <3>2 DEF Opens, Closes
    <3>3. CASE b = BucketOf[c]
      <4>1. breaker[b].state \in BreakerStates
        BY <1>0 DEF Breaker
      <4>2. <<r, c>> \in succeeding \ succeeding'
        BY <1>5 DEF RecordSuccess
      <4>a. OnSuccess(breaker[b]).failures = breaker[b].failures
        BY <1>0 DEF OnSuccess, Transition, Breaker
      <4>3. ~Opens(b) /\ (Closes(b) => breaker[b].state = "HALF_OPEN")
        BY <1>0, <1>a, <3>1, <3>3, <4>a, OnSuccessStates DEF Opens, Closes
      <4> QED
        BY <3>3, <4>2, <4>3 DEF ClosedByProbe
    <3> QED
      BY <3>2, <3>3
  <2> QED
    BY <1>5, <2>1, <2>2 DEF RecordSuccess
<1>6. ASSUME NEW r \in Requests, RecordFailure(r)
      PROVE  (Opens(b) => OpenedByFault(b)) /\ ~Closes(b)
  <2> DEFINE d == BucketOf[connection[r]]
             after == AfterCanExecute(OnFailure(AfterCanExecute(breaker[d])))
  <2>1. d \in ProxyBuckets
    BY <1>6 DEF RecordFailure, IInv, UsesAnAccount
  <2>2. CASE UNCHANGED breaker
    BY <1>1, <2>2
  <2>3. CASE pc[r] = "fault" /\ CanExecute(breaker[d]) /\ SetBreaker(d, after, 0)
    <3>1. breaker'[b] = IF b = d THEN after ELSE breaker[b]
      BY <2>1, <2>3, SetBreakerOnly
    <3>2. breaker[d].state \in {"OPEN", "HALF_OPEN"} => after.state = "OPEN"
      BY <1>0, <2>1, <2>3, CountedFailureStates
    <3>3. pc'[r] = "selecting"
      BY <1>6 DEF RecordFailure, TryNextAccount, Goto, IInv, TypeOK
    <3> HIDE DEF after
    <3>4. CASE b # d
      BY <1>a, <3>1, <3>4 DEF Opens, Closes
    <3>5. CASE b = d
      <4>1. OpenedByFault(b)
        BY <2>3, <3>3, <3>5 DEF OpenedByFault
      <4>2. ~Closes(b)
        BY <3>1, <3>2, <3>5 DEF Closes
      <4> QED
        BY <4>1, <4>2
    <3> QED
      BY <3>4, <3>5
  <2>4. \/ UNCHANGED breaker
        \/ pc[r] = "fault" /\ CanExecute(breaker[d]) /\ SetBreaker(d, after, 0)
    BY <1>6 DEF RecordFailure, CountFailure, Eligible
  <2> QED
    BY <2>2, <2>3, <2>4
<1>7. ASSUME NEW d \in ProxyBuckets, FilterCandidate(d)
      PROVE  ~Opens(b) /\ ~Closes(b)
  BY <1>2, <1>7 DEF FilterCandidate
<1>8. CASE Tick
  <2>1. breaker'[b].state = breaker[b].state
    BY <1>0, <1>8, ElapseType DEF Tick
  <2>2. breaker'[b].failures[0] = 0
    <3>1. breaker'[b] = Elapse(breaker[b])
      BY <1>8 DEF Tick
    <3>2. Elapse(breaker[b]).failures =
            [a \in 0 .. FailureWindow |-> IF a = 0 THEN 0 ELSE breaker[b].failures[a - 1]]
      BY <1>0 DEF Elapse, Breaker
    <3>3. 0 \in 0 .. FailureWindow
      BY BreakerAssumption
        <3> QED
      BY <3>1, <3>2, <3>3
  <2> QED
    BY <1>a, <2>1, <2>2 DEF Opens, Closes
<1>9. ASSUME NEW r \in Requests,
             Retry(r) \/ NoAccount(r) \/ NoCapacity(r) \/ Respond(r) \/ Unrecorded(r)
      PROVE  UNCHANGED breaker
  BY <1>9 DEF Retry, NoAccount, NoCapacity, Respond, Unrecorded
<1> QED
  BY <1>1, <1>3, <1>4, <1>5, <1>6, <1>7, <1>8, <1>9 DEF Next

\* No 429, no failure behind another proxy, no success and no clock tick counts
\* against a bucket or opens its breaker, for every number of proxies, accounts and
\* concurrent requests.
THEOREM OnlyFaultsCount == Spec => OnlyOwnFaultsCount
<1>1. ASSUME IInv, [Next]_vars, NEW b \in ProxyBuckets, Opens(b) PROVE OpenedByFault(b)
  <2>1. CASE Next
    BY <1>1, <2>1, BreakerSteps
  <2>2. CASE UNCHANGED vars
    <3>1. breaker[b].failures[0] \in Nat
      <4>1. breaker[b] \in Breaker
        BY <1>1 DEF IInv, TypeOK
      <4> QED
        BY <4>1, BreakerAssumption DEF Breaker
    <3> QED
      BY <1>1, <2>2, <3>1 DEF vars, Opens
  <2> QED
    BY <1>1, <2>1, <2>2
<1>2. IInv /\ [Next]_vars =>
        [\A b \in ProxyBuckets :
           \/ breaker'[b].failures[0] > breaker[b].failures[0]
           \/ breaker[b].state # "OPEN" /\ breaker'[b].state = "OPEN"
           => \E r \in Requests : /\ pc[r] = "fault" /\ pc'[r] = "selecting"
                                  /\ BucketOf[connection[r]] = b]_vars
  BY <1>1 DEF Opens, OpenedByFault
<1> QED
  BY <1>2, Invariance, PTL DEF Spec, OnlyOwnFaultsCount

\* Only a success on a bucket that is being probed closes it again.
THEOREM OnlyProbesClose == Spec => RecoveryIsProbed
<1>1. ASSUME IInv, [Next]_vars, NEW b \in ProxyBuckets, Closes(b) PROVE ClosedByProbe(b)
  <2>1. CASE Next
    BY <1>1, <2>1, BreakerSteps
  <2>2. CASE UNCHANGED vars
    BY <1>1, <2>2 DEF vars, Closes
  <2> QED
    BY <1>1, <2>1, <2>2
<1>2. IInv /\ [Next]_vars =>
        [\A b \in ProxyBuckets :
           breaker[b].state \in {"OPEN", "HALF_OPEN"} /\ breaker'[b].state \in {"CLOSED", "DEGRADED"} =>
              /\ breaker[b].state = "HALF_OPEN"
              /\ \E r \in Requests, c \in Connections :
                    /\ BucketOf[c] = b
                    /\ <<r, c>> \in succeeding \ succeeding']_vars
  BY <1>1 DEF Closes, ClosedByProbe
<1> QED
  BY <1>2, Invariance, PTL DEF Spec, RecoveryIsProbed
=============================================================================
