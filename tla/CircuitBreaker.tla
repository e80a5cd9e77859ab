--------------------------- MODULE CircuitBreaker ---------------------------
(***************************************************************************)
(* The class CircuitBreaker of open-sse/utils/circuitBreaker.js as         *)
(* operations on a record: each operator takes a breaker and returns the   *)
(* breaker the method leaves behind.                                       *)
(*                                                                         *)
(* Time is discrete and kept as AGES, so that no clock grows without bound:*)
(* openAge is Date.now() - openedAt, and failures[a] is the number of      *)
(* failureTimestamps that are a ticks old.  Three quantities the code lets *)
(* grow saturate where the code stops telling their values apart:          *)
(* failures[a] and successCount at FailureThreshold (they are compared     *)
(* with it only), openAge at LongestCooldown, and openProbeCycles once it  *)
(* has reached the largest multiplier.  openedAt is read in OPEN only, so  *)
(* openAge is 0 in every other state.                                      *)
(*                                                                         *)
(* failureCount is left out: every breaker that ever sees a failure is     *)
(* created by recordProviderFailure with failureWindowMs > 0, and then     *)
(* failureCount only appears in status reports.  kindThresholds, isFailure *)
(* and classifyError are never set by any caller.                          *)
(***************************************************************************)
EXTENDS Integers, Functions

CONSTANTS
    FailureThreshold,       \* failures within the window that open the breaker
    DegradationThreshold,   \* failures within the window that degrade it
    FailureWindow,          \* failureWindowMs, in ticks
    ResetTimeout,           \* resetTimeoutMs, in ticks
    HalfOpenRequests,       \* tokens handed out on entering HALF_OPEN
    MaxBackoffMultiplier,
    BackoffEscalationCount

ASSUME BreakerAssumption ==
    /\ FailureThreshold \in Nat \ {0}
    /\ DegradationThreshold \in 0 .. FailureThreshold
    /\ FailureWindow \in Nat \ {0}
    /\ ResetTimeout \in Nat \ {0}
    /\ HalfOpenRequests \in Nat \ {0}
    /\ MaxBackoffMultiplier \in Nat \ {0}
    /\ BackoffEscalationCount \in Nat \ {0}

BreakerStates == {"CLOSED", "DEGRADED", "OPEN", "HALF_OPEN"}

LongestCooldown == ResetTimeout * MaxBackoffMultiplier

Breaker ==
    [ state            : BreakerStates,
      failures         : [0 .. FailureWindow -> 0 .. FailureThreshold],
      successCount     : 0 .. FailureThreshold,
      halfOpenRemaining: 0 .. HalfOpenRequests,
      openAge          : 0 .. LongestCooldown,
      openProbeCycles  : Nat ]

\* What the constructor builds.
NewBreaker ==
    [ state            |-> "CLOSED",
      failures         |-> [a \in 0 .. FailureWindow |-> 0],
      successCount     |-> 0,
      halfOpenRemaining|-> 0,
      openAge          |-> 0,
      openProbeCycles  |-> 0 ]
-----------------------------------------------------------------------------
\* _transition: entering CLOSED forgets successes and probe cycles, but not
\* the timestamps of past failures.
Transition(br, newState) ==
    CASE newState = "OPEN" ->
           [br EXCEPT !.state = newState, !.openAge = 0, !.halfOpenRemaining = 0]
      [] newState = "HALF_OPEN" ->
           [br EXCEPT !.state = newState, !.halfOpenRemaining = HalfOpenRequests,
                      !.openAge = 0]
      [] newState = "CLOSED" ->
           [br EXCEPT !.state = newState, !.successCount = 0,
                      !.openProbeCycles = 0, !.openAge = 0]
      [] OTHER -> [br EXCEPT !.state = newState]

\* The multiplier of the cooldown after n failed probes in a row.
BackoffMultiplier(n) ==
    LET doubled == 2 ^ (n \div BackoffEscalationCount)
    IN  IF doubled < MaxBackoffMultiplier THEN doubled ELSE MaxBackoffMultiplier

CooldownOver(br) == br.openAge >= ResetTimeout * BackoffMultiplier(br.openProbeCycles)

\* Mutant: an open breaker never looks at its timeout.
CanExecuteIgnoringTimeout(br) ==
    \/ br.state \in {"CLOSED", "DEGRADED"}
    \/ br.state = "HALF_OPEN" /\ br.halfOpenRemaining > 0

\* The answer of canExecute ...
CanExecute(br) ==
    \/ br.state \in {"CLOSED", "DEGRADED"}
    \/ br.state = "OPEN" /\ CooldownOver(br)
    \/ br.state = "HALF_OPEN" /\ br.halfOpenRemaining > 0

\* Mutant: a probe does not use up its token.
AfterCanExecuteKeepingToken(br) ==
    IF br.state = "OPEN" /\ CooldownOver(br) THEN Transition(br, "HALF_OPEN") ELSE br

\* ... and its side effect.  The call that turns OPEN into HALF_OPEN is let
\* through without taking one of the tokens it hands out.
AfterCanExecute(br) ==
    CASE br.state = "OPEN" /\ CooldownOver(br) -> Transition(br, "HALF_OPEN")
      [] br.state = "HALF_OPEN" /\ br.halfOpenRemaining > 0 ->
           [br EXCEPT !.halfOpenRemaining = @ - 1]
      [] OTHER -> br

Saturated(n, bound) == IF n < bound THEN n + 1 ELSE n

\* Mutant: any success closes the breaker.
OnSuccessClosing(br) == Transition(br, "CLOSED")

\* _onSuccess.
OnSuccess(br) ==
    LET counted == [br EXCEPT !.successCount = Saturated(@, FailureThreshold)]
    IN  IF \/ br.state = "HALF_OPEN"
           \/ br.state = "DEGRADED" /\ counted.successCount >= FailureThreshold
        THEN Transition(counted, "CLOSED")
        ELSE counted

\* _countFailuresInWindow.
FailuresInWindow(br) == SumFunction(br.failures)

\* _onFailure.  A failure seen while OPEN is remembered and changes nothing else.
OnFailure(br) ==
    LET counted == [br EXCEPT !.failures[0] = Saturated(@, FailureThreshold)]
        cycles  == IF BackoffMultiplier(br.openProbeCycles) = MaxBackoffMultiplier
                   THEN br.openProbeCycles ELSE br.openProbeCycles + 1
    IN  CASE br.state = "HALF_OPEN" ->
               Transition([counted EXCEPT !.openProbeCycles = cycles], "OPEN")
          [] br.state = "OPEN" -> counted
          [] FailuresInWindow(counted) >= FailureThreshold -> Transition(counted, "OPEN")
          [] /\ FailuresInWindow(counted) \in DegradationThreshold .. FailureThreshold - 1
             /\ br.state = "CLOSED" -> Transition(counted, "DEGRADED")
          [] OTHER -> counted

\* One tick of the clock: timestamps older than the window are the ones
\* _pruneFailureTimestamps drops before it counts.
Elapse(br) ==
    [br EXCEPT !.failures = [a \in 0 .. FailureWindow |->
                                IF a = 0 THEN 0 ELSE br.failures[a - 1]],
               !.openAge = IF br.state = "OPEN" THEN Saturated(@, LongestCooldown) ELSE @]
=============================================================================
