--------------------------- MODULE AccountSemaphore ---------------------------
(***************************************************************************)
(* open-sse/services/accountSemaphore.js: the gate of one key              *)
(* provider:account:proxy, and the requests of src/sse/handlers/chat.js    *)
(* that take a slot before they go upstream.                               *)
(*                                                                         *)
(*   idle --Acquire--> holding --Finish--> idle | refused                  *)
(*      \                 ^ drain                    |                     *)
(*       +--> waiting ----+                      Cooldown --> idle         *)
(*               \--GiveUp--> idle                                         *)
(*                                                                         *)
(* A refused request has given its slot back and awaits                    *)
(* markAccountUnavailable; only then does it block the gate.               *)
(*                                                                         *)
(* blockedFor is the time left until blockedUntil (0: null or past, which  *)
(* the code treats alike).  The gate object and its key in the map are     *)
(* one: a gate is deleted only when nothing refers to it (SlotAccounting). *)
(* The timer of a block fires at its end or later; blocks longer than      *)
(* setTimeout's range of 2^31 - 1 ms are not modelled.                     *)
(***************************************************************************)
EXTENDS Integers, Sequences, FiniteSets

CONSTANTS
    Requests,               \* concurrent attempts on the account
    Settings,               \* maxConcurrency the user may give it; 0: no limit
    DefaultMaxConcurrency,  \* acquire's default
    MaxQueueSize,
    MaxBlock                \* longest cooldown, in ticks

ASSUME SemaphoreAssumption ==
    /\ IsFiniteSet(Requests)
    /\ Settings \subseteq Nat
    /\ DefaultMaxConcurrency \in Nat \ {0}
    /\ MaxQueueSize \in Nat
    /\ MaxBlock \in Nat

VARIABLES
    present,        \* is there a gate under the key?
    running,
    maxConcurrency,
    queue,
    blockedFor,
    blockTimer,     \* is the wake-up at the end of the block armed?
    cleanupTimer,   \* is the deletion of the idle gate scheduled?
    pc,
    setting         \* maxConcurrency in the credentials each request works with

gateVars == <<present, running, maxConcurrency, queue, blockedFor, blockTimer, cleanupTimer>>
vars == <<gateVars, pc, setting>>

Labels == {"idle", "waiting", "holding", "refused"}

TypeOK ==
    /\ present \in BOOLEAN
    /\ running \in Nat
    /\ maxConcurrency \in Nat
    /\ queue \in Seq(Requests)
    /\ blockedFor \in 0 .. MaxBlock
    /\ blockTimer \in BOOLEAN
    /\ cleanupTimer \in BOOLEAN
    /\ pc \in [Requests -> Labels]
    /\ setting \in [Requests -> Settings]

Init ==
    /\ present = FALSE
    /\ running = 0
    /\ maxConcurrency = 0
    /\ queue = <<>>
    /\ blockedFor = 0
    /\ blockTimer = FALSE
    /\ cleanupTimer = FALSE
    /\ pc = [r \in Requests |-> "idle"]
    /\ setting \in [Requests -> Settings]
-----------------------------------------------------------------------------
\* resolveAccountSemaphoreMaxConcurrency turns 0 into null, and acquire turns
\* null into its default before it asks whether the limit is bypassed.
SlotLimit(max) == IF max = 0 THEN DefaultMaxConcurrency ELSE max

Holders == {r \in Requests : pc[r] = "holding"}

\* Mutant: the block is not looked at.
GrantableUnblocked(run) ==
    IF run < maxConcurrency
    THEN IF Len(queue) < maxConcurrency - run THEN Len(queue) ELSE maxConcurrency - run
    ELSE 0

\* How many waiters drainQueue lets in when run slots are taken.
Grantable(run) ==
    IF blockedFor = 0 /\ run < maxConcurrency
    THEN IF Len(queue) < maxConcurrency - run THEN Len(queue) ELSE maxConcurrency - run
    ELSE 0

\* The waiters drainQueue lets in.
First(k) == {queue[i] : i \in 1 .. k}

\* pc once the first k waiters hold a slot.
Granted(k) == [r \in Requests |-> IF r \in First(k) THEN "holding" ELSE pc[r]]

\* What drainQueue leaves of the gate after it has let in k waiters.
Drain(run, k) ==
    /\ running' = run + k
    /\ queue' = SubSeq(queue, k + 1, Len(queue))
    /\ cleanupTimer' = (cleanupTimer \/ (running' = 0 /\ queue' = <<>> /\ blockedFor = 0))

\* acquire, with ensureGate: the newest credentials decide the gate's limit.
Acquire(r, max) ==
    /\ pc[r] = "idle"
    /\ setting' = [setting EXCEPT ![r] = max]
    /\ present' = TRUE
    /\ maxConcurrency' = SlotLimit(max)
    /\ \/ /\ blockedFor = 0
          /\ running < SlotLimit(max)
          /\ running' = running + 1
          /\ pc' = [pc EXCEPT ![r] = "holding"]
          /\ UNCHANGED <<queue, cleanupTimer>>
       \/ /\ blockedFor > 0 \/ running >= SlotLimit(max)
          /\ \/ /\ Len(queue) < MaxQueueSize
                /\ queue' = Append(queue, r)
                /\ cleanupTimer' = TRUE
                /\ pc' = [pc EXCEPT ![r] = "waiting"]
             \/ /\ Len(queue) >= MaxQueueSize
                /\ UNCHANGED <<queue, cleanupTimer, pc>>
          /\ UNCHANGED running
    /\ UNCHANGED <<blockedFor, blockTimer>>

\* queue.splice(i, 1)
Without(i) == SubSeq(queue, 1, i - 1) \o SubSeq(queue, i + 1, Len(queue))

\* Mutant: a waiter that gives up returns a slot it never had.
GiveUpReleasing(r) ==
    /\ pc[r] = "waiting"
    /\ \E i \in DOMAIN queue : queue[i] = r /\ queue' = Without(i)
    /\ running' = running - 1
    /\ pc' = [pc EXCEPT ![r] = "idle"]
    /\ UNCHANGED <<present, maxConcurrency, blockedFor, blockTimer, cleanupTimer, setting>>

\* Mutant: a waiter that gives up stays in the queue.
GiveUpStaying(r) ==
    /\ pc[r] = "waiting"
    /\ pc' = [pc EXCEPT ![r] = "idle"]
    /\ UNCHANGED <<gateVars, setting>>

\* The queue timeout of a waiter, or its client's abort.
GiveUp(r) ==
    /\ pc[r] = "waiting"
    /\ \E i \in DOMAIN queue : queue[i] = r /\ queue' = Without(i)
    /\ pc' = [pc EXCEPT ![r] = "idle"]
    /\ UNCHANGED <<present, running, maxConcurrency, blockedFor, blockTimer, cleanupTimer,
                   setting>>

\* Mutant: the slot is given back and nobody is woken.
FinishQuietly(r) ==
    /\ pc[r] = "holding"
    /\ \E outcome \in {"idle", "refused"} : pc' = [pc EXCEPT ![r] = outcome]
    /\ Drain(running - 1, 0)
    /\ UNCHANGED <<present, maxConcurrency, blockedFor, blockTimer, setting>>

\* handleChatCore settles: the finally clause releases the slot before the
\* answer is looked at, and release drains the queue.
Finish(r) ==
    LET k == Grantable(running - 1) IN
    /\ pc[r] = "holding"
    /\ \E outcome \in {"idle", "refused"} : pc' = [Granted(k) EXCEPT ![r] = outcome]
    /\ Drain(running - 1, k)
    /\ UNCHANGED <<present, maxConcurrency, blockedFor, blockTimer, setting>>

\* Mutant: the block arms no timer.
MarkBlockedWithoutWakeup(duration) ==
    /\ blockedFor' = IF blockedFor < duration THEN duration ELSE blockedFor
    /\ UNCHANGED blockTimer

\* markBlocked: the longer block wins.
MarkBlocked(duration) ==
    /\ blockedFor' = IF blockedFor < duration THEN duration ELSE blockedFor
    /\ blockTimer' = TRUE

\* markAccountUnavailable has returned a cooldown; without one, or when the
\* gate has been deleted meanwhile, nothing is blocked.
Cooldown(r, duration) ==
    /\ pc[r] = "refused"
    /\ pc' = [pc EXCEPT ![r] = "idle"]
    /\ IF present /\ duration > 0 THEN MarkBlocked(duration)
                                  ELSE UNCHANGED <<blockedFor, blockTimer>>
    /\ UNCHANGED <<present, running, maxConcurrency, queue, cleanupTimer, setting>>

BlockTimerFires ==
    LET k == Grantable(running) IN
    /\ blockTimer
    /\ blockedFor = 0
    /\ blockTimer' = FALSE
    /\ Drain(running, k)
    /\ pc' = Granted(k)
    /\ UNCHANGED <<present, maxConcurrency, blockedFor, setting>>

\* The timeout of scheduleCleanup: cleanupGateIfIdle looks at the gate again.
CleanupTimerFires ==
    /\ cleanupTimer
    /\ cleanupTimer' = FALSE
    /\ IF running = 0 /\ queue = <<>> /\ blockedFor = 0
       THEN /\ present' = FALSE
            /\ maxConcurrency' = 0
            /\ blockTimer' = FALSE
       ELSE UNCHANGED <<present, maxConcurrency, blockTimer>>
    /\ UNCHANGED <<running, queue, blockedFor, pc, setting>>

Tick ==
    /\ blockedFor > 0
    /\ blockedFor' = blockedFor - 1
    /\ UNCHANGED <<present, running, maxConcurrency, queue, blockTimer, cleanupTimer, pc, setting>>

Next ==
    \/ \E r \in Requests :
         \/ \E max \in Settings : Acquire(r, max)
         \/ GiveUp(r)
         \/ Finish(r)
         \/ \E duration \in 0 .. MaxBlock : Cooldown(r, duration)
    \/ BlockTimerFires
    \/ CleanupTimerFires
    \/ Tick

Spec == Init /\ [][Next]_vars
-----------------------------------------------------------------------------
(* Properties *)

\* Every slot counted in running is held by exactly one request, the queue is
\* the waiting requests without repetition, and a gate that has been deleted
\* has neither: no slot leaks and none is given back twice.
SlotAccounting ==
    /\ running = Cardinality(Holders)
    /\ {queue[i] : i \in DOMAIN queue} = {r \in Requests : pc[r] = "waiting"}
    /\ \A i, j \in DOMAIN queue : queue[i] = queue[j] => i = j
    /\ ~present => running = 0 /\ queue = <<>> /\ blockedFor = 0 /\ ~blockTimer

\* Whoever waits will be woken, by the release of a slot or by the timer of the
\* block ("drain queued waiters when the block expires instead of leaving them
\* stuck"), and an idle gate will be deleted.
NobodyIsForgotten ==
    /\ queue # <<>> => running > 0 \/ blockTimer
    /\ blockedFor > 0 => blockTimer
    /\ present /\ running = 0 /\ queue = <<>> => cleanupTimer \/ blockTimer

\* A slot is handed out only within the limit of the newest credentials, even
\* when the limit has been lowered below the number of running requests.
GrantsKeepTheLimit ==
    [][running' > running => running' <= maxConcurrency']_vars

\* Nothing starts on an account in cooldown, however a slot becomes free.  (SlotPool
\* implies this one, the limit before it and the order after it.)
BlockedAccountRests ==
    [][blockedFor > 0 => Holders' \subseteq Holders]_vars

\* No waiter is let in before one that has waited longer.
WaitersAreServedInOrder ==
    [][\A i, j \in DOMAIN queue :
         i < j /\ pc'[queue[j]] = "holding" => pc'[queue[i]] # "waiting"]_vars

\* Work that is already queued does not go to an account that has just refused
\* a request and is about to be blocked ("the semaphore block also prevents
\* already-queued work from immediately repeating the same 429").
QueuedWorkIsHeldBack ==
    [][\A q, r \in Requests :
         pc[q] = "waiting" /\ pc'[q] = "holding" => pc'[r] # "refused"]_vars

\* The gate, its counter, its timers and its deletion are a pool of slots with a
\* waiting line: nobody passes the queue's order, takes a slot beyond the limit
\* or during a cooldown, or is left waiting when a slot is returned.
Pool == INSTANCE SlotPool WITH
    Guests <- Requests, Limits <- {SlotLimit(max) : max \in Settings},
    holders <- Holders, line <- queue, limit <- maxConcurrency, resting <- blockedFor > 0

ImplementsSlotPool == Pool!Spec
-----------------------------------------------------------------------------
(* Liveness: requests end (the upstream calls have timeouts) and timers fire.*)
(* Nothing obliges a waiter to give up.                                      *)
Fairness ==
    /\ \A r \in Requests : WF_vars(Finish(r))
    /\ WF_vars(BlockTimerFires)
    /\ WF_vars(CleanupTimerFires)
    /\ WF_vars(Tick)

FairSpec == Spec /\ Fairness

\* With a limit that is no longer changed, a waiter gets its slot or gives up,
\* unless the account is blocked again and again.
WaitersAreServed ==
    \A max \in Settings :
        <>[](blockedFor = 0 /\ (present => maxConcurrency = SlotLimit(max))) =>
            \A r \in Requests : pc[r] = "waiting" ~> pc[r] # "waiting"
=============================================================================
