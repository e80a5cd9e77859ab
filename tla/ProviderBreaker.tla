--------------------------- MODULE ProviderBreaker ---------------------------
(***************************************************************************)
(* The provider-level circuit breaking of one provider: the registry of    *)
(* breakers, one per proxy bucket, the functions of                        *)
(* open-sse/services/accountFallback.js that read and feed it, and the     *)
(* requests of src/sse/handlers/chat.js that call them.                    *)
(*                                                                         *)
(* A request passes the provider gate, then tries accounts one after       *)
(* another.  Every code segment between two awaits is one action:          *)
(*                                                                         *)
(*   idle --Gate--> selecting --Attempt--> attempting --Respond--> idle    *)
(*                      ^                      |        fault, refused     *)
(*                      +----- RecordFailure --+--------------/            *)
(*                                                                         *)
(* A fault is an error that counts against the provider: a 5xx or timeout  *)
(* status, or no status at all.  A refusal is any other error that falls   *)
(* back to the next account (429, 401...).  A request in one of these two  *)
(* labels knows its answer and awaits markAccountUnavailable before the    *)
(* breaker hears of it.  A success is reported by the onRequestSuccess     *)
(* callback, which runs on its own (succeeding) while the request goes on: *)
(* handleStreamingResponse starts it before it looks at the content type,  *)
(* so an error page sent with status 200 is a success and then a fault.    *)
(*                                                                         *)
(* Which account getProviderCredentials picks is left open: any one that   *)
(* is not excluded, or none when the rest are locked.                      *)
(***************************************************************************)
EXTENDS CircuitBreaker, Sequences

CONSTANTS
    Requests,       \* concurrent calls of handleSingleModelChat
    Connections,    \* accounts of the provider
    ProxyBuckets,
    NoConnection,   \* a request between accounts
    BucketOf,       \* the proxy bucket of each connection
    DedupWindow     \* _dedupMs, in ticks

ASSUME BucketAssumption ==
    /\ BucketOf \in [Connections -> ProxyBuckets]
    /\ NoConnection \notin Connections
    /\ DedupWindow \in Nat

VARIABLES
    registry,       \* the buckets with a breaker, in the order they were added
    breaker,        \* what each registered bucket's breaker holds
    sinceRecorded,  \* _lastProviderFailure: age of each connection's entry
    pc,
    connection,     \* the account a request is using
    excluded,       \* excludeConnectionIds of each request
    succeeding,     \* onRequestSuccess callbacks under way
    admitted        \* history: requests let into a bucket while it is HALF_OPEN

vars == <<registry, breaker, sinceRecorded, pc, connection, excluded, succeeding,
          admitted>>
requestVars == <<pc, connection, excluded, succeeding>>

Labels == {"idle", "rejected", "selecting", "attempting", "fault", "refused"}

TypeOK ==
    /\ registry \in Seq(ProxyBuckets)
    /\ breaker \in [ProxyBuckets -> Breaker]
    /\ sinceRecorded \in [Connections -> 0 .. DedupWindow]
    /\ pc \in [Requests -> Labels]
    /\ connection \in [Requests -> Connections \cup {NoConnection}]
    /\ excluded \in [Requests -> SUBSET Connections]
    /\ succeeding \subseteq Requests \X Connections
    /\ admitted \in [ProxyBuckets -> Nat]

Init ==
    /\ registry = <<>>
    /\ breaker = [b \in ProxyBuckets |-> NewBreaker]
    /\ sinceRecorded = [c \in Connections |-> DedupWindow]
    /\ pc = [r \in Requests |-> "idle"]
    /\ connection = [r \in Requests |-> NoConnection]
    /\ excluded = [r \in Requests |-> {}]
    /\ succeeding = {}
    /\ admitted = [b \in ProxyBuckets |-> 0]
-----------------------------------------------------------------------------
Registered(b) == \E i \in DOMAIN registry : registry[i] = b

\* getCircuitBreaker without options: a bucket nobody registered has no
\* breaker, and isProviderInCooldown lets it through.
InCooldown(b) == Registered(b) /\ ~CanExecute(breaker[b])

\* The breakers after bucket b's one becomes br; the history variable counts
\* `entering` more requests if b is then HALF_OPEN and forgets them otherwise.
SetBreaker(b, br, entering) ==
    /\ breaker' = [breaker EXCEPT ![b] = br]
    /\ admitted' = [admitted EXCEPT ![b] =
                      IF br.state = "HALF_OPEN" THEN @ + entering ELSE 0]

Goto(r, label) == pc' = [pc EXCEPT ![r] = label]

\* handleSingleModelChat returns: its local variables are gone.
Return(r) ==
    /\ Goto(r, "idle")
    /\ connection' = [connection EXCEPT ![r] = NoConnection]
    /\ excluded' = [excluded EXCEPT ![r] = {}]

\* Mutant: the account is forgotten before it is excluded.
TryNextAccountForgetting(r) ==
    /\ Goto(r, "selecting")
    /\ connection' = [connection EXCEPT ![r] = NoConnection]
    /\ excluded' = [excluded EXCEPT ![r] = @ \cup {connection'[r]}]

\* The loop goes round without the account it has just used.
TryNextAccount(r) ==
    /\ Goto(r, "selecting")
    /\ connection' = [connection EXCEPT ![r] = NoConnection]
    /\ excluded' = [excluded EXCEPT ![r] = @ \cup {connection[r]}]

\* isProviderFullyBlocked stops at the first registered breaker that answers
\* yes, and that answer has canExecute's side effect on it.
FirstExecutable(i) ==
    /\ CanExecute(breaker[registry[i]])
    /\ \A j \in 1 .. i - 1 : ~CanExecute(breaker[registry[j]])

ProviderFullyBlocked ==
    /\ registry # <<>>
    /\ \A i \in DOMAIN registry : ~CanExecute(breaker[registry[i]])

\* The pipeline gate before any credential lookup.  (A request slot of the
\* model is used again once the callbacks of its last request are over.)
Gate(r) ==
    /\ pc[r] = "idle"
    /\ \A c \in Connections : <<r, c>> \notin succeeding
    /\ \/ /\ ProviderFullyBlocked
          /\ Goto(r, "rejected")
          /\ UNCHANGED <<breaker, admitted>>
       \/ /\ registry = <<>>
          /\ Goto(r, "selecting")
          /\ UNCHANGED <<breaker, admitted>>
       \/ \E i \in DOMAIN registry :
            /\ FirstExecutable(i)
            /\ SetBreaker(registry[i], AfterCanExecute(breaker[registry[i]]), 0)
            /\ Goto(r, "selecting")
    /\ UNCHANGED <<registry, sinceRecorded, connection, excluded, succeeding>>

\* The client of a rejected request sends it again.
Retry(r) ==
    /\ pc[r] = "rejected"
    /\ Goto(r, "idle")
    /\ UNCHANGED <<registry, breaker, sinceRecorded, connection, excluded, succeeding, admitted>>

\* getProviderCredentials has returned account c; its bucket is checked in the
\* same segment, and the request goes upstream or excludes the account.
Attempt(r, c) ==
    LET b == BucketOf[c] IN
    /\ pc[r] = "selecting"
    /\ c \notin excluded[r]
    /\ IF InCooldown(b)
       THEN /\ excluded' = [excluded EXCEPT ![r] = @ \cup {c}]
            /\ UNCHANGED <<breaker, admitted, pc, connection>>
       ELSE /\ Goto(r, "attempting")
            /\ connection' = [connection EXCEPT ![r] = c]
            /\ IF Registered(b)
               THEN SetBreaker(b, AfterCanExecute(breaker[b]), 1)
               ELSE UNCHANGED <<breaker, admitted>>
            /\ UNCHANGED excluded
    /\ UNCHANGED <<registry, sinceRecorded, succeeding>>

\* No account is left, or those left are locked for the model.
NoAccount(r) ==
    /\ pc[r] = "selecting"
    /\ Return(r)
    /\ UNCHANGED <<registry, breaker, sinceRecorded, succeeding, admitted>>

\* The account's semaphore queue was full or timed out: the next account is
\* tried, and the breaker never hears of this attempt.
NoCapacity(r) ==
    /\ pc[r] = "attempting"
    /\ TryNextAccount(r)
    /\ UNCHANGED <<registry, breaker, sinceRecorded, succeeding, admitted>>

\* handleChatCore settles.
Respond(r) ==
    /\ pc[r] = "attempting"
    /\ \/ /\ Return(r)
          /\ succeeding' = succeeding \cup {<<r, connection[r]>>}
       \/ /\ Goto(r, "fault")
          /\ succeeding' \in {succeeding, succeeding \cup {<<r, connection[r]>>}}
          /\ UNCHANGED <<connection, excluded>>
       \/ /\ Goto(r, "refused")
          /\ UNCHANGED <<connection, excluded, succeeding>>
    /\ UNCHANGED <<registry, breaker, sinceRecorded, admitted>>

\* The client went away, or the request itself was at fault (422): the answer
\* is returned without touching account or breaker state.
Unrecorded(r) ==
    /\ pc[r] = "attempting"
    /\ Return(r)
    /\ UNCHANGED <<registry, breaker, sinceRecorded, succeeding, admitted>>

\* recordProviderSuccess, at the end of an onRequestSuccess callback.
RecordSuccess(r, c) ==
    LET b == BucketOf[c] IN
    /\ <<r, c>> \in succeeding
    /\ succeeding' = succeeding \ {<<r, c>>}
    /\ IF Registered(b) THEN SetBreaker(b, OnSuccess(breaker[b]), 0)
                        ELSE UNCHANGED <<breaker, admitted>>
    /\ UNCHANGED <<registry, sinceRecorded, pc, connection, excluded>>

\* Does recordProviderFailure count answer as a failure of the provider?
Eligible(answer) == answer = "fault"

\* The tail of recordProviderFailure: it asks canExecute, with its side
\* effect, before it counts the failure, and once more to log.
CountFailure(b) ==
    /\ registry' = IF Registered(b) THEN registry ELSE Append(registry, b)
    /\ IF CanExecute(breaker[b])
       THEN SetBreaker(b, AfterCanExecute(OnFailure(AfterCanExecute(breaker[b]))), 0)
       ELSE UNCHANGED <<breaker, admitted>>

\* recordProviderFailure: the dedup entry is written before the status is
\* looked at, so a 429 hides a fault of the same account for a while.
RecordFailure(r) ==
    LET c == connection[r] IN
    /\ pc[r] \in {"fault", "refused"}
    /\ IF sinceRecorded[c] < DedupWindow
       THEN UNCHANGED <<registry, breaker, sinceRecorded, admitted>>
       ELSE /\ sinceRecorded' = [sinceRecorded EXCEPT ![c] = 0]
            /\ IF Eligible(pc[r]) THEN CountFailure(BucketOf[c])
                                  ELSE UNCHANGED <<registry, breaker, admitted>>
    /\ TryNextAccount(r)
    /\ UNCHANGED succeeding

\* An auto-combo's candidateFilter asks the breaker of a candidate's bucket
\* and sends nothing.
FilterCandidate(b) ==
    /\ Registered(b)
    /\ CanExecute(breaker[b])
    /\ SetBreaker(b, AfterCanExecute(breaker[b]), 0)
    /\ UNCHANGED <<registry, sinceRecorded, requestVars>>

Tick ==
    /\ breaker' = [b \in ProxyBuckets |-> Elapse(breaker[b])]
    /\ sinceRecorded' = [c \in Connections |-> Saturated(sinceRecorded[c], DedupWindow)]
    /\ UNCHANGED <<registry, requestVars, admitted>>

Next ==
    \/ \E r \in Requests :
         \/ Gate(r)
         \/ Retry(r)
         \/ \E c \in Connections : Attempt(r, c) \/ RecordSuccess(r, c)
         \/ NoAccount(r)
         \/ NoCapacity(r)
         \/ Respond(r)
         \/ Unrecorded(r)
         \/ RecordFailure(r)
    \/ \E b \in ProxyBuckets : FilterCandidate(b)
    \/ Tick

Spec == Init /\ [][Next]_vars
-----------------------------------------------------------------------------
(* Properties *)

\* While a bucket is HALF_OPEN at most one request more than HalfOpenRequests
\* is let through to it, whichever of gate, bucket check, auto-combo filter and
\* late answers drove it there ("limited probe requests to test recovery").
ProbeLimit ==
    \A b \in ProxyBuckets :
        breaker[b].state = "HALF_OPEN" =>
            admitted[b] + breaker[b].halfOpenRemaining <= HalfOpenRequests + 1

\* A failure is counted against a bucket, and its breaker opens, only on the report
\* of a fault by a request that used that bucket: no 429, no failure behind another
\* proxy, no late success and no passing of time.
OnlyOwnFaultsCount ==
    [][\A b \in ProxyBuckets :
         \/ breaker'[b].failures[0] > breaker[b].failures[0]
         \/ breaker[b].state # "OPEN" /\ breaker'[b].state = "OPEN"
         => \E r \in Requests : /\ pc[r] = "fault" /\ pc'[r] = "selecting"
                                /\ BucketOf[connection[r]] = b]_vars

\* A bucket that was OPEN is CLOSED again only through HALF_OPEN, and then by a
\* success on that bucket (any one that is reported meanwhile, also of a request sent
\* before): an answer that arrives late never closes an OPEN breaker.
RecoveryIsProbed ==
    [][\A b \in ProxyBuckets :
         breaker[b].state \in {"OPEN", "HALF_OPEN"} /\ breaker'[b].state \in {"CLOSED", "DEGRADED"} =>
            /\ breaker[b].state = "HALF_OPEN"
            /\ \E r \in Requests, c \in Connections :
                  /\ BucketOf[c] = b
                  /\ <<r, c>> \in succeeding \ succeeding']_vars

\* If one proxy bucket can execute, the gate does not turn the request away:
\* "one dead proxy doesn't block accounts on a different proxy".
GateSparesUsableBuckets ==
    [][\A r \in Requests :
         pc[r] = "idle" /\ pc'[r] = "rejected" =>
            \A c \in Connections : InCooldown(BucketOf[c])]_vars
-----------------------------------------------------------------------------
(* Liveness.  The event loop runs what is due; clients keep sending, and     *)
(* account rotation gets round to every account (round-robin strategy).      *)
Fairness ==
    /\ WF_vars(Tick)
    /\ \A r \in Requests :
         /\ WF_vars(Gate(r))
         /\ WF_vars(Retry(r))
         /\ WF_vars(NoAccount(r))
         /\ WF_vars(Respond(r))
         /\ WF_vars(RecordFailure(r))
         /\ WF_vars(\E c \in Connections : RecordSuccess(r, c))
    /\ \A c \in Connections : SF_vars(\E r \in Requests : Attempt(r, c))

FairSpec == Spec /\ Fairness

\* Every open breaker is tried again: no bucket stays OPEN for ever.
OpenIsProbed ==
    \A b \in ProxyBuckets : breaker[b].state = "OPEN" ~> breaker[b].state # "OPEN"

\* "HALF_OPEN: limited probe requests to test recovery": the probe ends in
\* CLOSED or OPEN.
ProbeIsDecided ==
    \A b \in ProxyBuckets : breaker[b].state = "HALF_OPEN" ~> breaker[b].state # "HALF_OPEN"
=============================================================================
