--------------------------- MODULE AccountSelection ---------------------------
(***************************************************************************)
(* getProviderCredentials of src/sse/services/auth.js: the requests of one *)
(* provider choose an account one after the other, behind a chain of       *)
(* promises.                                                               *)
(*                                                                         *)
(*   idle --Ask--> queued --Read--> deciding --Decide--> resolving         *)
(*     ^               \--(no account)--> idle               |             *)
(*     +------------------------ Return ---------------------+             *)
(*                                                                         *)
(* An account is its priority.  Of lastUsedAt only the order is kept (0:   *)
(* never used); the clock has milliseconds, so two writes may be equal.    *)
(* Which accounts are free - active, not tried by the request before, not  *)
(* locked for the model, not out of quota - is any set: AccountHealth and  *)
(* ProviderBreaker say how it comes about.  The fill-first strategy and a  *)
(* pinned account choose without a write.                                  *)
(***************************************************************************)
EXTENDS Integers, Sequences, FiniteSets

CONSTANTS
    NumAccounts,
    Selectors,      \* requests of the provider
    StickyLimit,    \* stickyRoundRobinLimit
    Watched         \* the account whose turn is watched

Accounts == 1 .. NumAccounts

ASSUME SelectionAssumption ==
    /\ NumAccounts \in Nat \ {0}
    /\ StickyLimit \in Nat \ {0}
    /\ Watched \in Accounts

VARIABLES
    lastUsedAt,
    useCount,       \* consecutiveUseCount
    chain,          \* unsettled promises of the provider's mutex, oldest first
    selPc,
    seen,           \* the records each request read
    overtaken       \* history: choices in a row against the watched account, which was free

selectionVars == <<lastUsedAt, useCount, chain, selPc, seen, overtaken>>

NothingSeen == [free |-> {}, used |-> [c \in Accounts |-> 0], count |-> [c \in Accounts |-> 0]]

SelectionTypeOK ==
    /\ lastUsedAt \in [Accounts -> 0 .. NumAccounts]
    /\ useCount \in [Accounts -> 0 .. StickyLimit]
    /\ chain \in Seq(Selectors)
    /\ selPc \in [Selectors -> {"idle", "queued", "deciding", "resolving"}]
    /\ \A r \in Selectors :
         /\ seen[r].free \subseteq Accounts
         /\ seen[r].used \in [Accounts -> 0 .. NumAccounts]
         /\ seen[r].count \in [Accounts -> 0 .. StickyLimit]
    /\ overtaken \in Nat

SelectionInit ==
    /\ lastUsedAt = [c \in Accounts |-> 0]
    /\ useCount = [c \in Accounts |-> 0]
    /\ chain = <<>>
    /\ selPc = [r \in Selectors |-> "idle"]
    /\ seen = [r \in Selectors |-> NothingSeen]
    /\ overtaken = 0
-----------------------------------------------------------------------------
\* The request takes its place behind whoever asked last.
Ask(r) ==
    /\ selPc[r] = "idle"
    /\ selPc' = [selPc EXCEPT ![r] = "queued"]
    /\ chain' = Append(chain, r)
    /\ UNCHANGED <<lastUsedAt, useCount, seen, overtaken>>

\* Mutant: nobody waits for the promise of the request before.
ReadAtOnce(r, free) ==
    /\ selPc[r] = "queued"
    /\ free # {}
    /\ seen' = [seen EXCEPT ![r] = [free |-> free, used |-> lastUsedAt, count |-> useCount]]
    /\ selPc' = [selPc EXCEPT ![r] = "deciding"]
    /\ UNCHANGED <<lastUsedAt, useCount, chain, overtaken>>

\* Mutant: the early return for want of accounts leaves the promise pending.
ReadKeepingMutex(r, free) ==
    /\ selPc[r] = "queued"
    /\ r = Head(chain)
    /\ \/ /\ free = {}
          /\ selPc' = [selPc EXCEPT ![r] = "idle"]
          /\ UNCHANGED seen
       \/ /\ free # {}
          /\ seen' = [seen EXCEPT ![r] = [free |-> free, used |-> lastUsedAt, count |-> useCount]]
          /\ selPc' = [selPc EXCEPT ![r] = "deciding"]
    /\ UNCHANGED <<lastUsedAt, useCount, chain, overtaken>>

\* The promise of the request before is settled: read the records (the cache
\* of the repository is emptied by every write) and drop those that cannot
\* serve.  Without any, the answer is null or allRateLimited and the request
\* fails.
Read(r, free) ==
    /\ selPc[r] = "queued"
    /\ r = Head(chain)
    /\ \/ /\ free = {}
          /\ selPc' = [selPc EXCEPT ![r] = "idle"]
          /\ chain' = Tail(chain)
          /\ UNCHANGED seen
       \/ /\ free # {}
          /\ seen' = [seen EXCEPT ![r] = [free |-> free, used |-> lastUsedAt, count |-> useCount]]
          /\ selPc' = [selPc EXCEPT ![r] = "deciding"]
          /\ UNCHANGED chain
    /\ UNCHANGED <<lastUsedAt, useCount, overtaken>>
-----------------------------------------------------------------------------
\* byRecency[0]: the latest used; of those used together, or of accounts never
\* used, the first by priority.
MostRecent(s) ==
    CHOOSE c \in s.free : \A d \in s.free :
        s.used[d] < s.used[c] \/ (s.used[d] = s.used[c] /\ c <= d)

\* sortedByOldest[0]: never used first, then the least recently used.
LeastRecent(s) ==
    CHOOSE c \in s.free : \A d \in s.free :
        s.used[c] < s.used[d] \/ (s.used[d] = s.used[c] /\ c <= d)

\* Mutant: one use too many.
StaysOnceMore(s) ==
    LET c == MostRecent(s) IN s.used[c] > 0 /\ s.count[c] <= StickyLimit

\* Does round-robin stay with the current account?
Stays(s) ==
    LET c == MostRecent(s) IN s.used[c] > 0 /\ s.count[c] < StickyLimit

RoundRobinChoice(s) == IF Stays(s) THEN MostRecent(s) ELSE LeastRecent(s)

\* The order of the time stamps used, once c has been stamped with the present.
Stamped(used, c, sameMillisecond) ==
    LET newest == CHOOSE t \in 0 .. NumAccounts :
                      /\ \E d \in Accounts : used[d] = t
                      /\ \A d \in Accounts : used[d] <= t
        stamp == IF sameMillisecond THEN newest ELSE newest + 1
        times == [used EXCEPT ![c] = stamp]
    IN  [d \in Accounts |->
            Cardinality({times[e] : e \in {e \in Accounts : 0 < times[e] /\ times[e] <= times[d]}})]

\* The round-robin branch: the count comes from the record that was read.
Rotate(r, sameMillisecond) ==
    LET s == seen[r]
        c == RoundRobinChoice(s)
    IN  /\ sameMillisecond => \E d \in Accounts : lastUsedAt[d] > 0
        /\ lastUsedAt' = Stamped(lastUsedAt, c, sameMillisecond)
        /\ useCount' = [useCount EXCEPT ![c] = IF Stays(s) THEN s.count[c] + 1 ELSE 1]
        /\ overtaken' = IF c = Watched \/ Watched \notin s.free THEN 0
                        ELSE IF sameMillisecond THEN overtaken
                        ELSE overtaken + 1

\* The pinned account, or the first by priority.
Pick(r, c) ==
    /\ c \in seen[r].free
    /\ UNCHANGED <<lastUsedAt, useCount, overtaken>>

Decide(r) ==
    /\ selPc[r] = "deciding"
    /\ \/ \E sameMillisecond \in BOOLEAN : Rotate(r, sameMillisecond)
       \/ \E c \in Accounts : Pick(r, c)
    /\ selPc' = [selPc EXCEPT ![r] = "resolving"]
    /\ seen' = [seen EXCEPT ![r] = NothingSeen]
    /\ UNCHANGED chain

\* The proxy has been resolved; the finally clause settles the promise.
Return(r) ==
    /\ selPc[r] = "resolving"
    /\ chain' = Tail(chain)
    /\ selPc' = [selPc EXCEPT ![r] = "idle"]
    /\ UNCHANGED <<lastUsedAt, useCount, seen, overtaken>>

\* What getProviderCredentials goes on with by itself.
Proceed(r) ==
    \/ \E free \in SUBSET Accounts : Read(r, free)
    \/ Decide(r)
    \/ Return(r)

SelectionNext == \E r \in Selectors : Ask(r) \/ Proceed(r)
-----------------------------------------------------------------------------
(* Properties *)

\* No two requests are between their read of the records and their write: the
\* rotation loses no turn.  Whoever is, is the first of the chain, and every
\* request that waits is in the chain once.
SelectionIsExclusive ==
    /\ \A r \in Selectors : selPc[r] \in {"deciding", "resolving"} => r = Head(chain)
    /\ \A i, j \in DOMAIN chain : chain[i] = chain[j] => i = j
    /\ \A r \in Selectors :
         (\E i \in DOMAIN chain : chain[i] = r) <=> selPc[r] \in {"queued", "deciding", "resolving"}

\* As long as an account is free, round-robin passes it over for StickyLimit
\* uses of each other one at most, whatever requests, exclusions and locks of
\* the others come together.  Choices within the millisecond of the one before
\* are not counted: equal stamps are ordered by priority.
RotationIsFair == overtaken <= (NumAccounts - 1) * StickyLimit

\* Every request that asks for an account gets an answer.
EveryAskIsAnswered == \A r \in Selectors : selPc[r] = "queued" ~> selPc[r] # "queued"

\* The reads and writes behind the mutex come to an end; nothing obliges a
\* request to ask or to end.
SelectionFairness == \A r \in Selectors : WF_selectionVars(Proceed(r))

SelectionSpec == SelectionInit /\ [][SelectionNext]_selectionVars /\ SelectionFairness
=============================================================================
