# RcRouter in TLA+

RcRouter is a local gateway in front of many AI providers. A client sends one
request; the router picks an account of a provider, sends the request upstream,
and on an error goes on with the next account, the next proxy, or the next model
of a combo. What is easy to get wrong is not the translation of protocols, which
is large but sequential, but the bookkeeping that decides *which account may be
used when*: circuit breakers, concurrency limits, cooldown locks. All of it lives
in one Node process, is shared by every request in flight, and is read before an
`await` and written after it. These modules model that bookkeeping, TLC checks
it on small instances, and TLAPS proves its central properties for every instance.

## Inventory

| Component | State | Operations | Hard behaviour |
|---|---|---|---|
| Circuit breaker (`open-sse/utils/circuitBreaker.js`) | state, failure timestamps, successes, probe tokens, time of opening, failed probe cycles | `canExecute`, `_onSuccess`, `_onFailure` | `canExecute` is a query with side effects |
| Provider breakers (`open-sse/services/accountFallback.js`) | registry of one breaker per proxy bucket; dedup map per account | gate, bucket check, record success, record failure | late answers, callbacks that run on their own, several callers of one query |
| Account semaphore (`open-sse/services/accountSemaphore.js`) | per key: running, limit, FIFO queue, block, two timers | acquire, release, queue timeout, abort, block, clean-up | timers against releases, limit changed while in use, deletion of the gate |
| Account health (`src/sse/services/auth.js`, `src/lib/db/repos/connectionsRepo.js`) | per account: model locks, testStatus, backoffLevel | select, mark unavailable, clear error; clear cooldown and test from the dashboard | patches computed from stale copies of the record |
| Account selection (`auth.js`) | chain of promises per provider; lastUsedAt, consecutiveUseCount | fill-first, round-robin with a sticky limit, pinning | reads and writes across awaits, behind the chain |
| Request loop (`src/sse/handlers/chat.js`) | excluded accounts, last error | gate, select, refresh, acquire, upstream, release, mark, record, next | order of the effects of one failed attempt |
| Antigravity quota (`src/sse/services/antigravityQuota.js`) | cached readings, strikes, blocks, request in flight | judge a refusal, refresh, clear, expire | cached objects shared and changed by their readers |
| Token refresh (`open-sse/services/tokenRefresh/*`, `oauthCredentialManager.js`, `src/sse/services/tokenRefresh.js`, `backgroundTokenRefresh.js`) | refresh locks, dedup cache, stored tokens | refresh on request, on 401, in the background | single-use refresh tokens used twice |
| Combos (`open-sse/services/combo.js`) | affinity of sessions, active counts, rotation counters | fallback, context relay, round-robin, P2C, fusion | losers of a timeout keep running |
| Streaming (`open-sse/utils/stream.js`, `streamHandler.js`) | stall timer, terminal events seen, tail | transform, flush, error, disconnect | each outcome once, whichever come |
| Stream translation (`open-sse/translator/response/*`) | open blocks and items, tool calls | chunk to events, finish, flush | pieces of reasoning, text and tools interleave |
| Database (`src/lib/db/*`) | SQLite tables, marker of the import, 2 s connection cache, save timer of sql.js | open, migrate, import, merge transactions, backup | the process ends between two steps |
| Request details (`requestDetailsRepo.js`) | write buffer, timer, flush flag | save, flush, trim | saves during a flush; a batch that fails; two saves of one record |
| Tunnel (`src/lib/tunnel/cloudflare/*`, `initializeApp.js`) | process, pid file, state file, setting, cancel tokens, flags | enable, disable, watchdog, restart | exit events that arrive late, calls that overlap |
| MCP bridge (`src/lib/mcp/stdioSseBridge.js`) | child and sessions per plugin | register, unregister, exit, shutdown | exit events that arrive late |
| Usage counters, sessions, proxy pools, MITM proxy | counters, bounded caches | start/end, look up, spawn | statistics, or the machine's network |
| Request translation, RTK, model catalogue, access control, executors, dashboard, CLI, cloud worker, docs | none that requests share | pure functions, I/O | none a model checker reaches |

How they interact: a request of `handleSingleModelChat` passes the **gate** (all
breakers of the provider), asks **selection** for an account (locks of its health
record, under the provider's mutex), checks the **breaker of the account's proxy
bucket**, waits for a **semaphore** slot, and calls upstream. When the call
settles the slot is released *first*; on an error the account is then marked in
the database (an await), its gate blocked, the breaker told, the account
excluded, and the loop goes round. On success a callback clears the account's
error state and tells the breaker, on its own, while the response goes out.

What makes each component correct:

- breaker: counts and opens for faults of its own bucket only, lets a bounded
  number of probes through while it recovers, closes by a success while it is
  HALF_OPEN only, and never blocks a bucket for ever;
- semaphore: no slot leaked or returned twice, limit and cooldown respected by
  every grant, nobody waits without a wake-up, those who wait served in order;
- health: an account shown as active is usable, a lock lasts until it expires or
  is lifted for its own model, an account recovers once it works again;
- selection: requests choose one after the other, every one gets an answer, and no
  account that is free is passed over;
- quota: a model is skipped for its strikes only while the block lasts, and blocked
  only after that many refusals in a row;
- refresh: one refresh of a connection at a time, and no rotated token is lost;
- combo: every combo answers, counts what is running exactly, and keeps its session
  where it was last answered; a panel loses no answer that came in time;
- stream: the client sees a well-formed sequence of events, and a stream ends once;
- request details: every accepted save is written, the second of a record in the
  place of the first, or its loss has a reason;
- database: the import of old data never runs over new data;
- children: a process that lives is on record, a tunnel that is down is restarted.

## Modules

| Module | What it is |
|---|---|
| `CircuitBreaker` | the breaker class as operators on a record (no state machine) |
| `ProviderBreaker` | registry, gate, bucket check, dedup and reports of one provider, and the requests that drive them |
| `AccountSemaphore` | one gate and the requests that compete for its slots |
| `AccountHealth` | the health record of one account, its requests and the dashboard |
| `SlotPool` | what a semaphore promises: holders, a waiting line, a limit, a rest |
| `SingleFlight` | what callers who share one asynchronous call are promised |
| `RequestLedger` | what the log of request details promises of its records |
| `AccountSelection` | the choice among the accounts of one provider |
| `ComboFallback` | the requests of one session on one combo, and their attempts |
| `FusionPanel` | one fusion: calls, quorum, grace timer, reading loop |
| `ClientStream` | one stream: translator or pass-through, flush, ends, and the client |
| `TokenRefresh` | one account with rotating refresh tokens |
| `AntigravityQuota` | quota and strikes of one Antigravity account |
| `RequestLog` | the write buffer of request details |
| `DatabaseBoot` | opening, migration, import and saves across restarts |
| `TunnelService` | the quick tunnel with its processes, watchdog and routes |
| `McpBridge` | the child of one plugin and its sessions |
| `RequestServices` | selection, combo, fusion or stream: one behaviour follows one of them |
| `BackgroundServices` | refresh, quota, log, boot, tunnel or bridge, in the same way |
| `MC...` | instances for TLC: bucket assignments and symmetry |
| `...Proofs` | theorems about the module in the name; `RequestProofs`: `AccountSelection`, `ClientStream` and `RequestServices`; `ComboProofs`: `ComboFallback` and `FusionPanel`; `CredentialProofs`: `TokenRefresh` and `AntigravityQuota`; `BackgroundProofs`: `RequestLog`, `DatabaseBoot`, `TunnelService`, `McpBridge` and `BackgroundServices` |
| `NumberTheorems` | powers of two are positive; least and greatest number of a set; cardinalities |

A code segment between two `await`s is one action: JavaScript runs it without
interruption. Where a function awaits, the request changes its label `pc` and the
rest of the function is another action. `PROJECT.json` maps every definition to
the lines it stands for.

**CircuitBreaker.** `CanExecute` is the answer of `canExecute`, `AfterCanExecute`
its side effect; `OnSuccess`, `OnFailure` and `Transition` are the methods of
those names. Times are kept as ages that saturate where the code stops telling
values apart, so no clock grows. Thresholds, window, timeouts, backoff and number
of tokens are constants.

**ProviderBreaker.** `Gate`, `Attempt`, `NoAccount`, `NoCapacity`, `Respond`,
`Unrecorded` and `RecordFailure` are the segments of `handleSingleModelChat`;
`RecordSuccess` is the callback; `FilterCandidate` the auto-combo's filter, which
also asks `canExecute`. The registry is a sequence because the gate asks the
breakers in order of registration and stops at the first that answers yes. The
account that selection returns is left open (any that is not excluded, or none).
An attempt answers with success, fault (a status that counts), refusal (any other
error that falls back), both success and fault (an error page sent with status
200 to a streaming request), or nothing that is recorded. `admitted` is a history
variable: requests let into a bucket since it became HALF_OPEN.

**AccountSemaphore.** `Acquire` is `acquire` with `ensureGate`; `Finish` is the
release in the `finally` clause with `drainQueue`; `Cooldown` is what follows
`markAccountUnavailable`, with `MarkBlocked`; the two timers are actions that are
enabled from the moment they are due. `setting` is the limit in the credentials
a request works with, which change at run time.

**AccountHealth.** `Select`, `ReadLevel`/`Mark` and `ClearError` are
`getProviderCredentials`, `markAccountUnavailable` (two segments) and
`clearAccountError`; `OpenCooldown`/`Unlock` and the tests are the dashboard's.
`snapshot` is `_connection`, the copy of the record made at selection. A lock is
the time it has left, 0 when it has expired but is still there, `Null` when it
has been cleared and `Absent` when it was never there: the code tells all four
apart. `Penalties` is everything `markAccountUnavailable` may decide; which rule
of `errorConfig.js` an error text matches is left open. `clearAccountError` is
one action although it awaits the database between computing its patch and
writing it: what it computes from is stale anyway.

**SlotPool.** The abstract specification of the semaphore, without counter, timers,
identity of the gate or reasons for leaving. `AccountSemaphore!Pool` maps the
holders to the requests that have a slot, the line to the queue, and a rest to a
block that is in force; TLC checks `ImplementsSlotPool`, that every step of the gate
is a step of the pool or leaves it alone. `Return` is what a mapping cannot cheat
about: whoever leaves must let in as many from the front as there is room for. The
pool orders the line only: as in the code, a newcomer may take a slot that is free
while others wait (after a raised limit, or between the end of a block and its timer).

**SingleFlight.** The abstract specification of an asynchronous call that is shared:
who comes while it is under way boards it, everyone aboard goes on when it lands and
nobody else does, and no call lands before those of the one before have gone on.
`TokenRefresh!Flight` maps it to the refresh lock of a connection, `AntigravityQuota!QuotaFlight`
to the quota request of an account; dedup cache, tokens, readings and outcomes are left
out. That the token lock also lets callers go on with a remembered result (`MakeDo`) is
allowed only while nothing is in flight.

**RequestLedger.** The abstract specification of the log: saves are numbers in the
order of their arrival, each pending, in the table, or gone for good; two of them may
belong to one record. `RequestLog!Ledger` leaves out buffer, batch, timer and flag, so
that every save outside the table which has not been lost, replaced or trimmed counts as
pending, and `Commit` says which may be written and which leave the table: the oldest
first, one row for each record with its last save, and no row dropped while there is room.

**AccountSelection.** `Ask` puts the request's promise at the end of the provider's
chain; `Read`, `Decide` and `Return` are the segments of `getProviderCredentials`
after it: reading the records, the choice with its writes, and the `finally` clause
that resolves the promise. `RoundRobinChoice` stays with the most recently used
account until its `consecutiveUseCount` reaches the sticky limit, then takes the one
used least recently; `Stamped` is the write. Which accounts are free is any set at
every read. Time stamps are ranks; two writes may have the same millisecond.

**AntigravityQuota.** `Refused` is `handleAntigravityQuotaError` with
`refreshAntigravityQuota` up to the answer, `QuotaAnswer` the answer or its failure,
`Judge` what each waiter does next. The reading is the object in the cache, which
every waiter reads and may change, as in the code. `Skipped` is selection's use of
it. `doubts` is a history variable: for each age up to the window, how many refusals no
reading explained are at most that old.

**TokenRefresh.** `Take` is a request or the background tick that reads the record,
`Renew` the refresh under lock and dedup, `Answer` the authorization server's answer
to all that wait, `Store` the write of what came back. Tokens are generations, of
which the server accepts the newest: that is how a rotating refresh token behaves,
and is external to the code. The result given to a holder may belong to the token
of another: the lock is keyed by connection, the dedup cache by token. A holder may
renew at any time, also the token it has just been given: a 401 or a 403 from upstream
is reason enough (`chatCore.js:523`). `hasty` is a history variable: a token was
renewed while the refresh that brought it was still remembered.

**ComboFallback.** `Try` to `NextTarget` are the segments of `handleComboChat`'s loop;
`TargetAnswers`, `NextAccount` and `Fail` belong to the attempt, which is
`handleSingleModelChat` with its loop over the accounts, and which goes on after
`Timeout` with its signal aborted. `anchor` is the session's entry in the affinity
map. `Order` leaves the order of the targets open, so that every strategy's order is
among them; what the anchor adds to it is modelled.

**FusionPanel.** `FanOut`, `SettleCall`, `GraceTimerFires` are `collectPanel`;
`ReadAnswer` is one turn of the loop that awaits a body, during which other calls
still settle into the array; `Conclude` is what the number of answers leads to.

**ClientStream.** The translators are functions from a state and a chunk to a state
and events (`ClaudeChunk`, `ResponsesChunk`), one operator per function of the code; a
pair `[t, c]` of translator and client goes through them. An event carries a set of
blocks: what the code does in a loop over the tool calls is one event for all of them,
since no two calls share a block and no property tells their order apart. The client
is a machine that follows the events and collects what they break. The actions are the
segments of the transform (`TransformChunk`, `PassEvent`, `TransformDone`,
`ProviderEnds` with `Flush`) and of the reader around it (`Complete`, `HandleError`,
`UpstreamBreaks`, `StallFires`, `ClientCloses`). Of the five routes three are translated
(`claude`, `responses`, and `codex`, a Responses stream whose events are framed anew) and
two passed through in lines (`raw`, a Responses stream for codex-cli and droid, and
`openai`). `ProviderEnds` is the flush with what is left of a line without newline: a
chunk or an event that is still translated, `[DONE]` or a piece of a line that is not,
or nothing. `finished` and `gotDone` say what came in whole lines.

**RequestLog, DatabaseBoot.** A flush takes the buffer (`NextBatch`), awaits, writes,
trims and looks at the buffer again. A save is its own number; `again` notes which two
have one id, as the save at a stream's start and the one at its end do, and `Upserted`
is the upsert: a row is the last save of its record that was written. A boot runs in one
piece up to its crash; what is in memory of sql.js reaches the file by `SaveTimer` or
`Stop`, in place. The write truncates the file first, so a crash or an error leaves it
empty or torn (`CutShort`): a torn file is opened by no driver, an empty one by all, as
a new database. The user may wipe the database; legacy files stay.

**TunnelService, McpBridge.** Each `await` of `enableTunnel` is a step of a call; the
user's call, the watchdog's call and `disableTunnel` overlap. The token of a cancelled
call is looked at after the URL has come and before each probe (`CheckHealth`), not after
one (`Verified`). The routes answer first and then read the settings to start or stop the
watchdog (`Configure`): by then another call may have changed the setting, and a tailscale
tunnel keeps the watchdog in any case. The end of the router by a signal kills the process
on record, and no other. A process is killed first and its exit event handled later
(`ExitEvent`, `ChildExitEvent`): that delay is where the difficulties of both modules come
from.

**RequestServices, BackgroundServices.** No action of one of these modules reads or
writes a variable of another, in the model as in the code. Interleaving them would
multiply states and show nothing more, so a behaviour chooses one module at the start
and leaves the others in their initial state: the run is the sum of the modules, and
a property of one of them is checked on every behaviour of that one.

## Runs

| Run | Instance | Question | Result |
|---|---|---|---|
| `ProviderBreaker` | 2 requests, 1 account, 1 bucket; thresholds 2 and 1, 1 token, window, timeout and dedup of 1 tick, multiplier up to 2 | probe limit, recovery from HALF_OPEN only, no bucket OPEN for ever | holds; 11 thousand states |
| `ProviderBreakerProbe` | the same | does every probe end in CLOSED or OPEN? | **violated** |
| `ProviderBreakerGate` | 1 request, 2 accounts on 2 buckets | does the gate spare buckets that can execute? | **violated** |
| `AccountSemaphore` | 3 requests, limit switching between none and 2, queue of 2, blocks of up to 2 ticks | slots, wake-ups, limit, cooldown, order, service; is it a `SlotPool`? | holds; 5.6 thousand states |
| `AccountSemaphoreStampede` | 2 requests, 1 slot | is queued work held back after a refusal? | **violated** |
| `AccountHealth` | 1 request with its callback, 2 models, locks of up to 2 ticks, 2 levels | is an active account unlocked, and does one recover? | holds; 17 thousand states |
| `AccountHealthStale` | 2 requests, 2 models | does a success leave other locks alone? | **violated** |
| `AccountHealthShadow` | the same | does an account-wide lock hold? | **violated** |
| `RequestServices` | 2 requests on 3 accounts, sticky limit 2; 2 requests on a combo of 2 targets with 2 accounts each; a panel of 4; streams of 2 tool calls and up to 6 blocks on 5 routes | see below | holds; 125 thousand states |
| `BackgroundServices` | 3 holders of a token and 2 rotations; 2 requests on 2 models, 2 strikes; 5 saves in batches of 2, 2 rows; 2 drivers; 1 tunnel process; 3 children and 2 sessions | see below | holds; 180 thousand states |
| `TunnelService` | 2 processes, the user's call, the watchdog's, the routes | see below | holds; 391 thousand states |
| `TokenRefreshStale` | 3 holders, 2 rotations | is no rotation lost? | **violated** |

What the two composed runs and that of the tunnel check, module by module:

| Property | Says |
|---|---|
| `SelectionIsExclusive` | no two requests are between their read of the records and their write; each that waits is in the chain once |
| `RotationIsFair` | round-robin passes a free account over for the sticky limit of uses of each other account at most |
| `EveryAskIsAnswered` | the chain of promises never stalls |
| `AnchorIsLatestAnswer` | an attempt that lost its race, or whose client has left, does not move the session |
| `ActiveIsExact` | the active count of a target is the number of requests that wait for it |
| `ComboAnswers` | a combo for which a target timeout is configured answers, even when all its targets hang (the default is none) |
| `AnswersReachTheJudge` | what was answered before the panel closed is used, nothing else is; a panel with an answer is not refused, and the judge is asked exactly if there are two |
| `PanelConcludes` | the panel closes, whatever its members do |
| `StreamIsWellFormed` | blocks and items open, receive and close in order, each once |
| `EndIsOrderly` | usage is never recorded twice, and has been when the terminal event or the end was reached; a stream read to its end leaves the pending counter once; a translated Responses client gets one `[DONE]`, and a failure exactly if no terminal event came in a whole line |
| `RefreshIsSingleFlight`, `QuotaIsSingleFlight` | refreshes of a connection, and quota requests of an account, are a `SingleFlight` |
| `OnlyHasteLosesRotations` | the database holds the token the server accepts or is about to, unless a token was renewed while its issue was remembered |
| `NoGhostBlock`, `BlocksAreEarned`, `RefusalsAreJudged` | strike blocks end with their cause, are set after enough refusals in a row, and no refusal waits for ever |
| `RecordsAreAccounted`, `BufferIsFlushed` | a save is in the buffer, the batch or the table, or it was replaced by the second of its record, trimmed, or its loss is known; no record has two rows; no save waits for another one |
| `LogIsLedger` | the log is a `RequestLedger`: written in order, one row for each record, trimmed from the oldest, never while there is room |
| `MarkerFollowsImport`, `ImportSparesUsedData` | a native driver's marker stands for imported data until the user or a cut-off save of sql.js takes it away; nothing is imported twice or over used data |
| `LiveProcessStaysOnRecord`, `DeadTunnelIsRestarted` | late exit events do not hide a live process; no failed attempt keeps the tunnel down |
| `OnlyLateExitsOrphan` | a child no session can reach has been told to end, but for the late exit described below |

Three safety properties of the semaphore, `GrantsKeepTheLimit`, `BlockedAccountRests`
and `WaitersAreServedInOrder`, are not listed in its run because `ImplementsSlotPool`
implies them: `SlotPool` counts the holders against the limit at every entry, lets nobody
in while the account rests, and takes from the front of the line only. `OneRefreshAtATime`
says of the waiters what `RefreshIsSingleFlight` says. `OnlyOwnFaultsCount`, that a bucket
counts the faults of its own requests only, says something with two buckets at least, for
which two requests take 2.6 million states: no run has it. All five are stated, and proved
for every instance, by themselves.

Why these bounds suffice. The breaker passes through all its states with two failures,
and two requests are the fewest of which one can answer late while the other probes; a
window of one tick lets failures expire, a multiplier of two lets the backoff double
once. Two buckets are the fewest of which the gate may know one. With three requests and a queue of
two, one holds while two wait in order, a waiter may give up in front of another, a
queue may be full, and a limit of two may drop to one under two holders. Two requests
and two models are the fewest for a stale copy to meet another model's lock; of one request
the callback computes from a copy that the dashboard, or the next request, has overtaken. Three
accounts are the fewest of which the one that waits can be passed over for two others,
and a sticky limit of two the least that differs from none. Two targets are the fewest
of which one can answer late while the other is tried, two accounts the fewest of
which an anchor can be wrong. A panel of four closes on a quorum of two with two
members running, and one of them may still settle while the answers are read. Two tool
calls interleave; six blocks are what two texts, two thoughts and two calls need.
Three holders are one whose refresh is pending, one who joins it with an older token
and one who reads the record in between; two rotations make an old token two
generations old, and let the token it brought be renewed in its turn. Five saves are two
streams saved twice and one record more, in a table of two rows: the second save of a
record may come while the first is in the buffer, in a batch, in the table, or trimmed. Two
processes are the fewest of which one exits late while one lives, which is why the tunnel
has a run of its own (one, in the composed run, is enough for its types), three children
those of which a third may be spawned besides. Every property is broken by a mutant of
the code it is about (`PROJECT.json`, `mutants`), so the bounds are large enough for each
of them to fail.

### Disagreements between the code and what it says

The six violated runs each check one sentence of the repository.

1. `ProbeIsDecided` – "HALF_OPEN: limited probe requests to test recovery". Every
   call of `canExecute` takes a token, also the gate's, the auto-combo filter's
   and the one inside `recordProviderFailure`, and a 429 or a disconnected client
   reports nothing. With the tokens gone HALF_OPEN has no way out: the bucket is
   blocked until the process restarts.
2. `GateSparesUsableBuckets` – "If even one proxy bucket can execute, returns
   false". The gate sees registered breakers only; a bucket that never failed has
   none.
3. `QueuedWorkIsHeldBack` – "prevents already-queued work from immediately
   repeating the same 429". The slot is released, and handed on, before the
   account is blocked.
4. `SuccessKeepsOtherLocks` – "Resets error state only if no active locks remain".
   Judged from the copy made at selection; the write then clears the locks set since.
5. `AccountWideLockHolds` – "account-wide until the next UTC month". An expired
   lock of the model hides the active lock of the account.
6. `RotationIsKept` – "in-flight dedup to prevent refresh_token_reused errors"
   (`CHANGELOG.md:787`). A finished refresh is remembered for ten seconds under the token
   it was asked with. If the token it brought is renewed within that time (a 403 for one
   model is enough), a request that still holds the older one is given the superseded
   token and stores it over the newest; the next refresh presents a used token.
   `OnlyHasteLosesRotations` says that there is no other way to lose one.

While modelling, these turned up as well. They are part of the models; no run states
the sentence they contradict.

- `src/open-sse/services/accountSemaphore.js:250`, "Set `maxConcurrency: 0` or `null` in
  providerSpecificData to bypass": the null a configured 0 becomes is replaced by the
  default, one slot, at line 83 (`SlotLimit`).
- `src/open-sse/utils/stream.js:616`, "Synthesize response.failed if a Responses
  passthrough stream never reached a terminal event": a `response.completed` in a last
  line without newline is sent on by the flush and not noted, and the failure follows it
  (`Flush`); `EndIsOrderly` speaks of terminal events in whole lines.
- `src/open-sse/utils/stream.js:546`, "In passthrough mode we still must terminate the SSE
  stream": the rest of a line without newline is sent on as it is and `data: [DONE]` put
  right behind, so neither is a line of its own (`Flush`).
- `src/src/lib/tunnel/cloudflare/manager.js:115`, "Abort any in-flight enable so it
  cannot resurrect state after we clear it": the token is looked at after the spawn
  only. An enable that waits for its registration or for its settings goes on, and
  writes the URL and `tunnelEnabled: true` over what `disableTunnel` has cleared
  (`Registered`, `SettingsSaved`). A call that was cancelled before it spawned spawns
  all the same, and two calls that overlap spawn two processes.
- `src/src/lib/mcp/stdioSseBridge.js:156`, "kill child to avoid idle orphan process
  leak": line 139 deletes the entry by the plugin's name, so the late exit of a killed
  child deletes the entry of the child spawned since, which nobody will kill.
  `OnlyLateExitsOrphan` says that there is no other way.
- `src/src/lib/db/migrate.js:18`, "marker not written → next boot retries": the
  database has been stamped before the import, so it is not fresh at the next boot and
  the import is never tried again (`ImportAborts`); so it is after a crash between the
  two with a native driver. With sql.js the marker is written up to 100 ms before the
  data; and a save of sql.js that is cut off once it has truncated the file leaves an empty
  one, which opens as a new database into which, the marker being there, nothing is
  imported (`CutShort`; `MarkerFollowsImport` excepts it).
- A failed flush of request details leaves what was saved meanwhile without a timer
  until the next record comes; the exit of the process takes the buffer with it, since
  `cleanup` exits before the asynchronous handler is done (`LogProcessEnds`).
- A stream of the Responses API may carry deltas for an item that is closed; a stream
  that breaks after `response.completed` gets a `response.failed`; in passthrough the
  provider's `[DONE]` is handed on without being noted and another one added; text in the
  chunk of a think tag hides the tool calls of that chunk. The client in `ClientStream` notes these as faults and `StreamIsWellFormed` names the
  ones that happen.
- A combo's targets get no default timeout: the chat handler passes
  `targetTimeoutMs ?? null`, so the parameter's default in `combo.js:839` never applies.

### Fairness

- `ProviderBreaker`: weak fairness of the clock and of the segments the event loop
  will run once they are due (upstream calls settle, since they have timeouts;
  clients send again), and strong fairness of attempts on each account, because
  round-robin gets round to every account that is available again and again. With
  the fill-first strategy a lower account may never be tried: the liveness result
  is about rotation.
- `AccountSemaphore`: weak fairness of finishing and of the timers. Nothing obliges
  a waiter to give up. `WaitersAreServed` assumes that the limit settles and that
  the account is not blocked again for ever: with flapping limits or endless 429s
  a waiter rightly gets its queue timeout instead.
- `AccountHealth`: weak fairness of the clock and of started callbacks.
  `HealthRecovers` assumes, in its antecedent, that refusals and failing tests stop
  and that requests succeed again and again.

- `RequestServices`: weak fairness of what goes on by itself: the segments behind the
  mutex (database calls end), the timers of combos and panels, the loops that read
  bodies. Nothing obliges a client to ask, or an account or a panel member to answer:
  `ComboAnswers` and `PanelConcludes` rest on timers alone. `ComboAnswers` is about
  combos that have a timeout. Streams need no fairness: nothing is said to happen.
- `BackgroundServices`: quota requests end and their waiters go on; the flush timer
  fires and a transaction ends, well or not; the watchdog ticks. Restarting the tunnel
  is under strong fairness: the internet may come and go, but is there now and again
  when the watchdog asks.

## Proofs

`tlapm` checks every step. The theorems hold for any number of requests, accounts,
buckets and models and all values of the constants that satisfy the named
assumptions (`BreakerAssumption`, `BucketAssumption`, `SemaphoreAssumption`,
`HealthAssumption`, `SelectionAssumption`, `ComboAssumption`, `PanelAssumption`, `StreamAssumption`,
`RefreshAssumption`, `QuotaAssumption`, `LogAssumption`, `BridgeAssumption`). No theorem
has another hypothesis.

- **ProviderBreakerProofs**: `TypeCorrect`, `ProbesAreLimited`, `OnlyFaultsCount`,
  `OnlyProbesClose`. The inductive invariant adds to `TypeOK` and `ProbeLimit` that
  a request which attempts, or has just failed, uses an account (else a failure has
  no bucket to count on), and that `admitted` is 0 outside HALF_OPEN (else the
  limit would not hold at the moment a breaker becomes HALF_OPEN). The bulk is
  `BreakerSteps`: how every operation changes one breaker. `NoInstantProbe` (a
  cooldown lasts at least a tick) is what keeps the second `canExecute` inside
  `recordProviderFailure` from reopening what the failure has just opened.
- **AccountSemaphoreProofs**: `TypeCorrect`, `SlotsAreAccountedFor`,
  `WakeUpsAreNotLost`, `LimitIsKept`, `CooldownIsKept`, `OrderIsKept`,
  `SemaphoreIsPool`. The invariant is the
  conjunction of the type, `SlotAccounting`, `NobodyIsForgotten` and the fact that
  the limit of a gate that exists is positive (else a drain could stop with
  waiters and no runner). The work is in the queue: that a prefix and its rest
  share no request, and the cardinality of the holders after a drain. `OrderIsKept`
  follows because a drain lets in a prefix of a queue without repetition. The
  refinement maps each action to one of the pool's (`Enter`, `Quit`, `Return`, `Admit`,
  `Rest`, `Wake`, `Close`) or to a stutter; `SlotAccounting` turns the counter the gate
  keeps into the number of holders the pool counts, and makes a drain by hand an
  `Admit` of the same requests.
- **AccountHealthProofs**: `TypeCorrect`, `ActiveAccountsAreUnlocked`. The
  invariant adds that a request has a model until it and its callback are over,
  so that a refusal locks a key of the record. The heart is `ActivatedHealthy`:
  whatever copy a patch was computed from, activation clears the locks the row has
  *then*, and nothing else makes an account active.

- **RequestProofs**: `SelectionIsAMutex`, `RotationFairness`, `StreamsAreOrderly`, and of
  the composition `RequestTypes` and `RequestsAreSafe`. `SelectionIsExclusive` is inductive
  with the types of the chain and the program counters; the work is in the chain, which
  is appended to at one end and shortened at the other (`AskKeepsChain`,
  `LeavingKeepsChain`): whoever leaves is its first, and was the only one past its turn.
  `RotationIsFair` bounds a count that no step bounds by itself: `UsageInvariant` adds the
  uses that may still come before the watched account's turn (`UsesBefore`, pairs of an
  account and a turn of its run), and every choice that passes the watched account over
  takes one of them (`RotationUsesTurns`). It needs the mutex, since a choice is made
  from the records that were read (`ReadsAreFresh`).
  A stream's books (`EndIsOrderly`) depend on phase, flags and route: a translated
  Responses client has been told of a failure, or a `[DONE]`, exactly if the flags say so,
  and the tail has run exactly if a terminal event or the flush has come. For its client
  (`StreamIsWellFormed`) the invariant says, for each kind of stream, what the client
  has been told: the blocks it has open are those the translator knows to be open, no
  two calls have a block in common, thinking and text are not open together. One lemma
  per operator of a translator shows that it keeps this: it excludes all faults but
  those the property names, which the code does commit.
- **ComboProofs**: `AnchorFollowsAnswers`, `CountersAreExact`, `AnswersAreJudged`. Both
  theorems on combos rest on `AwaitedIsRacing`: an attempt is awaited exactly while its
  race is not lost. So an attempt whose signal is not aborted is the one its request
  waits for, and may move the anchor; and a step of a request adds itself to, or takes
  itself from, one set of waiters, which is what the counters count. For panels the
  invariant says that the answers there at the close that have been passed by the
  reading loop have been taken. `ComboTypes` and `FusionTypes` add that plans only get
  shorter and that the numbers of answers and of running calls are those of sets.
- **CredentialProofs**: `RefreshesAreSerial`, `RotationsAreLostInHaste`,
  `RefreshesAreShared`, `BlocksLeaveNoGhosts`, `BlocksNeedStrikes`, `QuotaRequestsAreShared`.
  That only haste loses a rotation needs `RotationInvariant`: as long as nobody was hasty,
  the cache remembers a rotation only of the token before the live one, none while the
  live one is presented, and whoever is about to store a renewed token has the live one.
  Nothing is assumed about when a token is refused: `hasty` records it. That blocks are
  earned needs `StrikeInvariant`: while the window of the first strike is open, the
  strikes counted are at most the refusals no reading explained that are as young as it;
  ages move both by the same tick. The two refinements of `SingleFlight` map `Renew` to
  boarding, or to making do with what is remembered, an answer to landing, and storing
  or judging to going on.
- **BackgroundProofs**: `NoRecordIsForgotten`, `LogKeepsLedger`, `MarkerIsTrue`,
  `ImportIsSafe`, `RecordsKeepTheLiving`, `OrphansComeLate`, and of the composition
  `BackgroundTypes`, `BackgroundIsSafe` and `BackgroundStepsAreSafe`. The log's invariant
  orders trimmed rows, rows, batch and buffer (`LogOrder`), so that what the table loses
  is older than all that is to come; says of two saves of a record that the first is
  the older one, has one second save only and none while its stream goes on (`LogPairs`);
  and that no record has two rows, and a row that was replaced its second save in the
  table or among the trimmed (`LogRows`). With the bounds on the numbers of saves
  (`LogBounds`), and with the fact that the newest rows fill the table (`NewestFill`), a
  transaction is a `Commit` of the ledger. The boot's invariant says that contents with
  imported or used rows are stamped, hence never fresh, that memory and disk agree under
  a native driver, and that a file is torn only if a save was cut off. The tunnel needs
  only that a process whose exit event is to come does not run; for the bridge
  `OnlyLateExitsOrphan` is inductive with the types.

A composed specification satisfies what its modules do: a step of `RequestServices` or
`BackgroundServices` is a step or a stutter of every module (`StepsAreOfServices`), so the
conjunction of the modules' invariants is inductive (`RequestInvariant`,
`BackgroundInvariant`) and the safety theorems are restated for the composed specifications
(`RequestsAreSafe`, `BackgroundIsSafe`, `BackgroundStepsAreSafe`). Four refinements are
proved, each for its module: the semaphore is a `SlotPool`,
refreshes and quota requests are `SingleFlight`s, the log is a `RequestLedger`.

Every invariant and every action property of a run that holds is the subject of a
theorem. Only model-checked are the liveness properties, which are out of the prover's
reach under fairness: `OpenIsProbed`, `WaitersAreServed`, `HealthRecovers`,
`EveryAskIsAnswered`, `ComboAnswers`, `PanelConcludes`, `RefusalsAreJudged`,
`BufferIsFlushed`, `DeadTunnelIsRestarted`. The theorem prover sees the `INSTANCE`d
abstract specifications as they are; nothing about them is assumed. The six violated
statements are refuted by their counterexamples.

## Assumptions of the models

- A provider sends one finish reason per stream and nothing but `[DONE]` after it; its
  last line may lack the newline.
- A combo of which an answer is expected has a target timeout (`ComboAnswers` only).
- Saves of request details are pushed in the order of the calls and their time stamps
  differ; a record is saved twice at most. A setting that switches the log off is left out.
- Results of one refresh are stored before the next one is answered, and before the dedup
  window lapses: they are stored in the microtasks that follow the answer.
- The authorization server accepts the newest refresh token only.
- A killed `cloudflared` is dead at once; only its exit event comes late.
- Legacy files are there at every boot; the driver may be another one at each.

## Not modelled

- Upstream calls: their outcome is a nondeterministic choice. Translation of requests
  and of the other pairs of formats, compression, formatting, logging, metrics.
- The executors of single providers. Some refresh tokens by themselves after a 401
  (`executors/default.js`, `antigravity.js`), past lock and dedup cache; GitHub's second
  token; the project ids of Google accounts.
- The orders of round-robin, P2C, reset-aware and auto-combos: sorting by scores. The
  breakers combos create (`provider`, `provider/model`). Virtual connections of
  providers without accounts. Rotation and fitness of proxy pools.
- The non-streaming response, keep-alives, the conversion of a stream to JSON.
- Usage counters, session and signature caches, API keys and allow lists, the login
  limiter, pricing and model tables: sequential, or read by dashboards only.
- Tailscale, the MITM proxy, downloads of `cloudflared`, backups: work on the machine's
  network, certificates and files.
- Dashboard pages, CLI, cloud worker, documentation site: they make up most of the
  repository's lines and keep no state that requests share; the operations of the
  dashboard that write shared state are in `AccountHealth` and `TunnelService`.
- `setTimeout` beyond 2^31 - 1 ms, which fires at once: the longest blocks (a
  monthly quota) are outside `MaxBlock`.
- Multi-process deployments: breakers and semaphores are process-local, and the
  runbook says so. A restart empties them: that is `Init`.
- Deactivating or deleting an account while requests use it; the warning text a
  successful test may leave behind.

## Plan

The modules are written, and their safety properties and refinements are proved. What
is left, in this order:

1. Theorems that say when the six violated statements do hold (`OnlyHasteLosesRotations` is
   the first), with the condition as a hypothesis that some configuration of the code
   meets: for one request at a time a probe is decided unless its outcome goes unrecorded; a success leaves other locks
   alone if none was set since its selection.
2. The breaker as an abstract machine that closes only by probes and opens only by
   faults of its own bucket, and the registry shown to implement one such machine for
   each bucket.
3. The selection as a queue that serves in order (who asked first chooses first), and
   the client's stream as a grammar of events of which each route is an instance.
4. The hazards without a property: a short cooldown that replaces a long one, slots that
   are returned before the stream ends, breakers that combos name differently.
