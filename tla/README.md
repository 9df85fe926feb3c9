# A model of the entropix gateway

entropix answers chat requests with a cheap model (the *drafter*) and watches
the Shannon entropy of the tokens it produces.  When the drafter looks unsure
the request *escalates* to the *heavyweight* model; in speculative mode the
heavyweight is started as soon as entropy gets near the threshold, and is
dropped again if the draft recovers.  Accepted drafts go into a semantic cache
over Redis and Qdrant.

This directory holds TLA+ modules translated from that code, TLC
configurations that check them on small instances, and TLAPS proofs for all
instances.  `PROJECT.json` relates each definition to source lines.

## 1. The system

| component | state | operations | talks to |
|---|---|---|---|
| entropy window (`internal/analysis/window.go`) | ring buffer, index, count, running sum, filled flag | `Add`, `Average`, `Reset` | called per token by router, executor and offline replay |
| token entropy (`internal/analysis/entropy.go`) | none | `ComputeEntropy`, `ExtractTokenEntropy` | turns a chunk into no, one or several entropies |
| upstream streams (`pkg/llm/openai_compat.go`) | a goroutine, an HTTP body and a channel of 16 per stream | `Stream`, `Complete` | channel to the executor, router or handler; stopped by a context |
| speculative executor (`internal/parallel/executor.go`) | per request: window, `softTriggered`, the heavyweight's channel and cancel function, the draft | `Execute`, `drainChannel` | reads the drafter's channel, starts the heavyweight, hands its channel to the handler or drains it |
| serial router (`internal/router/router.go`) | per request: window, draft | `Route` | reads the drafter's channel |
| semantic cache (`internal/cache`) | keys in Redis with a TTL, points in Qdrant | `Lookup`, `Insert`, `Evict`, `New`, `Close` | embedding service, Redis, Qdrant |
| chat handlers (`internal/gateway/handler.go`) | the response under way | `ServeHTTP`, serial and speculative × JSON and SSE, replay, `cacheInsert` | all of the above, metrics |
| server (`internal/gateway/server.go`, `middleware.go`, `cmd/gateway/main.go`) | listener, routes, the channels `quit` and `errCh` of `main` | `main`, `Start`, `Shutdown` | signals, the handlers it waits for, the cache it opens |
| configuration (`internal/config`) | the configuration | defaults, validation | start-up |
| metrics (`internal/metrics`) | counters, histograms | `Record...` | all |
| offline collection (`benchmarks/cmd/collect`, `benchmarks/internal/collect`) | JSONL file, set of collected prompts | `Collect`, `Append`, `NewStore` | both models, a judge |
| threshold sweep (`benchmarks/cmd/sweep`, `benchmarks/internal/sweep`) | records, statistics per threshold | `loadRecords`, `ComputeStats`, `Replay`, `SelectBestThreshold` | window, the file of the collection |
| load test, dashboards, web page | – | – | – |

What is hard in it, and what makes each part correct:

* **Window.** A running sum maintained by subtraction must stay the sum of what
  the ring holds across wraps and resets; two decision rules (early exit on
  single tokens, mean over a full window) have boundaries that are easy to miss
  by one.  Correct: every decision is the one a textbook rule gives on the
  whole history.
* **Streams and executor.** Up to five goroutines share two channels and two
  contexts: the producers of both streams, `Execute`, and the goroutines that
  drain.  Contexts may be cancelled at any point and `select` chooses between
  ready branches at random.  Correct: a started heavyweight call is never
  leaked and never owned twice, no chunk of a call handed over is missing,
  everybody ends, the outcome depends on the tokens and not on the timing.
* **Cache.** Two stores and no transaction.  Calls interleave between their
  remote calls, any of which may fail with or without effect; keys expire on
  their own, Qdrant applies late, and inserts run in goroutines that nobody
  waits for.  Correct: what was inserted is found while its key lives, what was
  evicted is never served again, cleaned points stay away.
* **Handlers.** Six functions with a dozen returns each answer, count and cache
  on their own; a stream may break after its status line; the client may leave
  at any point.  Correct: one status line and one source per response, metrics
  that agree with it, answers with nothing missing and no error hidden, only
  drafts that were the answer cached, and no goroutine left behind.
* **Collection.** Goroutines behind a semaphore append to one file; runs are
  interrupted or killed and resumed from a file that may end in half a line.
  Correct: bounded concurrency, no prompt recorded twice, none left out of a
  run that went to its end, and every run ends.
* **Process.** Signals, a listener that fails, a deadline shorter than the
  models' timeouts, and goroutines nobody waits for, over restarts that find
  what the last process left in the stores.  Correct: a stop ends, a clean one
  leaves no call unanswered, a cached answer was an accepted draft, and the
  configuration it all runs on is one the other parts can work with.
* **Sweep.** Drafts are replayed under every threshold.  Correct: its numbers
  are those the gateway's rule gives, they move the right way with the
  threshold, and the threshold it names is the best.

The `hazards` of `PROJECT.json` list these one by one with their lines.

## 2. Modules

```
EntropyWindow ──┬── WindowSession ── MCWindowSession
                │        └── EntropyWindowProofs   (extended by the next three)
                ├── Route ── MCRoute, RouteProofs
                ├── Executor ── MCExecutor, ExecutorProofs
                └── Sweep ── MCSweep, OfflineProofs
ChunkStream ────┬── Route, Executor
                ├── ChatRequest ── MCChatRequest, ChatRequestProofs
                └── ChunkStreamProofs     (lemmas the proof modules share)
Executor implements (INSTANCE) Lifecycle and Route
ChatRequest uses (INSTANCE) Lifecycle
ChatRequest implements (INSTANCE) Exchange
SemanticCache ── MCSemanticCache, SemanticCacheProofs
SemanticCache implements (INSTANCE) CacheContract
Config ───────── Gateway ── MCGateway, GatewayProofs
Gateway composes (INSTANCE) Exchange and CacheContract
Collect ── MCCollect, OfflineProofs
```

**EntropyWindow** has the window as a record and its operations as operators,
without variables, so that executor, router and replay can share it; the
threshold is a parameter, as the replay has several.  `Slide`
is the part of `Window.Add` that updates the struct, `Escalates` its two return
conditions.  Entropies are natural numbers (fixed point); the division of
`Average` is multiplied out.  Its last operators, `Total` and `Hot`, are the
textbook rule on the whole history, against which the others are checked.

**WindowSession** is a window over any sequence of `Add` and `Reset`; `limit`
is its threshold, `seen` and `decisions` are what the caller saw and exist for
the properties.  Its names are its own, so that the proofs about the router and
the executor can extend the ones about it.

**ChunkStream** has the goroutine that `Stream` starts: `ScanChunk`, `ScanEnd`
and `ScanFault` are the three things that can come out of `scanner.Scan` and
the parsing after it; `SendChunk` and `DropChunk` are the two branches of the
`select`; `SendFault` the unconditional sends of an error.  `[DONE]` and a
plain end of body both lead to `ended`; `ending` remembers the difference for
the properties only.  Blank lines and lines without `data: ` change nothing and
are left out.

**Route** is the serial router: one stream, and a loop with the actions
`CtxDone`, `DrafterClosed`, `DrafterErr`, `DrafterChunk`, `Escalate` and
`PassToken`.  `outcome` is what it returned; the decision `Continue` is
`continue`.  The goroutine an escalation starts is `Drain`.

**Executor** composes both streams with `Execute`.  `pc` is `select`, `tokens`
(inside the loop over one chunk's tokens), `starting` (inside the blocking
`heavyweight.Stream`) or `returned`.  Each branch of the `select` is an action
(`CtxDone`, `DrafterClosed`, `DrafterErr`, `DrafterChunk`), each outcome of a
token is one (`Escalate`, `SoftTrigger`, `PassToken`), and so are the two
outcomes of the start.  When several branches of the select are ready all of
their actions are enabled, as in Go.  `heavyHeld` stands for `heavyCh` and
`heavyCancel`, which the code sets together.  `drained` has the channels a
background goroutine is emptying, `handed` says that the result carries the
heavyweight's channel.  `ClientGone` is the client's disconnection or the
return of the handler: it cancels the request's context and with it the
heavyweight's.

**Lifecycle** is the promise in terms of `state.go`: drafting, speculating and
three final states, each with what happens to the heavyweight call.  Executor
implements it under `phaseBar` and `heavyBar`.  It also implements **Route**:
without its speculation (`starting` is inside the token loop, the heavyweight's
stream does not exist) every step it takes is one of the serial router, so the
two modes route a draft alike.

**ChatRequest** is `ServeHTTP` and what it calls, for one request.  `mode` says
whether the gateway speculates, whether it has a cache and whether the client
asked for a stream.  `pc` is the blocking operation the handler is in: the
cache lookup, a model's call, the routing, or a loop over the heavyweight's
channel (`collect` assembles a JSON response, `relay` is the loop of
`streamSSE`); an action is all the handler does from there to the next
blocking operation.  The routing is `Lifecycle`, with its steps for a serial
request being those without `Speculate`; that is sound because `Executor`
implements it, and it is what keeps this module small enough to have every
mode in it.  The heavyweight's stream is the one of `ChunkStream`, because a
handed call has its goroutine running before the handler looks at it; `Drain`
is the goroutine that empties the channel of a released call.  `ContextEnds`
is the disconnection of the client, or `net/http` ending the context of a
request whose handler returned.  `failure` has four values for the ways a call
can fail; `KindOf` is what the client library makes of them and `FailUpstream`
is `handleUpstreamError`.  The text of messages, the chunks' content and
latencies are left out; `sent` counts the heavyweight's chunks in the response.
A cached or accepted answer is written in one step, as it involves no channel.

**Exchange** is what a chat request is from outside: unanswered, then answered
once by an error, a cached response, the draft or the heavyweight, then over;
only a draft answer starts an insert, and only with a cache.  ChatRequest
implements it, with `caching` and `request` computed from its own state.

**SemanticCache** has `kv` (ids whose key is in Redis), `points` (ids Qdrant
has a point for) and `queue` (writes Qdrant has acknowledged and not applied:
the requests do not pass `wait=true`).  A `Lookup`, `Insert` or `Evict` is one
action per remote call; embedding, which touches no store, is one step with
the beginning of the call.  An id is the insert that created it, as the code
draws a fresh UUID.  Each remote write may succeed, fail without effect, or
fail after it took effect; each read may fail.  `Expire` is Redis (TTL,
`allkeys-lru`), `Apply` is Qdrant, `Crash` ends all calls where they are.

**CacheContract** is one store with atomic calls: an entry is added once and
never comes back, a hit is an entry that is live at that moment and similar
enough, a successful eviction leaves none, a failed call may have had its
effect.  SemanticCache implements it with the key in Redis as the entry and the
last remote call of each operation as the point at which it takes place; the
points in Qdrant and the writes under way are hidden.

**Config** has `applyDefaults` and `validate` as operators on a record of the
fields that some decision depends on.  Fractions are scaled to integers; the
floats that YAML writes `.nan`, `.inf` and `-.inf` are values of their own
(`NaN`, `Inf`, `NegInf`), and `Below` is the comparison of Go.  `validate` lets a
`NaN` pass in each of the three fractions, and a threshold of `Inf`, whose lower
threshold is as high as itself; `LoadedConfigFits` names these as its only
exceptions.

**Gateway** is the process.  `process` is where `main` is: off, configuration
loaded, serving (listener started, in or before its `select`) or stopping (in
`Shutdown`).  `Load` is lines 25–33, `Open` the opening of the cache and
`NewServer` (which panics on a metrics path that is already a route), `Notify`
and `Signal` the two orders in which a signal and `signal.Notify` may come,
`Select` the `select`, whose branches may both be ready, `StopClean` and
`StopDeadline` the two ends of `Shutdown`.  Every way the process ends goes
through `Ends`, which fails the cache calls under way and leaves the entries to
the next process.  The handlers are `Exchange`'s steps and the cache calls
`CacheContract`'s, each guarded by the process being up (`Handling`); only Redis
and its `Expire` go on without it.  The two abstract specifications stand for ChatRequest and SemanticCache because those implement
them.  A panic in a handler is an error answer (`recoveryMiddleware`); a panic
elsewhere is `Crash`.  A call arrives at most once, through an open listener.

**Sweep** is `cmd/sweep`: `Scan` is one line of `loadRecords` with the filter of
`main`, `SweepOne` is `ComputeStats` for one threshold, `Summarise` the choice.
The loops of `Replay`, `ComputeStats` and `SelectBestThreshold` are recursive
functions from the number of passes to what has been accumulated (`Replay`,
`Tallies`, `Best`), over the window of `EntropyWindow`.  Ratios are pairs,
compared by cross multiplication, and prices are integers.

**Collect** is the tool that collects drafts: `main` is where the loop of its
`main` is, `worker` where the goroutine of each prompt is, `held` the slots
taken from the semaphore.  `file` outlives a process: `Start` is a run (it reads
the file back), `Interrupt` its Ctrl-C, `Crash` its end at any point.  A run may also end in
its first step, when the dataset or the file does not load (`NewStore` refuses a
line of more than 1 MB, which glued lines may become).  A line of
the file is a record or does not parse; `unended` says that the last one lacks
its newline, so that the next write makes one line with it.  `Append` may fail
with nothing, a part (`PutPart`) or all of the record written.  What a record
holds, an error included, makes no difference to the store and is left out.
Neither the judge nor anything that uses it compiles at this commit
(`judge.go:58` names a field that the struct does not have); the module is of
the loop and the store around it.  `CollectAssumption` has at least one slot: with
`-concurrency 0`, which the flag takes, `Acquire` would wait until the interrupt.

## 3. Runs

| run | bounds | shows |
|---|---|---|
| `window_session` | ring of 3, early exit 2, thresholds 1 and 2, four entropies around them, 7 tokens | the ring wraps twice; sum, ring contents and decisions equal the reference on every history, also after a `Reset` in mid-ring; 43 690 states |
| `route` | window of 2, a channel of 1, 4 chunks of 0–2 tokens with four entropies | the routing rule, whole drafts, termination of Route and of the drafter's goroutine; 54 271 states |
| `executor` | window of 2, channels of 1, 3 chunks per stream of 0–2 tokens with four entropies | ownership, accounting and wholeness in all interleavings, termination of request and goroutines under fairness; implements `Route!Spec` (and with it the routing rule) and `Lifecycle!FairSpec`; 286 597 states |
| `cancelled_request` | as `executor` | a disagreement with a test (section 5) |
| `chat_request` | a channel of 2, 5 chunks, all eight modes | metrics and cache that agree with the answer, whole answers, termination of handler and goroutine; implements `Exchange!Spec`; 5 084 states |
| `request_count`, `upstream_timeout` | as `chat_request` | two disagreements with documents and tests (section 5) |
| `semantic_cache` | 2 lookups, 2 inserts, 1 eviction, prompts that are equal (similarity 100) or just not similar enough (94, the limit is 95) | findability, eviction and cleanup under all failures; implements `CacheContract!Spec`; 797 170 states |
| `collect` | 3 prompts, 2 slots, 1 retry, 3 runs | bounds, no duplicates, complete runs, termination; 314 535 states |
| `append_reopen` | as `collect` | a disagreement with a test (section 5) |
| `gateway` | 2 requests, 1 eviction, 2 prompts, 2 processes, 78 files that leave the defaults in one or two fields, each limit of `validate` from both sides, and each fraction also as NaN and infinite | what a stop, clean or not, leaves behind, cached answers across restarts, loaded configurations; 632 300 states |
| `sweep` | every file of up to 3 lines of 13 kinds and two of 20 records; three lists of thresholds | types (no ratio over zero), counts against the reference, monotonicity, the choice; 46 112 states |

Why the bounds are enough.  A window of 2 in `executor` fills, wraps and
escalates within 3 chunks, and an early exit of 1 leaves room for both decision
rules; the window on its own is checked at 3.  With a capacity of 1 and 3
chunks a channel is full while its producer has more, which is the situation
the capacity of 16 hides from tests.  Entropies 0, 1, 2, 3 are below, at and
above the soft threshold (1) and the hard one (2).  In the cache two lookups
can both be between get and cleanup of the same point, with an insert between
its two writes and an eviction between its two deletions; more calls only
repeat these, and the proofs do not bound their number.  `collect` needs three
runs: one that leaves a half line, one that glues a record to it, and one that
reads the result back.  `gateway` needs two processes, so that an entry can
outlive the one that inserted it, and two requests, one to insert and one to
hit.  `sweep` needs twenty records to meet 95% exactly, and a lowered and a
raised order of thresholds.  `MaxChunks` and `MaxRuns` are the only
bounds inside guards of the modules, `MaxTokens` is in that of `MCWindowSession`.  Requests and calls of a run
happen once, so the runs end: `CHECK_DEADLOCK FALSE` (not in `window_session`).

Fairness.  `Executor!Fairness` is weak fairness of `Execute`, of each producer
and of each draining goroutine.  Go's scheduler runs every runnable goroutine,
and what a producer or the start of the heavyweight waits for is bounded by the
`http.Client` timeout, after which the scanner fails.
`Route!FairSpec` is the same for the one stream.  `ChatRequest!FairSpec` is
weak fairness of the handler (every call it makes has a timeout, the routing
ends by the properties of `Executor` and `Route`), of the heavyweight's
goroutine and of the draining one, and of `net/http` ending the context after
the handler returned.  No fairness is assumed
of the client, and none that a particular branch of a `select` is ever taken.
`Collect!FairSpec` is weak fairness of `main` and of each goroutine, whose calls
have timeouts of 30 and 60 seconds.
`Gateway!FairSpec` is weak fairness of `main` alone, whose waits are bounded by
the startup timeouts and the ten seconds of `Shutdown`; no handler is assumed to
return, so `StopEnds` holds because of the deadline.

The type invariants of the modules with proofs are theorems and, but for the
sweep's, not checked again by the runs; TLC checked each before it was proved.

Every property of a passing run has a mutant in `PROJECT.json`: a plausible bug
in one definition (a ring index that does not wrap, a send that drops, a
missing cancel, an ignored Redis error) under which the run fails.

## 4. Proofs

All for arbitrary constants within the named assumptions, that is, any window
size, threshold, early exit count (validated or not), capacity, set of chunks,
number of chunks, and any number of concurrent cache calls.

* `EntropyWindowProofs` has lemmas about `Slide` and `Escalates` and the theorems
  about a session.
  - `SessionType`, and `SessionCold`: if the mean was at most the threshold and
    neither rule fires, it still is (`ColdStep`).  Until the window is full this
    rests on the early exit, which is why `EarlyExitCount >= Size - 1` is a
    premise: with a smaller early exit the code lets a short hot draft through.
  - `SessionRing`: the ring holds the last `Size` entropies at their indices
    modulo `Size`.  Its invariant has no modulus: `pos` is what is left of the
    count after whole turns (`Turned`), and the entropy of `k` calls ago is `k`
    slots back (`Back`); `Remainder` turns the two into the property.
  - `SessionSum`, `SessionDecisions`: the sum that is kept up by adding and
    subtracting is that of the last `Size` entropies, and every decision is the
    one of the rule (`Hot`) on the whole history.  The invariant is
    `Reflects(w, s)`: the window `w` has been given the history `s`; `Slide` takes
    it to `Append(s, e)` (`SlideReflects`), as the slot it overwrites is the
    entropy that leaves the sum.  `ByTheRule` says that a reader stopped at the
    first hot token; `AppendByTheRule` is one step of it.
  - The library's induction theorems cannot be applied here.  `Induction` is
    induction up to a bound for a set, from the least element of its complement
    (`LeastNatural`); `Recursion` builds the function of a loop pass by pass, so
    that a recursive definition, which is a `CHOOSE`, satisfies its equation
    (`PrefixSumsDef`; `ReplayDef`, `TalliesDef`, `BestDef` in `OfflineProofs`).
* `ChunkStreamProofs` has lemmas about one step of a stream: types, and the
  balance below.
* `RouteProofs`: `RouteType`, `RouteDraftWhole`, and `RouteByTheRule`: the router
  escalates at the first token at which the rule on the history holds and at no
  other, however the tokens were cut into chunks (`Reflects` and `ByTheRule` of
  the tokens taken so far).  `ExecutorByTheRule` is the same for `Executor`.
* `ExecutorProofs`: `ExecutorType`, then invariants that build on each other.
  `ControlInv` ties `pc`, `outcome` and `state` together; `HeavyInv` ties
  `heavyHeld` to the heavyweight's producer; with `CounterInv` they are
  inductive and give `ExecutorOwner`, `ExecutorOneHeavy` and
  `ExecutorCounters`.  For the wholeness of drafts and head starts the
  invariant is a balance: chunks received + in the channel + held unsent
  (+ the error item's place) = chunks read.  `ExecutorDraftCold` carries
  `ColdStep` through the loop.  `ExecutorRefinesLifecycle` maps each step
  to a step of `Lifecycle` or a stutter, `ExecutorRefinesRoute` to a step of
  `Route` or a stutter: a token that triggers the heavyweight is an ordinary
  `PassToken` there, its start and its goroutine do nothing.
* `ChatRequestProofs`: `ChatType`; then `ControlInv`, which says what has been
  answered, counted and decided wherever the handler is, and with it
  `ChatRecords` and `ChatRefinesExchange` (each action of the handler is a
  reply, a beginning, an end or a stutter of the exchange).  `ChatAnswerWhole` uses the balance
  again: while the handler reads, chunks sent on + in the channel + held unsent
  = chunks read, an error that was sent waits at the end of the channel
  (`StreamInv`), and only the client cancels before the handler returns;
  `WholeAtEnd` adds that a goroutine that ended stays so.
* `SemanticCacheProofs`: `CacheType`; then one inductive invariant
  (`CacheInvariant`).  `WrittenInv`: an id that any store, queue or call knows
  of is past its `Set`, so a key that disappeared never comes back (ids are
  fresh).  With it `GoneInv` (a cleanup is of a point without key; what was
  evicted has none) and `FindInv` (a queued deletion is of a dead key or of an
  id somebody asked to evict) are preserved although other calls run between
  any two remote calls of one.  `CacheFindable` and `CacheNoHitAfterEvict` read
  the two properties off.  `CacheCleanedStaysAway` adds `PointInv`: an id
  that is a point, waits to be one or was found by a lookup is past its upsert,
  so that no insert can bring back what a cleanup took away.
  `CacheRefinesContract` maps each step to one of `CacheContract`, with the
  invariant supplying that a lookup holds an id whose prompt is similar enough.
* `GatewayProofs`: `GatewayType`, then three invariants.  `ConfigInv`:
  `GatewayConfigFits` follows the fields from what a file may say through
  `applyDefaults` to what `validate` lets pass; the exceptions, a fraction that is
  `NaN` and a threshold that is infinite, are in the property (`FloatAbove`,
  `FloatBetween`: what the comparisons of `validate` say of any float).
  `StopInv`: after a clean end the process is off, where nothing arrives, and no
  call of that run is without its answer (`GatewayCleanStop`).  `CacheInv` ties the
  lookups, the inserts and the entries to the exchanges they belong to, over
  restarts: an entry is one whose request was answered by its draft, a hit is an
  entry of a similar prompt (`GatewayCachedAreDrafts`).  `AllMove` and `OthersStay` say of each step which
  call it moves; the rest of the process is cases of `main`.
* `OfflineProofs`, the sweep.  `ReplayByTheRule`: the replay escalates exactly when
  some token is hot (`Reflects` again, over a prefix of the draft).  `TalliesCount`:
  after `n` records every counter is a number of them (`Counted`), and escalated
  and accepted ones make `n`.  `TalliesFall`: a higher threshold asks for less
  (`AsksFalls`), so no pass of the loop can put it ahead.  `BestIsBest`: the
  choice is the best of the thresholds before it, by `GreaterThanOthers`, which is
  where the divisors must be positive.  The invariant `SweepInv` relates the
  program's loops to these: of the lines read, the kept ones are the records,
  counted in any set of records (`KeptInv`), the statistics are those of the
  threshold of their place (`ComputedInv`).  `SweepType`, `SweepStats`,
  `SweepEscalationFalls` and `SweepSelects` read the properties off.
* `OfflineProofs`, the collection: `CollectType`; `CollectBounded` counts the
  goroutines at work by the slots they hold; `CollectOneRecordEach` rests on what
  the store's memory says of the file (a record on disk is in memory unless its
  own `Append` failed in this run) and on a prompt being dispatched once per run;
  `CollectComplete` on what the loop has passed.

Assumed are the named assumptions of the modules: `WindowAssumption`,
`RouteAssumption`, `ExecutorAssumption` and so on, each what `validate` or the
Go types establish (`GatewayConfigFits` proves those of the window, the executor
and the cache for any file that is loaded, but for a `NaN` and an infinite
threshold), and `SweepAssumption`, that the file's
entropies and token counts are not negative and the thresholds numbers (the flag
also takes `nan` and `inf`).  A product of two fractions is exact in the models; in
float64 it may round, which for a subnormal threshold can make the lower
threshold equal to it.

Every safety property of a passing run is a theorem (`ImplementsLifecycle` in its
safety part).  Left to TLC are the liveness
properties and the fair half of the refinement of `Lifecycle` (the prover has no
`ENABLED`; the liveness of `Route` is not part of the second refinement, as both
modules have it as properties of their own).  `Gateway` stands on `Exchange` and
`CacheContract`, whose implementations by ChatRequest and SemanticCache are
proved, but the composition of the detailed modules is not a module.

## 5. Findings

* **A cancelled request may be answered with a truncated draft**
  (`cancelled_request`).  On cancellation the drafter's goroutine may take the
  `ctx.Done` branch of its send and close the channel; `Execute` then has both
  a done context and a closed channel and may choose the latter, which means
  *draft accepted*.  The handler caches such a draft, with an insert whose
  context does not depend on the request.  The executor's test for cancellation
  expects an error (`internal/parallel/executor_test.go:351`); it uses a
  channel that nobody closes.
* **Some requests are not counted** (`request_count`).  A routing error, and a
  speculative stream that fails in JSON mode, are answered 500 with an error on
  record but without `RecordRequest`; `docs/METRICS.md:13` has
  `requests_total` as the total of the requests, and a failed call of a model
  is counted.
* **An upstream timeout is not a 504** (`upstream_timeout`).  The timeout in
  force is the `http.Client`'s, the classification looks at the request's
  context, which has none: the client gets a 500.  `handler_test.go:672` has a
  timeout answered with 504, but its mock returns the error type itself.
* **An appended record may be unreadable** (`append_reopen`).  `Append` does not
  look at how the file ends.  Behind a line that was cut short it writes a
  record that nobody can read back, and reports success;
  `benchmarks/internal/collect/store_test.go:38` expects an appended record to
  be there when the store is opened again.  A later run collects the prompt
  again, as `OneRecordEach` and `RunIsComplete` show.

Visible in the model without a run of their own: a producer with an error for
a full channel waits for ever when `Execute` left on `ctx.Done`
(`DrafterEndsOrIsStuck` says that this is the only case); an early exit leaves
the drafter's context alive and a goroutine reads the rest of the draft, where
`docs/SYSTEM_DESIGN.md:80` aborts it (`Escalate`); the soft trigger looks at one
token at any position, where `docs/SYSTEM_DESIGN.md:108` has the windowed entropy
of the first ten (`SoftTrigger`); `README.md:60` has a `sync.WaitGroup` for a clean
shutdown, but nothing waits for the inserts, which a stop that logs `gateway
stopped` may cut off (`InsertRuns`, `StopClean`); the summary of the sweep prints
`draft accuracy > 95%` (`benchmarks/internal/sweep/report.go:68`) for a choice that
takes 95% itself, as `docs/METRICS.md:79` has it (`Better`).

## 6. Not modelled, and the plan

Abstracted: float rounding (entropies are integers), wording and JSON; a
payload without `redis_key`, a chunk pointer that is nil and a response writer
that cannot flush do not occur with the code's own callers.  A Redis write whose
answer was lost takes effect at once or never, not later.

A dimension of the collection other than the configured one makes every call
of the cache fail, which SemanticCache allows but does not explain.  A request
that comes over a connection kept open after the listener itself failed is left
out.  Error records that are never collected again (`collect` appends them) are
in `Collect`, but what they should be worth is nowhere written.

Not modelled: `ComputeEntropy` (real arithmetic), the text of cache keys and the
embedding call (one remote call without state, a branch of `LookupEmbed` and
`InsertEmbed`), wire types, latencies, logs and request ids, the judge and the
data set of the collection (they do not change what the store and the loop do),
the load generator with its mock, the web page and dashboards.

What would come next: a `Gateway` over ChatRequest and SemanticCache themselves
instead of what they implement, liveness of the sweep's and the router's loops by
a bound on their steps, and float64 sums, whose rounding the window accumulates.
