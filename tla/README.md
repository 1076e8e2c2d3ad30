# Verification of cofiswarm-dispatch

TLA+ specifications of the dispatcher in `src/`, TLC configurations that check them on small
instances, and TLAPS proofs of the properties that hold for every instance. Everything is
translated from the Go packages under `src/internal` and `src/cmd`; `legacy/cpp` holds the C++
the Go was ported from and is compiled by nothing.

`PROJECT.json` maps every definition to the source lines it models, lists the runs, the hazards,
the divergences found, and the main theorems.

## 1. The system

The dispatcher is one Go process. `net/http` runs each request in a goroutine; the reflection
scheduler is one more. They share an episodic log, a session document, a backend router and a
roster cache, each behind a mutex of its own.

| component | state | operations | talks to |
|---|---|---|---|
| history log (`history/store.go`) | rows in memory, `history.json` | Load, Append (two critical sections, then a save outside the mutex), All, Search, Len | called by the eviction hook, the reflection scheduler and the history routes |
| reflection (`reflect/*`, `httpapi/reflect_tick.go`) | cursor file; the tick's window | Tick = load cursor, take the window, ask a model, store lessons, append a bookkeeping row, save cursor | reads and appends to the log, calls the agent client, posts to the memory service |
| session store (`session/*`) | `sessions.json` in memory and on disk; rolling summary | NewID, AppendRun with compaction, Load, the eviction hook | called by the dispatch routes; its hook appends to the log |
| continuation (`session/context.go`, `text.go`, `tokens.go`) | none | BuildContinuation: the prompt of a follow-up, cut to its budgets | reads the session; called by the dispatch and continuation routes |
| backend router (`backend/router.go`) | routing context, decision per agent, audit log | SetContext, ClearContext, ShouldRoute, Resolve/pickAuto, RecordDecision | dispatch routes, resolve route, agent client |
| agent client (`agent/client.go`, `bus.go`) | none across calls | a call with retry and fallback; bus variant | the router, inference backends |
| agent stream (`agent/stream.go`, `stream_sse.go`, `httpapi/agent_routes.go`) | one stream: buffer, cancellation | Stream with a watcher goroutine, the SSE drainer | the router, an engine, the client |
| dispatch routes (`httpapi/server.go`) | none across requests | `/api/architect`, `/api/architect/stream` | kvpool, registry, mode services, session store, router |
| SSE writer (`stream/sse.go`) | the open response | Emit, EmitFlatReplay, EmitError | the client |
| registry client (`registry/client.go`) | the cached roster | Roster, FetchAgent, PutAgent | the agent registry |
| retrieval (`prepare`, `httpapi/roster_rag.go`, `rag/client.go`) | none across requests | Parse, mergeRosterRAG, retrieveMemory, BuildRAG | the roster, the rag service; called by the dispatch routes |
| synthesis (`synthesis/*`) | one reduction: blocks and calls | ReducePairwise, assembleFit | a synthesizer; no route calls it yet |
| kvpool, mode clients | none | Admit; Execute, StreamRelay | external services |

### What is hard here

* *Interleavings.* `Append` saves after unlocking, so saves overlap and arrive in any order;
  `Resolve` is three critical sections over a context every request may replace; the eviction hook
  runs after the session mutex is released; a reflection pass reads the end of the log, works, and
  saves a cursor while others append.
* *Crashes and restarts.* `os.WriteFile` truncates and then writes. Two files (log and cursor)
  are saved independently. A file that does not parse stops the next start.
* *Partial failure.* A save may fail after memory was changed; the kvpool, the mode service or the
  relay may refuse, answer `null`, answer nothing, or break off in the middle of a stream; a
  handler may panic, which `net/http` recovers with mutexes still locked.
* *Time.* Ids are the current millisecond; the roster has a time to live and is fetched under its
  mutex.
* *Liveness.* A reflection tick appends to the log it reads; a dispatch must end whatever its
  services do; an agent stream must end when the client leaves, although the engine may hang.
* *Stale decisions.* A dispatch targets the agents that opted in to retrieval when the roster was
  last fetched, which is not the moment at which it runs.
* *Budgets.* A continuation and a merge prompt are cut in several places, each with a marker of
  its own behind the cut, with floors, and with a last cut through what was cut already; a rolling
  summary is cut again and again over the life of a session.
* *Framing.* An engine's stream arrives in chunks cut anywhere, and ends with or without its last
  blank line.

`PROJECT.json` "hazards" has each of these at its line, with the properties that cover it.

### What correct means, per component

* history: an acknowledged row stays at its index; the file never holds a row that memory does not.
* reflection: no episode is skipped, crashes included; none that the saved cursor covers is
  reflected on again; ticks converge.
* sessions: a run that leaves the working set enters the history, exactly once; the latest run is
  kept; the working set keeps its budget; the file follows memory.
* router: a decision is made under the context of the request it is for; no context outlives its
  request; what is recorded is runnable and in the audit log; no request gets stuck. One context for
  all requests cannot keep all of this: what remains is stated, and proved.
* dispatch: what is stored is an answer of the service; every failure reaches the client; the
  stream is one of those `spec/sse-events.md` allows; a follow-up is built on the run it follows;
  every request ends.
* agent stream: the client gets the deltas that were sent, at once, in order, whatever the chunks;
  it ends with `[DONE]`, the end of the body, or the client; it leaves no goroutine behind.
* registry: a cached roster is never staler than the time to live and a request; it never goes
  back.
* retrieval: the documents of a dispatch reach the agents that opt in, and nobody the caller does
  not target; what the caller asks for is not overwritten; no dispatch is held up.
* continuation: it exceeds its budget by markers only; the instructions and a quarter of the
  budget's worth of the follow-up are left, and some of the previous answer; what the client is told
  about compaction is true; the summary stays bounded.
* synthesis: a merge shows both contributions within the cap; every contribution gets into the
  one answer.

## 2. The modules

| module | models | composes |
|---|---|---|
| `HistoryStore` | `history/store.go`, with the file system under it | – |
| `HistoryOverlaps` | the same steps with two history variables: when an acknowledged row is at risk | EXTENDS `HistoryStore`, implements `EpisodicLog` |
| `EpisodicLog` | the abstract log: append-only, acknowledged rows kept while it is calm | – |
| `HistoryStoreProofs` | theorems | EXTENDS `HistoryOverlaps` |
| `Reflection` | `reflect/scheduler.go`, `pass.go`, `reflect.go` and their wiring | EXTENDS `HistoryStore` (the scheduler is one of its writers) |
| `ReflectionProofs` | theorems | EXTENDS `Reflection` |
| `SessionStore` | `session/store.go`, `compaction.go`, `summarize.go`, the eviction hook | EXTENDS `HistoryStore` (handlers are its writers) |
| `SessionStoreProofs` | theorems | EXTENDS `SessionStore` and `HistoryStoreProofs` |
| `BackendRouter` | `backend/router.go`, `httpapi/backend_routes.go`, and the dispatch handler and agent client as the router sees them | – |
| `SharedContext` | the same steps with three history variables: what one context for all requests does to each | EXTENDS `BackendRouter` |
| `BackendRouterProofs` | theorems | EXTENDS `SharedContext` |
| `SseContract` | the sequences of events `spec/sse-events.md` allows, and what becomes of them when a stream breaks off | – |
| `Dispatch` | `handleArchitect`, `handleArchitectStreamBody`, the mode client, the SSE writer | refines `SseContract` |
| `DispatchProofs` | theorems | EXTENDS `Dispatch` |
| `RosterCache` | `registry.Roster` | – |
| `RosterRAG` | `prepare.Parse`, `mergeRosterRAG`, `retrieveMemory`, `BuildRAG`, `withRAGModeConfig`, `rag.Retrieve` | EXTENDS `RosterCache` (a dispatch is one of its callers) |
| `RosterProofs` | theorems | EXTENDS `RosterRAG` |
| `TextLengths` | `session/text.go`, `session/tokens.go`, `truncateNote` | – |
| `Continuation` | `session/context.go`, and the working memory `AppendRun` leaves to it | EXTENDS `TextLengths` |
| `Synthesis` | `synthesis/budget.go`, `assemble.go`, `tiered.go` | EXTENDS `TextLengths` |
| `BudgetProofs` | theorems | EXTENDS `Continuation` and `Synthesis` |
| `AgentStream` | `agent/stream.go`, `agent/stream_sse.go`, `handleAgentStream` | – |
| `AgentStreamProofs` | theorems | EXTENDS `AgentStream` |
| `MC…` | instances for TLC (`MCBudgets`: of `Continuation` and `Synthesis`) | EXTEND the module they name |

### HistoryStore, HistoryOverlaps and EpisodicLog

`rows` is `Store.entries`, `file` is what `history.json` holds: a sequence of rows, possibly
cut short (no `End`) or with the tail of a longer text behind it. A writer goes through
`AppendRow` (the first critical section), `Marshal` (the second, after which the text is a local
of the goroutine), `OpenTruncate` and `WriteOut` (the two system calls of `os.WriteFile`);
`OpenFails` and `WriteFails` are its error paths. `acked` records, as history, what an
`Append` that returned nil had been told. `Crash` and `Start` are a restart; `Start` refuses a
file that does not parse, as `main` does through `log.Fatal`. A row is a model value, a text the
sequence of rows it encodes with the bracket that closes it: one byte per row is enough to tell a
torn file from a whole one.

`HistoryOverlaps` adds no behaviour. `overlap` says whether calls of `Append` have overlapped since
one that ran alone wrote the file, and `gone` which acknowledged rows went when the process died
during an overlap. With it the module says what the log keeps for any number of goroutines:
`PromisesKept`, a row whose `Append` returned nil can only go in a crash between an overlap and the
next undisturbed save; `SavedWhenSettled`, that save repairs whatever is in the file.

`EpisodicLog` is what the comments of `store.go` promise an appender, as far as it can be kept:
entries are added at the end, acknowledged, and after a restart the log is a prefix that, if the
log was `calm`, holds every acknowledged one; or it is lost, with nobody serving it. `AbsLog` is the
rows while the process is up and what the next one will load while it is down, `AbsState` is "lost"
when the file does not load, since `main` then refuses to start, and `calm` is the absence of an
overlap. Any number of writers implements it (`ImplementsLog`). The promise without `calm` is
`StableWatermark`, which run HistoryWatermark refutes.

A read error of `Load` other than a missing file also ends the start; the next start finds the same
file, so the step changes nothing here and has no action of its own. `SessionStore` is alike.

### Reflection

One `Tick` is a chain of steps in the order of the code: read the cursor file, take the entries
from there, drop the bookkeeping rows, ask the model, store each lesson, append the bookkeeping
row through the log's own `Append`, write the cursor. The window's end is read before the model
is asked, and is what is saved. The model's answer is one of lessons, unusable text, or "down",
which is what the agent client makes of an unreachable backend: text without a JSON array.
`seen`, `finished`, `capped` and `outage` record, as history, what became of each episode:
`finished` are the episodes handed to the model that the saved cursor covers, none from the moment
a save of the cursor has truncated its file. `behind` records that the process once started from a
log shorter than the cursor. A write of the cursor that fails may leave any leading digits of it
(`Leading`). Posters append episodes, each once, through the same operations of the log.

### SessionStore

A run is its identity, the id it was given, and its sizes; texts are lengths. `AppendRun` is one
step, from the lock to the unlock, as in the code: append, compact (`RunsToDrop`, `foldSummary`),
start the save. The save itself is done under the mutex, in steps, so that it can fail or be cut
off; then the handler, outside the mutex, hands each evicted run to the log. The text of a run has
a size and a score, and a part (`hidden`, with the score `rescore`) that `runChars` and `scoreRun`
do not see until the document has been through the file (`whole`): the agents of the stream
fallback, stored as a `map[string]string`.
`compactSession` sorts the runs into two slices by their ids; `Marked` is the set of the indexes
that go, and `SelectAt` takes the runs at a set of indexes in their order.

### BackendRouter and SharedContext

The state is the router's: `ctx`, `decisions`, `log`, and whether the mutex is held. Dispatchers
bracket a request with SetContext and ClearContext; resolvers set, resolve and clear with a defer;
callers are agent calls: `ShouldRoute`, `pickAuto`, the call, the fallback, `RecordDecision`. Each
critical section is one step. A nil dereference is a panic: it ends the goroutine, runs its
defers, and leaves the mutex as it was.

`SharedContext` adds three history variables, since one context serves all requests: `orphans`,
the contexts of dispatches that panicked since the last ClearContext; `overtaken`, the requests that
met a ClearContext between their ShouldRoute and their pickAuto; `disturbed`, the resolves during
which another request has set or cleared the context. Its properties say what a request may rely on
when none of this has happened to it.

### Dispatch and SseContract

A request goes through its prompt, admission, execution and its answer, each step nondeterministic
over what the service can do (`Trouble` names the kinds of trouble enabled). `Final` says what each
way of answering stores as the run's final text. What precedes admission, the roster and the
retrieval, is in `RosterRAG`; how long the prompt of a follow-up is, in `Continuation`. For a
stream the events go through two buffers: what the service has sent, and what was written but not
flushed. A follow-up is built on the latest run (`base`). The client may send it at the event
`done`, before the handler has stored the run and the response has ended; such turns are `early`.
`SseContract` is the abstract specification: one `session`, then tokens per agent, `agent_done`,
and a final `done`, or an `error`; a stream that breaks off is followed, once, by another such
sequence on the same response. The refinement maps the events the client has received onto it
(`KeepsContract`), and `broken` onto its variable of that name.

### RosterCache and RosterRAG

Discrete time. A roster is known by the moment the registry served it, so staleness is a
difference of two clock values. `RosterRAG` gives these moments their contents: a `history` says
which agents opt in at each of them, with which `rag_top_k` and kinds. A dispatch is parsed, calls
`Roster` (`Dispatch`), merges what it returns into the request and retrieves memory (`Remember`),
and retrieves documents (`Documents`); `out` is what the blocks show and to whom. Handlers share
nothing here but the cache, so one of them is followed through its dispatches, and of the others
only their calls to `Roster` are kept. The rag service answers with any chunks of the kinds it was
asked for, no more than it was asked for; `Retrieve` filters them by distance.

### TextLengths, Continuation and Synthesis

Texts are their lengths, and what is counted is exact: headings and markers have the lengths they
have in the code, down to the digits of the count in "[...compacted: omitted %d chars...]", for
texts below 10^10 bytes. In `Continuation` the requests of one session follow each other: `Ask` and
`FollowUp` fix the prompt a request runs on; with a budget below 0, which `policyInt` lets through,
`trimBlock` panics (`FollowUpPanics`), and `net/http` drops the request, with nothing stored and no
mutex held. `Answered`, `Relayed` and `Replayed` are the three ways in which a run is stored, with
the compaction of `AppendRun` (`Evictions` for any order of scores, `Fold`). A run stored by the
stream fallback holds its agents as a `map[string]string`, which `BuildContinuation` does not read
until the document has been through the file: `decoded` says so, and `Reload`, a restart, makes it
TRUE. `SessionStore` has the same operations under concurrency, without the lengths.

`Synthesis` follows one `ReducePairwise`, a call of the synthesizer a step, with the set of
contributions that have come into each block (`from`) and the length of each block's label: the
agent's name, or `merge_rN_M`. `Assembled`, `Joined` and `AssembleFit` are `assembleFit` before,
without, and with its last cut. The code gives up after 64 rounds, which takes 2^64 contributions.

### AgentStream

`body` is all the engine sends, as cells: a newline, the prefix `data:`, a payload, anything else.
A read takes any number of cells, so a chunk may end inside a line or between the two newlines of
a blank line. `DrainFrame` is one round of the loop in `feed`, `Drained` its end and the check of
`done`, `Flush` the rest. The watcher goroutine and the client that leaves are steps of their own.
What each line means is decided by its own cells (`IsPayload`), so that the reference the frames
are compared with, `Deltas` of everything received, does not depend on frames or chunks.

## 3. What the checks show

All constants of the runs are in the cfg files. `MaxRows`, `MaxEpisodes`, `MaxLessons`,
`MaxClock`, `MaxRuns`, `LogCap`, `MaxTokens` and `MaxTurns` cut off counters the code does not
bound (or, for `LogCap` and `MaxLessons`, bounds by a larger number); each appears as a guard.
`MaxTopK` stands for the code's 20.

### Runs that hold

| run | instance | shows |
|---|---|---|
| HistoryOverlap | two writers, 4 rows, crashes and a failing disk | an acknowledged row only goes in a crash after an overlap that no undisturbed save has mended; such a save leaves the whole log in the file; the store implements `EpisodicLog` |
| ReflectConcurrent | scheduler and a poster, two episodes, a cap of one, a failing disk; fair | the file agrees with memory under overlapping saves; the ticks reach the end of the log |
| ReflectCrash | scheduler and a poster over an existing log; crashes, disk and cursor faults everywhere | nothing is skipped although log and cursor are saved independently, unless the log comes back shorter than the cursor; nothing a saved cursor covers is reflected on again |
| Session | two handlers, three runs of one session, some of the stream fallback; crashes and failing saves | no run is lost but by a failed save; none is handed off twice; the latest stays; the budget is kept; the file follows memory |
| Router | a sequential dispatch that may panic, a flat resolve, an agent call; two agents, one of which cannot run on its own engine | only a panic lets a context outlive its request; only a context cleared by another request leaves the router locked; an undisturbed resolve is decided under its own context; decisions and audit log agree |
| RouterLive | a dispatch and an agent call; agents that leave the choice to the router, `null` answers, services that may never answer; fair | every request ends, waits for a service, or finds the router left locked |
| Dispatch | a stream and a request, and a turn that follows up on both; refusals, breaks, empty and `null` answers, clients that leave; fair | a follow-up sees the runs it follows; runs are answers; failures reach the client; the client sees a sequence the contract allows; requests end |
| RosterRAG | a dispatch after another beside a second caller; agents that opt in and out; a slow or failing registry and rag service; fair | documents reach the agents that opt in, and nobody else; the cache serves nothing beyond its time to live and never goes back; every dispatch gets past its preparation |
| AgentStream | 219 bodies of up to three lines, cut anywhere; an engine that refuses, finishes, breaks off or hangs; fair | chunks do not show; deltas are delivered at once; `[DONE]` or the client's leaving ends the stream; no goroutine stays |
| Budgets | conversations of three turns and reductions of up to three contributions, with texts on both sides of every budget | a continuation exceeds its budget by 114 bytes at most; its instructions, its follow-up and some of the previous answer are left; what is reported as uncut is whole; the summary is bounded; a merge shows both contributions; every contribution is in the result |

### Why the bounds are enough

Two writers are enough for the overlap of saves, because a save concerns only its own text and
the file: a third adds a tail of the same kind (the theorem FileNeverInvents covers any number).
Four rows hold two episodes and the bookkeeping rows of two ticks, so that a tick begins while
another's row, or a post, is still being saved. Three runs of sizes one and two against a budget
of two are the smallest instance in which a run is dropped, kept for its score, and dropped with a
tie; the fourth text, of the stream fallback, grows over a restart to the budget. A dispatch, a
resolve and an agent call put every pair of critical sections of the router between each other's;
an audit log of one entry is at its limit at once.

In `RosterRAG` a time to live of two against a timeout of one has calls on both sides of expiry
and of each other's requests, and a clock of four leaves room for two periods. The histories have
an agent that opts in, one that opts out, and one that replaces another; the bodies a caller that
asks for nothing, one that asks for all agents, one that names the agent that opts in, and one
with limits of its own; the chunks are on both sides of the distances asked for. The proofs cover
every history, body and time to live.

Three lines in one or more frames, with a cut at every cell, include every way a chunk can end
relative to a line, a blank line, and the end.

In `Dispatch` a turn that follows a stream and a request of the other route has every order of
their runs, their answers and its own prompt, with every failure in between.

In `Budgets`, prompts of 50, 1000 and 9000 bytes lie below and above every budget for a follow-up
(the default policy of 24000 characters, 2000 tokens, 8000 characters with two sections, 350, which
just holds the instructions, 220, which is below the 256 from which a cut has a marker, and one
below 0); answers fit, have to be cut, or are empty;
a summary of 5900 is one digest away from its cap. Three turns reach the state in which the first
run has been evicted into the summary and the follow-up is built on what is left, with a restart
at any point. For `Synthesis`, the overrides and windows give the floor, the small window, the
fallback for an unknown one and a large one; the requests from 640 to 670 bytes put the overhead
on both sides of the cap, where the floors of 128 and the markers matter; two and three
contributions have a round without and with an odd one. What holds in this run is proved for all
lengths, policies and contributions (section 4).

In `Session` the two handlers are interchangeable, and the symmetry set says so; the run has no
liveness property.

The type invariants of the other modules (`TypeOK`, `RTypeOK`, `STypeOK`) and the invariants of
the proofs (`OIndInv`, `CursorInv`) hold on the instances above as well. So do `RosterRAG!RequestWins`
and `BackendRouter!RecordedRunnable`, which are proved for every instance (section 4). They are left
out of the cfg files.

### Runs that find a divergence

Each checks a statement of the repository, and TLC shows a behaviour of the code that contradicts
it. `PROJECT.json` "findings" quotes the statement.

| run | divergence |
|---|---|
| HistoryWatermark | an older text is written after a newer one: an acknowledged row is gone after a restart |
| RouterStuck | the context is cleared between ShouldRoute and pickAuto; the panic leaves the router locked for good |

### Further divergences

These were found with the same modules. The property is stated in the module; the instance in the
last column, a change to one of the runs above, makes TLC produce the trace.

| property | divergence | instance |
|---|---|---|
| `HistoryOverlaps!SavedWhenSettled` without `overlap = "none"` | overlapping saves leave an older text, or a file that does not parse and makes the next start fatal | HistoryOverlap, without failing writes |
| `Reflection!TransientRetried` | an outage is answered with text, so its window is skipped like unusable output | ReflectConcurrent |
| `Reflection!NoEpisodeSkipped` without `~behind` | a log that comes back shorter than the cursor: the clamped cursor passes what is appended next | ReflectCrash |
| `Reflection!OnlyWindowRepeats` | "we may re-reflect this window after a restart" (`scheduler.go:111`): a failing write of the cursor has already truncated its file, so the whole history, not the window, is reflected on again, without a restart | ReflectCrash, `Faults = {}` |
| `SessionStore!NoRunLost` | a save that fails loses the runs it evicted: they have left the document and the hook is skipped | Session |
| `SessionStore!LatestRunKept` | runs of one millisecond share an id; dropping one drops both, the latest included | Session |
| `SessionStore!FreshSessionsDistinct` | two clients without a session id get the same one in the same millisecond | Session, `Asked = {Fresh}` |
| `SessionStore!AllTextBounded` | agents stored by the stream fallback do not count towards the budget until the document has been reloaded | Session |
| `BackendRouter!CtxNonNilInPickAuto` | the nil context of RouterStuck, as a state | RouterStuck |
| `SharedContext!AlwaysUnderOwnContext` | a resolve is decided under another request's context, or as if there were none | Router |
| `BackendRouter!FallbackSupported` | the fallback backend is one the agent does not support | Router, `Agents <- MCOddAgents` |
| `SharedContext!ContextNeverLeaks` without `orphans` | a dispatch that panics on a `null` answer never clears its context | Router |
| `Dispatch!FollowupSeesRun` for the turns in `early` too | a stream's `done` is sent before its run is stored, so a prompt follow-up misses it | Dispatch |
| `Dispatch!SessionFirst` | a relay that breaks off is followed by a second stream on the same response, so `session` (first, `spec/sse-events.md:9`) comes twice | Dispatch, one stream, `Trouble = {"breaks"}` |
| `Dispatch!NoFabricatedRun` | an answer without a final text is stored with the prompt in its place | Dispatch |
| `Continuation!WithinBudget` | "trimmed to the policy's char budget" (`context.go:13`): a heading and two markers come on top | Budgets |
| `Continuation!AnswerShown` | a follow-up to a relayed stream shows no previous answer, since nobody has read it | Budgets |
| `Continuation!UnusedMeansUncut` | the compaction a client is told of is silent when lines of another agent's answer are cut (`firstLines` after three lines, `context.go:84`): "used" is false and the prompt says "[...compacted...]" | Budgets |
| `Synthesis!FooterKept` | "preserving the fixed prefix/headers/footer" (`assemble.go:10`): the floors of 128 and the markers push the prompt over its cap, and the last cut takes the end of the footer | Budgets |
| `RosterRAG!OptInEnables` | "RAG is enabled" for any agent of the roster that opts in (`mergeRosterRAG`): not when the caller has named all of them already | RosterRAG |
| `RosterRAG!AskedForAll` | "Request-level intent wins": a request for RAG that names no agent, so means all of them, is narrowed to the agents of the roster that opt in | RosterRAG |
| `RosterCache!StaleBounded` | a cached roster is served however old it is while the registry is down | RosterRAG |
| `RosterCache!WaitBounded` | callers queue behind each other's timeouts | RosterRAG |

More need no run:

* `handleAgentStream` writes the same `[DONE]` after a stream that broke off
  (`AgentStream!Finish`), so its client cannot tell a cut answer from a whole one.
* The template tokens that `Stream` strips from the text it returns have by then been sent as
  deltas; the handler ignores the returned text.
* `rag/client.go:26` promises at most TopK chunks in order of relevance. `Retrieve` only filters
  by distance: number and order are the service's.
* A continuation can change over a restart: the agents of a run stored by the stream fallback are
  read only after the document has been through the file.
* "Original user request" is the prompt of the oldest run that is left, which after an eviction is
  not the session's first.
* A negative `max_context_chars` is taken over (`tokens.go:36`) and makes `trimBlock` panic; the
  request is dropped (`Continuation!FollowUpPanics`).
* The same chunk may be shown twice, as memory and as document.
* `main.go:80` says that the scheduler drains on shutdown, but `main` does not wait for a tick.

### Fairness

* The steps of a goroutine that holds a mutex or waits for nothing are weakly fair: the Go
  scheduler is preemptive.
* Taking a mutex is strongly fair: a Go mutex hands itself over to a waiter that has waited a
  millisecond, so it starves nobody.
* Requests to the kvpool and the registry (2 s), to the rag service (12 s), to a mode service
  (120 s) and to the relay (600 s) have client timeouts, so each ends, with an answer or without.
* Direct agent calls have no timeout of their own in `agent/client.go`. `SharedContext!LiveSpec`,
  of run RouterLive, assumes of no service that it answers; `FairSpec`, where all do, only serves
  run RouterStuck, to show that requests hang although nothing else is in their way. `Reflection`
  assumes that the reflector's call returns: `CatchesUp` is about the ticks. `AgentStream` assumes
  nothing of the engine: not that it connects, sends, or ends. It assumes only that a request whose
  context is cancelled returns, which `net/http` documents.
* Arrivals, faults, crashes and clients that leave have no fairness.

## 4. What is proved

TLAPS checks the following for every number of writers, every log and every bound.

* `HistoryStoreProofs!TypeCorrect`: `Spec => []TypeOK`.
* `HistoryStoreProofs!FileNeverInvents`: `Spec => []FileAgrees`. The inductive invariant
  `IndInv` adds that every text a goroutine still carries agrees with `rows`: the log only
  grows within a life of the process, so a text marshalled earlier stays a prefix, and overlaying
  one such text on another keeps each row at its index.
* `HistoryStoreProofs!AcknowledgedStay` and `LoneSaveMends`: `OSpec => []PromisesKept` and
  `OSpec => []SavedWhenSettled`, for any number of writers. `OIndInv` adds to `IndInv` that outside
  an overlap at most one call is in progress, that its text is the whole log, and that the file it
  has truncated stays empty until its own write (`OneCall`); and that when nothing is left to mend
  the file, if it loads, holds every promised row (`Settled`).
* `HistoryStoreProofs!StoreImplementsLog`: `OSpec => ImplementsLog`, for any number of writers.
  `StepIsLogStep` maps each step: `AppendRow` extends the abstract log, a save that succeeds
  acknowledges, `Start` serves, and a crash forgets the rows the file does not hold or, when the
  file does not load, loses the log (`CrashForgets`). That a calm log forgets no acknowledged row is
  `Settled`.
* `ReflectionProofs!NothingSkipped`: `RSpec => []NoEpisodeSkipped`, through crashes, outages and
  failing writes of either file. `CursorInv` ties the saved cursor, the one about to be saved, and
  the rows that were taken; while the process is down it says the same of the file, which the next
  start loads. The step from the one to the other is `FileAgrees`, so the proof uses `IndInv` of
  the log: every step of reflection is a step of the log or leaves it alone (`StepIsStoreStep`).
  The one start it excludes, from a log shorter than the cursor, is recorded by `behind`.
* `RosterProofs!RosterIsFresh` and `RosterNeverGoesBack`: `Spec => CachedIsFresh` and
  `Spec => NeverBackwards`, for any number of callers, any time to live and any timeout.
  `CacheInv` relates the moment of a roster to the moment it was fetched, and every roster that
  was returned to the one in the cache.
* `RosterProofs!DispatchesUseRoster`: `RSpec => Spec`: dispatches drive the cache through its own
  steps, so the invariant of the cache holds under them. On it rest `OptInReachesAgents`
  (`RSpec => []OptInReaches`) and `OnlyTargetsAreShown` (`RSpec => []OnlyTargetsSee`).
  `DispatchInv` says at each step of a dispatch by which rosters it goes, and that its request is
  its body merged with one of them. `OptInReaches` excepts the agents a body names without asking
  for RAG, which the roster does not turn on (`OptInEnables` is the divergence of section 3).
* `RosterProofs!CallersRequestWins`: `RSpec => []RequestWins`, for every roster, body and index of
  finitely many chunks. `AskedInv` says that the documents of a prepared dispatch are an answer to
  its merged request, and `MergeKeeps` what of the body the merge leaves alone.
* `ReflectionProofs!FinishedStayFinished`: `RSpec => FinishedNotRepeated`, when the logs a first
  start may find hold each episode once; through crashes, outages and failing writes of either file.
  `RepeatInv` says that no finished episode stands beyond the saved cursor, in memory or, while the
  process is down, on disk. It uses `FileAgrees` where a
  start takes its rows from the file. That a save of the cursor that is cut off takes back what was
  finished is what the divergence `OnlyWindowRepeats` shows (section 3).
* `BudgetProofs!SummaryStaysBounded`, `ContinuationStaysBounded` and `UnusedIsWhole`:
  `Spec => []SummaryBounded`, `[]ContinuationBounded` and `[]UnusedMeansWhole`, for all lengths,
  policies and numbers of turns. `ContInv` keeps the summary within its cap and a marker, types
  the runs, and says of the prompt under way how it was built. The bounds rest on lemmas about
  `TrimBlock` (at most its limit and a marker of 47 bytes) and `Fold`. `UnusedMeansWhole` excepts the
  lines after the third of another agent's answer, whose cut the code reports to nobody.
* `BudgetProofs!InstructionsAreWhole`: `Spec => []InstructionsSurvive`, for all lengths, policies and
  numbers of turns. When the whole is cut, at least three quarters of the budget are left for it
  (`QuarterLeft`), and two thirds and one third of that for its head and its tail, which hold the
  preamble and the closing line when the budget has 350 characters (`EndsAreLong`, `KeptByParts`).
* `BudgetProofs!AnswerIsShown`: `Spec => []AnswerSurvives`, for all lengths. What comes before the
  previous answer takes at most a third and a fifth of the budget, two headings and two markers
  (`FinalStartBounded`), and the cut keeps two thirds from the front (`HeadReaches`), so that with
  8000 bytes the cut falls behind the beginning of the answer.
* `BudgetProofs!ReductionLosesNothing`: `YSpec => []ReductionComplete`, for any number of
  contributions. `RedInv` says that the blocks of this round and of the next were made from all of
  them, and that each call has taken one block away; the reduction of one is called for once.
* `BudgetProofs!MergesShowBoth`: `YSpec => []MergeShowsBoth`, for any request, lengths, windows and
  overrides. A cap is 1024 bytes or more (`CapsAreLarge`); the first contribution's share is no
  more than the room there is, or 128 (`AllocBounded`, where a share is a quotient of products);
  so in each of the three ways a prompt is fitted, what stands before the last contribution leaves
  room for its first 60 bytes (`BodiesStart`). The hypothesis is on the names of agents, which come
  in full before each contribution: at most 100 bytes. No budget of the code covers them; a name as
  long as the cap would leave no room for anything else. `SmallSums` is about the library's
  sums over a pair.
* `BackendRouterProofs!RequestsTyped`: `Spec => []RequestInv`: at each station of a request what
  its locals hold; the next five rest on it.
* `RecordedDecisionsRunnable`: `Spec => []RecordedRunnable`, for any agents, those that cannot run on
  their own engine included. `Runnable` follows a decision from the ladder over the override, the
  probes and the fallback to the record.
* `SnapshotMatchesLog`: `Spec => []DecisionsMatchLog`, for any cap of the log.
* `NoContextLeaks`: `CSpec => []ContextNeverLeaks`, `null` answers included. A context that is set
  belongs to a request inside its bracket, and a step that leaves the bracket either clears the
  context or is the panic that makes it an orphan.
* `OnlyTheRaceSticks`: `CSpec => []StuckOnlyByRace`. ShouldRoute has seen a context, no step but
  ClearContext takes it away, and one that does so counts everybody who stands before pickAuto as
  overtaken.
* `ResolvesUnderItsContext`: `CSpec => []ResolvedUnderOwnContext`. `Alone` says that the context of an
  undisturbed resolve is its own at each of its critical sections. It is said of a router without
  latency samples, which bias every choice and come from calls that have nothing to do with it.
* `DispatchProofs!DispatchTypes`, `RunsAndAnswersAgree` and `FailuresAreLoud`: `Spec => []TypeOK`,
  `[]RunsAreAnswers` and `[]FailureIsLoud`, for any number of JSON requests and streams, any
  trouble and any client that leaves. `DispatchInv` says for each place of a handler what its
  client has been sent or will be (`Trail`: what is written, held in the relay, and still to do),
  and whether its run is stored and its failure published.
* `DispatchProofs!FollowupsSeeRuns`: `Spec => []FollowupSeesRun`, for JSON requests, relays and
  replays before the turn. A response that has ended with an answer has its run stored, whichever
  way it went; a turn that did not wait for that is one of `early`, of which the divergence in
  section 3 tells.
* `DispatchProofs!RefinesContract`: `Spec => KeepsContract`, step by step, breaks included.
  `OrderInv` says that what a client will have been sent is in an order the contract allows: one
  sequence, or for a broken stream the beginning of one and another (`AllowedJoin`, `AllowedPart`).

* `SessionStoreProofs!SessionTypes` and `SessionsAreSaved`: `SSpec => []STypeOK` and
  `[]SessionsSaved`. `SessInv` says which handler holds the mutex, what each handler carries, and
  that no two have the same run. The theorems about sessions take one hypothesis,
  `Run \subseteq Entry`: runs are what the hook appends to the log, so `IndInv` of the log holds
  under the sessions as well (`LogStep`).
* `NothingElseIsLost`: `SSpec => []NoOtherRunLost`. `Compacted` says that compaction splits the
  runs of a session in two, with none lost and none doubled; `FoundStays` that, while the process
  is up, no step takes a run out of all places at once.
* `LatestRunStays`: `SSpec => []LatestRunKeptUnlessClash`, over crashes and restarts. `LatestInv`
  adds that until its save is done nobody touches the document of a run, and that the file has
  what the document has.
* `EvictedRunsOnce`: `SSpec => []HandedOffOnce`, when the logs a first start may find hold none of
  these runs and none twice. `OnceInv` gives every number one place among the sessions, the
  handlers' evicted runs and the log, and nowhere a number that no AppendRun has used; it keeps
  `sessions.json` free of the numbers that are in the log or on their way to it, which is what the
  next start relies on: a run goes to the hook only after the document without it is on disk.
* `WorkingSetStaysBounded`: `SSpec => []WorkingSetBounded`, for any scores, sizes and ids.
  `FitInv` says it of the document in memory and of the one on disk; `KeptFits` that compaction
  establishes it: of the runs it keeps, all but the latest, the weakest was kept because the rest
  was still within the budget with it, and the rest is all that is kept. What is counted is the text
  compaction reads; a restart adds the agents of stream fallbacks to it, and nothing else, until the
  next AppendRun brings the whole back within the budget (`CountedEnough`, `FitsReloaded`).
  Sums are the library's: `SumExists` solves their recursion, by induction over the size of a set,
  and `SumPick`, `SumSubset` and `SumReindexed` are what is used of it.
* The lemmas about `SelectAt` (`InOrderExists`, `Selected`) need an induction over the indexes.
  The induction theorems of the library take an operator, so `Induct` states induction for a set,
  from the well-foundedness of `<`.

* `AgentStreamProofs!StreamTypes`, `ChunksDoNotShow` and `NothingWaits`: `Spec => []TypeOK`,
  `[]ChunkingIsInvisible` and `[]DeliveredAtOnce`, for any set of bodies over the cells, every way
  of cutting them and any fault. `StreamInv` says that what was read is in two parts: cells up to a
  blank line, whose deltas the client has, and the buffer. Each frame moves that line on: `Deltas`
  and `HasDone` can be taken apart behind a newline (`SplitAtNewline`), and a newline at the end of a
  text tells nothing (`NewlineAtEnd`), so the frame without its blank line has the same deltas.
  `Deltas` is a recursive function over the cells; `WalkExists` solves its recursion by `Induct`,
  and all three lemmas compare two such walks (`WalkShift`).

Only model-checked: every liveness property (`CatchesUp`, `EndsOrWaits`, `RequestsEnd`,
`PreparationEnds`, `LeavingEndsStream`, `DoneEndsStream`, `WatcherIsGone`), since TLAPS reasons
neither about fairness nor about ENABLED. Every invariant and action property that a passing run
checks has a theorem.

## 5. What is not modelled

* the texts of prompts, digests and answers, the shapes of JSON documents, logging, metrics;
  `Salient` and the importance scores, which read words (`SessionStore` and `Continuation` let the
  scores put the runs in any order);
* `StampMeta`, which annotates an answer; the rag service's `HealthCheck` and the rendering of
  blocks; the rest of the envelope;
* the message bus (`agent/bus.go`): the same three outcomes of a call through another URL,
  without state;
* `compat`: stubs and proxies without state; `main` beyond the order of start-up and the end of
  the process; the reflection scheduler's start-up configuration and the dispatcher's
  self-registration, which run once and keep no state;
* All, Search, Count and the snapshots, which only read under a mutex;
* `legacy/cpp`: not built.

## 6. Plan

Done: the log first, because the scheduler and the sessions write to it; then the router and the
dispatch handlers; then the roster and the agent stream; then the abstract log, retrieval, the
budgets of continuations and syntheses, and the proofs about them. Then the proofs about the
router, the dispatch handlers, the roster, the budgets, the reductions, the sessions and the
stream; last, what overlapping saves, a shared context, broken streams and failing cursor writes
leave of the promises, in place of theorems that excluded them.

Next, in this order:

1. What the liveness properties rest on and TLAPS can state: the measures that the steps of
   `Synthesis`, `RosterRAG` and a single handler of `Dispatch` decrease.
2. `MergesShowBoth` with the names of agents in the bound, in place of its hypothesis on them.
3. The bus variant of the agent call and the relays of `modes` as modules of their own.
