# A TLA+ development of go-symphony

go-symphony polls an issue tracker, starts one coding-agent run per eligible
work item, and keeps retrying, reconciling and stopping those runs as the
tracker changes. This directory models the parts of it whose behaviour depends
on order, timing and failure, and checks them with TLC. Every safety invariant the
passing runs check, and every action property, is also proved with TLAPS for all values
of the constants. Paths are relative to `src/`.

## The system

| Part | Source | State | Operations | Module |
| --- | --- | --- | --- | --- |
| Poll loop | `internal/orchestrator/service.go`, `state.go` | next poll time, checking flag, poll nonce, two timers | tick, cycle, refresh request, close | `PollLoop` |
| Scheduler | `internal/orchestrator/state.go` | claimed, running, retrying maps; retry timers | dispatch, worker events, due retries, stall recovery, reconciliation | `Scheduler` |
| Host selection | `internal/runner/host_selection.go` | none | choose a host for the loads it is given | `HostSelection` |
| Worker manager | `internal/cli/runtime.go` | run handles, one goroutine per run | start run, stop run, close | `Runtime` |
| Runtime assembly | `internal/cli/runtime.go`, `main.go` | the parts above | start-up step by step, interruption, shutdown | `Runtime` (partly) |
| Workspace lifecycle | `internal/workspace/manager.go` | directories on local or remote disks | create, hooks, remove | `Workspace` |
| Codex session | `internal/codex/session.go` | one child process, one thread id | bootstrap, run turn, answer requests, close | `CodexSession` |
| Linear tool bridge | `internal/toolbridge/linear/bridge.go` | none | one HTTP request per tool call | `LinearTool` |
| Config store | `internal/config/store.go` | last known good snapshot | poll for changes, reload, change path | `ConfigStore` |
| Tracker readers | `internal/trackers/linear`, `internal/tracker` | none | list candidates, list by state, refresh by id | `LinearReader` |
| Settings and workflow parsing | `internal/config/settings.go`, `workflow.go` | none | parse, default, resolve, validate | `Settings` |
| Dispatch rules | `internal/orchestrator/state.go` | none | candidate order, backoff delay | `DispatchPolicy` |
| Execution host | `internal/runner/execution_host.go` | one child process | run a command locally or through ssh | `ExecutionHost` |
| Token totals, dashboard, web pages | `internal/orchestrator/state.go`, `internal/observability`, `internal/web` | totals, token samples | apply a report, project a snapshot | `Observation` |
| HTTP API, live renderer, workflow selection, logging, verification command | remaining packages | none | conversions and I/O | none |

How they interact. The poll cycle and the retry callbacks of the orchestrator
call the tracker and the worker manager (`StartRun`, `StopRun`) while they hold
`service.mu`. Every worker is a goroutine that creates a workspace, runs a Codex
session turn by turn and reports through `ApplyRunEvent`, which waits for the
same mutex. `StopRun` cancels the context of a worker and closes its session but
does not wait for its goroutine. Timers are `time.AfterFunc`: a callback that has
fired and waits for the mutex cannot be recalled by `Stop`, which is why polls
and retries carry nonces. The config store has a mutex and a ticker of its own.
HTTP handlers read snapshots and request refreshes; page requests share one
projector, which they lock after they have taken their snapshot. The tool calls of a
session run in the bridge, with the context of the run.

What makes each part correct:

- poll loop: polling never ends by itself, cycles never overlap, late callbacks
  do nothing, an accepted refresh is followed by a cycle that began after it;
- scheduler: the three maps, the timers and the started workers agree after
  every handler; no claim leaks; no retry is lost or served early; no path starts
  a run beyond a limit; the attempt number survives everything but a completed
  run; nothing starts after close;
- host selection: rejects only when every host is full, never exceeds a limit;
- worker manager: a tracked run still has its last event to deliver, an event
  belongs to the run that is tracked, stopped runs end, closing leaves none behind;
- workspaces: a tracked run keeps its directory, a prepared directory
  is reused, `after_create` succeeds before anything runs, swept is gone;
- Codex session: turns agree on both sides, every server request is answered once
  or fails the turn, timeouts and cancellation end every wait, no process stays;
- config store: readers see the last valid snapshot, fresh, whatever the file does;
- tool bridge: what the agent is told of a tool call is what became of it;
- settings: what is served is within its ranges, whichever way a document is read;
- execution host: a command runs in its directory on its host, returns after its
  deadline, and its result is the truth;
- totals and pages: every run counts once, an idle system shows no throughput;
- tracker readers: an answer collected in parts misses nothing that was there.

## Modules

| Module | Models | Depends on |
| --- | --- | --- |
| `HostSelection` | the decision of `HostSelection.Select` as operators | |
| `PollContract` | what the poll loop promises, without timers or nonces | |
| `PollLoop` | poll timer, tick, transition timer, cycle, refresh, close | `PollContract` (refinement) |
| `Scheduler` | `schedulerState` and the retry timers | `HostSelection` |
| `Orchestrator` | both around one mutex | `Scheduler`, `PollLoop` |
| `Runtime` | worker goroutines with identities around the scheduler, start-up and shutdown | `Scheduler` |
| `Workspace` | directories, hooks and clean-up, access by access | |
| `CodexSession` | session, turn loop and child process against an external server | |
| `LinearTool` | the tool bridge below it, with requests and replies that get lost | `CodexSession` |
| `ExecutionHost` | one command, its shells, processes and deadline; quoting and host names | |
| `Observation` | token totals of successive runs, overlapping page requests | |
| `DispatchPolicy` | candidate order and backoff delay as operators | |
| `Settings` | what a workflow document means, as operators | |
| `ConfigStore` | reloads, access by access, of files that change | `Settings`, `DispatchPolicy` |
| `LinearReader` | paging, batching, ordering and routing of the Linear reader, and the filter around it | |
| `LoopTheorems` | lemmas on loops: induction over numbers and over sequences | |
| `SchedulerProofs` | theorems about host selection and the scheduler | `Scheduler` |
| `CompositionProofs` | about the service, its poll loop and the process | `Orchestrator`, `Runtime`, `SchedulerProofs` |
| `WorkspaceProofs` | about directories | `Workspace` |
| `ConfigStoreProofs` | about the store, its settings, the backoff delay and the candidate order | `ConfigStore` |
| `LinearProofs` | about sessions, tool calls and the Linear reader | `LinearTool`, `LinearReader` |
| `ExecutionHostProofs` | about commands, quoting and host names | `ExecutionHost` |
| `ObservationProofs` | about totals and pages | `Observation` |
| `SchedulerMC`, `OrchestratorMC`, `RuntimeMC`, `WorkspaceMC`, `ConfigStoreMC`, `LinearReaderMC`, `ExecutionHostMC`, `ObservationMC` | constants for TLC | |

Definitions marked "Altered" are deliberate changes of the definition that
follows, one per checked property; substituting one makes TLC report that
property. No specification uses them.

### Correspondence

**Mutex.** A handler that takes `service.mu` is one step. The poll cycle keeps
it across tracker and worker calls while timers fire and time passes, so in
`Scheduler` it is a sequence of stages (`stage`: stalled, running, list,
dispatch) during which no other handler is enabled; `stage = "idle"` is the
mutex being free. In `PollLoop` the same interval is `busy`; `Orchestrator`
substitutes `stage # "idle"` for it. A retry callback also calls the tracker
under the mutex, but changes nothing visible in between, so it is one step.

**Timers.** A timer is armed (`pollTimer`, `cycleTimer`, `armed`), then fired and
waiting (`ticks`, `cycles`, `fired`), then run. `Stop` acts on armed timers only.

**Nonces.** The code counts them up in 64 bits and compares them for equality
only. A new nonce in the model is one that no armed timer, waiting callback or
entry refers to; wrap-around after 2^64 is left out. The code draws some poll
nonces that no callback ever carries (`finishPoll`, `requestRefresh`); one new
name stands for both draws.

**Time.** Delays are not modelled: an armed timer may fire at any moment. A run
is `quiet` once its last activity is older than the stall timeout. `nextPollAt`
is none, due or later than the wall clock; it has lost its monotonic reading
(`UTC()`), so a clock change can separate it from the timer (`ClockSetBack`).

**Tracker.** In `Scheduler` each call is answered by a choice among `View` and
`Missing`. A view keeps what the scheduler looks at: the state, whether the item
is routed here, and whether it is ready (required fields present, no open blocker
of a Todo item; `isRetryCandidate` asks for both at once). A failed listing is an
empty one; failed refreshes are `ReconcileRefreshFails`, `SkipCandidate` and
`Postpone`. Candidate order is any order. `LinearReader` looks at how such an
answer comes about: each page or batch is one request, and issues change between
requests. Linear lists issues in a fixed order (the numbers of `Issue`), a cursor
is the last issue listed.

**Workers.** In `Scheduler`, `workers` is what the scheduler believes: the items
whose worker was started, has not reported its end and was not told to stop. It says
nothing of goroutines that work on untracked. An event may come from any run of the
item and carries the host of that run, which becomes the host of the entry
(`HostAfter`). `Runtime` has the goroutines themselves: runs
are goroutines with identities (`work`), `handle` is the handle in the running
entry, `handles` the map of the worker manager, which is keyed by item. A
goroutine that was stopped goes on from wherever it was; its events still find
the entry of the item. `emit` is nil until `SetEmit`; events before are dropped,
and `lost` remembers tracked runs whose last event was.

**Runs in detail.** `Runtime` has a run in phases (creating, preparing, session,
turn, refreshing, leaving, reporting, exiting). `Workspace` has the same run
between `Create` and `after_run` with every access to the disk as a step, and
`CodexSession` has the body with every line as a step.
In `Workspace` several runs may be at one directory, of which the scheduler tracks one
at most (`tracked`); the others were stopped, or lost their entry to the report of another
run. On a worker host a command may outlive the call that started it, that of `Create`
(`detached`) as well as a removal (`late`). In `Workspace` a path holds
nothing, something that is no directory, a raw directory, or a ready one whose
`after_create` has succeeded; on a remote host each of the three steps of
`EnsureWorkspace` is a command of one script. In `CodexSession` lines are kinds
with an id; `inbox` is the pipe and the channel of the scanner together,
`outbox` the pipe to the server. A write that finds no room blocks with its line in
`writing` and sees no context (session.go:676), until the server reads or the pipe breaks.
Only the app-server itself is a process of the model, not what it starts.

**Start and shutdown.** `life` is the place of `StartRuntime` or `Close`, `open` what
has to be closed besides the service and the workers. The settings and the workflow
are two reads of the store (runtime.go:74 and 85), between which the file may change:
a start can combine the settings of one version with the prompt of another. Nothing
depends on it in the model, which has neither.

**Tool calls.** A tool call of `CodexSession` is a phase; `LinearTool` fills it with
the request to Linear (`request`), which may still run after its caller has gone
(`flight`). Only how often a document ran matters (`ran`). A document runs as a whole
or not at all: partial mutations of Linear are left out. A reply without errors is a
success, with data (`data`) or without (`hollow`).

**Config store.** Every access to the file is a step of a reload that holds the
mutex. A version stands for the content and carries a document; `Settings!Outcomes` is
the set of answers `ParseSettings` may give for it, which has more than one member
when spellings of a state collide, since a Go map decides which limit stays. The model
has one time and one size for all writes: then only the hash of the content tells two
versions apart, which is the hardest case for the comparison.

**Commands.** `ExecutionHost` has text as sequences of characters where the code
quotes or splits it; the shells are external and read it by the rules of POSIX. The
script of a request has one or two lines, each of which may leave a process behind
that holds the output.

**Observation.** The clock ticks, and everything past is an age. A report of a run waits
until it is applied, possibly after its run has gone and a later one has started.

**Attempts** from `MaxAttempt` on are counted as `MaxAttempt`.

## Runs

| Run | Question | Bounds |
| --- | --- | --- |
| `scheduler` | Do the maps, timers and workers agree under every interleaving, and can any path start a run too many? | 3 items, 2 hosts with one run each, 2 slots, one active state, attempts up to 2, 1 waiting callback and 3 nonces per item |
| `state_limit` | Does a dispatch respect the limit of the state it starts in? It does not. | 2 items, two active states of which one is limited to one run |
| `orchestrator` | Is polling safe and live, are retries served, silent runs stopped and refreshes honoured in the whole service, and does it implement `PollContract`? | 1 item, 1 slot, 4 poll nonces, 2 waiting ticks and 2 waiting cycles, 3 retry nonces, 2 clock set-backs |
| `runtime` | Does every run end properly, whatever fails and whenever it is stopped, does Close return, and does a failed start leave nothing open? | 1 item, 2 goroutines, 2 turns, attempts up to 1 |
| `runtime_isolation` | Do two runs of one item ever work at once? They may. | as `runtime` with 3 goroutines |
| `workspace` | Do overlapping runs and clean-ups keep their hands off each other's directories? | 2 items swept, 2 runs of one of them, local or 2 remote hosts, one stale path of each kind |
| `workspace_prepared` | Is a directory prepared before work starts in it? Not after a failed hook. | 1 item, 1 run, local |
| `codex` | Does the session keep to the protocol and end, and is what it says of tool calls true? | 2 turns, 2 server request ids (one of which equals the id of turn/start), 3 lines of lead |
| `config_store` | Is what readers get fresh, within its ranges and never older? | 2 files, 2 callers and the ticker, 2 versions, 4 documents, 8-bit durations |
| `linear_reader` | Is an answer collected in parts complete and in order? | 3 issues, pages and batches of 2, refreshes of 3 and 2 ids, all issues or one |
| `execution_host` | Do commands run where they should, return in time and tell the truth? | 21 directory names, 14 hosts and the local one, 1 or 2 lines, one process left behind per line |
| `observation` | Do totals count every run once, and do idle pages show nothing? | 2 runs of one item, usage up to 2, total up to 3, 2 overlapping requests, 2 ticks a second, window of 3, 3 samples |

Why the bounds suffice. A stale callback needs one entry and its successor: one waiting
callback and one armed timer need two nonces, and a third is left to draw; in the poll
loop two late callbacks meet, hence a fourth. `CapacityRespected` needs one item more
than slots, `HostFilledByEventsOnly` two items that meet on one host and another to fall
back on. Attempts 1 and 2 tell "kept", "advanced" and
"reset" apart. Only runs of one item meet in the worker manager, and one stopped
run and its successor are the pair whose handles and events can be confused;
confusing them twice takes the third of `runtime_isolation`. Workspaces of
different items meet only in the sweep, so runs are started for one item; at its directory
one run that is tracked and one that is not suffice. Two turns show what one leaves to the
next. In `config_store` a reload can meet one write only, but of either file, of any
document, and any number of deletions; with 8 bits the delay would wrap within the 12
attempts many times over. Two pages and two batches are the first case in which
something happens in between. Directory names of two free characters put a blank, a
quote, a backslash and a letter in every order. Two page requests are the first that
overtake each other, and the window is longer than a second and than the delay of a
request, as in the code.

Items, runs and paths are symmetric where a run declares symmetry; runs with
liveness properties declare none. Where a bound would stop a step (no fresh nonce,
too many waiting callbacks, no free goroutine name) the step waits; the runs check
deadlock, so the bounds never stop a system as a whole. The explicit steps `Over`
and `Aborted` are the ends by design. Only `execution_host`, which is one command and
ends with it, does not check it.

### Properties

*Service.* `PollingGoesOn` and `RetryNeverLost` say that whatever must still happen is
armed or waiting with the nonce its guard will accept; they are the invariants behind
the liveness properties. `OnePollAtATime` is the other half: there are never two.
`KeepsPollContract` is the refinement of `PollContract`, fairness included, by the
composed service. `RetryServed` and `SilentRunStopped` are liveness of the service.

*Scheduler.* `ArmedTimersAreCurrent` says that replaced entries leave no armed
timer. `MapsAgree` ties the maps and the workers together: a run has a claim and no
retry, a claim has a run or a retry, the workers are those of the runs.
`CapacityRespected` is the limit of all runs. `HostFilledByEventsOnly`: no path puts a run
on a full host, and only an event that moves an entry fills a host beyond its limit; see
below. `BackoffRespected`
(an entry of a claimed item goes only through its own callback), `LineageKept` (the
attempt falls only when a run completes) and `ClosedStartsNothing` are action
properties. `BackoffRespected` and `LineageKept` are about claimed items: when
`startRun` fails for a fresh candidate, `dispatchItem` leaves a retry entry without
a claim (state.go:245), and the next poll may dispatch the item again with
attempt 0. With the worker manager of `runtime.go` that happens only after close.

*Worker manager.* `NoRunLeftBehind`: a tracked run is at work, not stopped, and has
its last event still to deliver, or lost it in the start window. `NothingOutlivesClose`
(which covers a start that fails half-way), `CloseFinishes` and `StoppedRunsEnd` hold
although `unregister` may remove the handle of a later run.

*Workspaces.* `TrackedRunKeepsWorkspace`: whatever stopped runs, untracked runs and
clean-ups do meanwhile, the run the scheduler tracks keeps the directory it works in.
`ContentsKept`: only a clean-up takes a prepared directory away. Both leave out paths that
were no directory at the start and paths where a remote removal has outlived its call, see
below; each exception is needed, as TLC shows without it. `SweepComplete`: what the
start-up swept is gone on every host.

*Codex session and tool calls.* `TurnsAgree`: a turn reported as completed is the one
the server completed, though all turns share a request id. `RequestsAnsweredOnce`: every
request the server makes once it has answered turn/start is on its way, in work or
answered, once, and nothing else is answered; requests made before come in the run too.
`NoOrphanProcess`; `TurnsEnd` (the turn timeout ends every turn whose tool calls and
blocked writes end; without the second hypothesis TLC refutes it); `StoppedSessionEnds`
(cancellation ends the session, tool calls and blocked writes included).
`VerdictsAreTrue`: the document of an answer that shows data has run once, Linear is done
with one whose answer says success, a rejected one has not run and will not, and none runs
twice. One told to have failed may have run.

*Config store and settings.* `CurrentIsFresh`: a call of `Current` during which nothing
changed returns what is on disk if that is valid. `NeverGoesBack`: the snapshot of a path
never gets older. `CatchesUp`: a file that stays valid comes to be served.
`ServedSettingsAreSafe`: what is served meets the assumptions of its readers, whichever
way an ambiguous document was read. `RetryDelayIsCapped`: with the settings served, the
delay of a retry is base * 2^(attempt - 1) up to the limit, for every attempt.

*Linear reader.* `NothingMissed`: an issue that belonged in the answer during the
whole call is in it, once. `NoForeignWork`: what is routed here was assigned to us at
some time of the call.

*Execution host.* `ResultIsHonest`: a status comes from a shell that ended by itself,
status 0 means that the script came to its end, a timeout that the deadline has passed.
`RunsInItsDirectory` and `ReachesItsHost`: what two shells make of the quoted directory is
the directory, what ssh is handed is the host and the port of the setting.
`QuietAfterReturn`: nothing that writes to the pipe goes on in the local workspace after
`RunCommand`. `TimedOutReturns`: the caller returns after the deadline, provided that the
processes left behind end.

*Totals and pages.* `TotalsMatchReports`: the total is the sum of what each run has
reported, unless reports go down or reach a later run. `IdleShowsZero`: no throughput is
shown once no tokens have come in for the window, the time a request may hold its
snapshot and the rest of the second in which a rate is reused. Ages come from the wall
clock (`handler.now` has no monotonic reading), which the model takes not to be set back
while a sample lasts: after a set-back a page may show an old rate for longer.

### Disagreements between the code and what is said of it

Shown by runs that expect a violation:

- `StateLimitAtDispatch`. `processCandidates` checks the limit of the state the
  listing reported and dispatches the item as revalidated, whose state may be
  another, limited one. The trace lists two items as Todo, revalidates both as Doing
  and starts both though Doing is limited to one run, while
  `openspec/specs/runtime-orchestrator/spec.md:34` requires every dispatch to satisfy
  the concurrency gates. Due retries check the refreshed state.
- `RunsIsolated`. A run that is stopped while it creates its workspace reports the
  failure of the creation without a look at its context (runtime.go:462), and the
  event ends the entry of the next run of the item. That run works on, unstopped and
  untracked, while a third one starts in the same workspace; `README.md:5` speaks of
  isolated runs.
- `PreparedBeforeRun`. When `after_create` fails, the directory stays; the retry finds
  it, skips the hook and works there, while
  `openspec/specs/workspace-lifecycle/spec.md:38` calls the hook blocking and fatal.

Without a run, because the models exclude the case and say so:

- An event of a run that was stopped, or whose entry another run's report has ended, is
  applied to the entry of its successor and overwrites its host (state.go:338): two entries
  may then be on a host limited to one while another host looks free, and retries prefer
  the wrong host. `HostFilledByEventsOnly` excepts these events and shows that nothing
  else does it.
- A request that the server sends before its response to turn/start is dropped
  (session.go:482), though `openspec/specs/codex-app-server-protocol/spec.md:48` has
  approval requests answered. `RequestsAnsweredOnce` excepts these requests (`early`).
- The turn timeout does not end a tool call: the handler has the context of the run
  (session.go:571). Nor does it end a write to a server that has stopped reading
  (session.go:676). `TurnsEnd` therefore assumes that tool calls and blocked writes end.
- A tool call is told to have succeeded for every 200 reply that is an object without a
  non-empty `errors` array, data or not (bridge.go:242). `VerdictsAreTrue` promises that the
  document ran only where the answer shows data.
- A run that is stopped before it made its directory makes it after the clean-up of
  `StopRun`, and only the next start removes it (runtime.go:415, manager.go:143).
- A run that works on untracked, see `RunsIsolated`, is not told when its item is done: the
  due retry finds no handle and removes the directory under it (runtime.go:404).
- The timeout of a removal on a worker host ends the local ssh only (manager.go:503). The
  scheduler ignores the error, and the removal may hit the directory of the next run. The
  command of `Create` goes on likewise.
- A run that saw a file at the path may remove the directory another run has prepared there
  since (manager.go:482); `TrackedRunKeepsWorkspace` and `ContentsKept` except the paths of
  `Stale`.
- On a worker host, `cd dir && command` keeps back the first line of a command only; if
  the directory is missing the other lines of a hook run in the login directory
  (execution_host.go:151). `RunsInItsDirectory` excepts this.
- The deadline kills the local shell or the local ssh. A remote command goes on, and a
  local process that holds the pipe keeps the caller waiting (execution_host.go:127). A
  lost connection is status 255, no error. Without a directory in the request there is no
  `cd`, which the model takes for a directory that exists.
- The Linear reader skips a node that is no object and takes a missing `hasNextPage` for the
  last page (reader.go:244, 266). `NothingMissed` is about answers that are well formed.
- Spellings of one state in `max_concurrent_agents_by_state` collapse while a map is
  walked (settings.go:534): the same file may be accepted at one reload and refused at the
  next, and be served with either limit. `CurrentIsFresh` and `CatchesUp` are about
  documents that every reading accepts.
- A backoff limit beyond half the largest duration is accepted, and the doubling wraps
  (state.go:742). `RetryDelayIsCapped` excepts it.
- Usage that goes down and up again is counted again (state.go:555).
- Identifiers that differ only in characters unsafe for a path share a directory
  (manager.go:252). The instances of `Workspace` give every item a name of its own.

### Fairness

- Service: an armed timer fires (weak fairness): the Go runtime's timers. A goroutine
  waiting for `service.mu` gets it in the end though others keep taking it (strong
  fairness of serving some late callback of a kind): `sync.Mutex` hands over to a waiter
  that has starved for a millisecond. A poll cycle goes through its stages (weak fairness), which assumes
  that tracker calls return; the code does not guarantee it, as the Linear reader
  uses an HTTP client without a timeout and the cycle passes `context.Background()`.
  Nothing is assumed of workers, refresh requests, the clock or `Close`. `MaxSetbacks`
  bounds how often the wall clock is set back.
- `Runtime`: hooks and the creation of a workspace end (they have a timeout, though
  one that kills the shell only), a session whose context has ended fails, after_run
  and the deferred calls are reached, waiting for the mutex ends. A healthy session
  may work for ever. Silence is noticed and cycles go on until close.
- `CodexSession`: deadlines pass, `select` does not take lines for ever while its
  context is done, a tool handler returns when its context ends, Close follows an
  error, a killed process takes its pipes with it. Nothing is assumed of the server, nor that
  a tool call or a write to a living server ends by itself.
- `LinearTool`: the fairness of `CodexSession`; that a tool handler whose context has
  ended returns is what net/http does with the context of a request.
- `ExecutionHost`: the call starts, an expired deadline kills, processes left behind end,
  and a caller whose output is over returns. Lines of the script may hang.
- `ConfigStore`: the ticker ticks, file accesses return, the mutex is handed over
  to some waiter.
  Nobody has to call or to write.

## Proofs

The proofs hold for every value of the constants that meets the named assumptions:
every number of items, hosts, runs, requests, turns, pages or bytes. Wherever a bound
of the runs is a constant (nonces, attempts, lines of lead, writes), it is arbitrary too.

### Assumptions

| Assumption | Says | Why the code justifies it |
| --- | --- | --- |
| `HostAssumption`, `SchedulerAssumption` | limits are positive, sentinels are no values | `validateSettings` refuses others; `ServedSettingsStaySafe` proves that none are served |
| `OrchestratorAssumption` | there are poll nonces, room for one late callback | counters of 64 bits |
| `RuntimeAssumption` | at least one turn, sentinels are no values | `validateSettings` |
| `WorkspaceAssumption` | runs work locally or on worker hosts, not on both | `runtime.go`, `manager.go` |
| `SessionAssumption` | request ids are numbers, at least one turn | `session.go` |
| `StoreAssumption`, `DocumentAssumption` | some document is acceptable; numbers decode as integers, as null or not at all | `NewStore` fails otherwise; the typed fields of `settings.go` |
| `PolicyAssumption` | the base delay fits a duration twice over | `state.go` constants |
| `ObservationAssumption` | a second has ticks; window and delay are numbers | `dashboard.go` constants |
| `DirAssumption` | a directory name is a sequence of characters | |
| `ReaderAssumption` | finitely many issues, pages of at least one, ids are ids | `pageSize` |

Three theorems have a hypothesis of their own, each true of the instances that are checked:
`OwnNames` (items have directories of their own) for `WorkKeepsItsWorkspace` and
`SweptStaysAway`; `WellWritten` (a name without `@`, its brackets closed, no port after a
bare IPv6 name, a numeric port) for `SettingReachesItsHost`: other spellings have no one
meaning.

### Arguments

1. *Scheduler* (`SchedulerProofs`). `SelectHasRoom`: an admitted host is configured and
   below its limit, since a nonempty set of naturals has a least element. `TypeInv` is the
   type invariant plus finiteness of the set of runs, without which cardinalities mean
   nothing. `MapsCorrect`: the three parts of `MapsAgree` are inductive together, none
   alone: a due retry drops a claim, which is right only because an item with a retry
   entry does not run. Every step starts no run, or one run in a free slot on an admitted
   host (`StepStarts`); `CapacityHolds` and `ClosedStartsNothingHolds` follow. Every other step
   leaves the entries where they are, but for an event, which moves one (`HostFilledStep`):
   `HostsFilledByEventsOnly`.
   `TimerInv` ties the map of timer handles to the timers at all times and to the retry
   entries between handlers: a handler changes entries first and synchronises the map
   last, so only two of its four parts hold throughout. `RetriesNeverLost`,
   `ArmedTimersCurrent` and `BackoffRespectedHolds` follow; `LineageHolds` needs
   `MapsCorrect` and one case per handler (`StepContinues`).
2. *Service and process* (`CompositionProofs`). `PollingNeverStops` and `NoTwoPolls` are
   inductive only together (`PollInv`): a callback with the current nonce may be consumed
   because there is no second one, and the armed timer carries the current nonce because
   something must lead to the next poll. `ContractSafety` maps every step of the service
   to a step of `PollContract` or a stutter, which is the safety half of
   `KeepsPollContract`. `ServiceIsAScheduler` and `ProcessIsAScheduler` carry the theorems
   of 1 over to both compositions. `HandleInv` (a tracked item has a handle of its own, a
   stopped run still occupies its name) gives `NoRunIsLeftBehind`; `LifeInv`, one line per
   stage of start-up and shutdown, gives `NothingIsLeftAfterClose`.
3. *Workspaces* (`WorkspaceProofs`). A tracked run is at work, neither stopped nor
   detached (`OneStatus`); one run of an item is tracked at most, and none during a clean-up
   of the item (`RunsInv`); what is no directory was there from the start
   (`ClearsOnlyStale`). `WorkKeepsItsWorkspace` and `ContentsAreKept` rest on these. For
   `SweptStaysAway` the clean-up carries what it has already done (`DoneIsClean`).
4. *Config store* (`ConfigStoreProofs`). A reload holds what was on disk when it read it,
   and every write since is younger (`ReloadInv`, `OrderInv`): `OlderContentNeverReturns`.
   If nothing changed since a call began, it holds what is on disk (`CalmInv`):
   `CurrentStaysFresh`. Whatever is served came out of `ParseSettings`
   (`SettingsAccepted`), which gives `ServedSettingsStaySafe` and, with the powers of two
   (`DelayIsExact`), `RetryDelayStaysCapped`. `OrderIsTotal`: candidates are compared by a
   strict total order, whatever priority or time they lack.
5. *Sessions and tool calls* (`LinearProofs`). A request of the session is on its way,
   answered or given up, one at a time, so that what an ended turn leaves in the pipes is
   known (`SessionInv`, `AskInv`): `TurnsAlwaysAgree`. What the session has written, a
   blocked line included, is one sequence (`Pipe`), and so are the lines it has yet to read;
   the ids of requests occur in each once, and until the turn is answered early requests
   come before that answer and the others behind it (`Parted`), so that a request of a turn is
   in one place, a line of either pipe or the handler: `EveryRequestAnsweredOnce`. `Truth` adds
   where a tool call may still run although nobody waits for it: `VerdictsStayTrue`.
6. *Linear reader* (`LinearProofs`). A listing has every steady issue up to its cursor,
   once, and nothing beyond it (`PagesSoFar`); a refresh has every steady issue or has yet
   to ask for it, not both (`BatchesSoFar`); what was collected as ours was ours during the
   call (`RoutedSoFar`). The lemmas before them say what sorting, filtering and the removal
   of doubles return. `NoSteadyIssueIsMissed`, `ForeignWorkIsNotRouted`.
7. *Commands* (`ExecutionHostProofs`). `HostInv` follows the script: how far it came, what
   may still run it, and what the result was taken from (`ResultsAreHonest`,
   `ReturnLeavesQuiet`). `SettingReachesItsHost` and `LinesRunInTheirDirectory` are about
   texts of any length: reading a quoted text gives the text back, by induction over its
   characters, once for the login shell and once for bash.
8. *Totals and pages* (`ObservationProofs`). The entry remembers what its run has reported
   (`EntryCurrent`), so that a report adds the difference: `TotalsStayExact`. Whatever a
   page knows below the current total it saw before the total last grew (`HeldFresh`,
   `SamplesFresh`, `CacheFresh`): `IdlePagesShowZero`.

Loops. A definition that a loop of the code became is a recursive function or the only
object with a property (`InOrder`, `AsAsked`). `LoopTheorems` states induction for a *set*
of numbers (`AllNaturals`, by the least counterexample) and for a set of sequences
(`AllSequences`), and that a table of steps defines one function (`StepsDefine`,
`StepsAgree`); no lemma takes an operator as a parameter. That is enough for the sums,
powers, quoted texts, words and sorted answers above.

### Only model-checked

The liveness properties and those with a liveness part, since fairness and ENABLED are out
of the prover's reach: `RetryServed`, `SilentRunStopped`, `KeepsPollContract` (its safety
half is `ContractSafety`), `CloseFinishes`, `StoppedRunsEnd`, `TurnsEnd`,
`StoppedSessionEnds`, `CatchesUp`, `TimedOutReturns`. Nothing else: the three properties of
the runs that expect a violation are false.

## Not modelled

- Scheduler: `Scheduler` dispatches candidates in any order, of which the order of
  `DispatchPolicy` is one; it has no delays, of which `DispatchPolicy` has the length.
  Snapshots are copies made under the mutex; rate limits and texts of events are handed
  through.
- Linear tool bridge: `CreateComment` and `UpdateIssueState`, which nothing in `src/` calls.
- Settings: the split of the file into front matter and prompt, paths of the workspace
  root, lists of states, policies handed through.
- Tracker readers: the fields of an issue, and the memory reader, which returns a fixed
  list.
- Workspaces: the checks of paths against the root.
- Dashboard, HTTP API and pages: layout, routes and payloads, which are stateless functions
  of a snapshot; the live renderer, which nothing in `src/` starts.
- Flags and log files of the command; the choice of a workflow, a function of its
  arguments; logging; the verification command, a development tool that runs others.
- A page request that outlasts the second `http.Server.Shutdown` is given, which goes on
  after `Close`.
- What an app-server or a tool starts on its own and leaves behind.
- A tracker call that never returns: the poll cycle makes it under the mutex, and every
  handler waits (service.go:126). There is nothing to check beyond that.

## Plan

1. Shorter proofs: the lemmas on lines in `LinearProofs` and on words in
   `ExecutionHostProofs` share their induction and could share a lemma.
2. Steps towards liveness that are safety: that every pending callback is enabled in the
   state its fairness is stated for, as an invariant.
3. `Scheduler` with the candidate order of `DispatchPolicy` in place of any order, and a
   theorem that it implements the present one.
