# AITC: a verified model of the signal-control runtime

AITC receives traffic data from roadside platforms over TCP and HTTP, decides
every few seconds one signal plan per controlled intersection, and sends the
plans back to every connected platform. This directory holds TLA+ models of
its concurrent and safety-critical parts, the TLC runs that check them on small
instances, and TLAPS proofs of the properties that matter most for every value
of the constants. Paths below are relative to the repository.

    tlc -workers 2 -config DecisionPipeline.cfg MCDecisionPipeline
    tlapm DecisionPipelineProofs.tla

`PROJECT.json` maps every definition to the source lines it models, and lists the
runs, the mutants that show each property can fail, the hazards, the findings
and the theorems.

## 1. Inventory

### Components, their state and operations

| Component | State | Operations | Correct when | Module |
|---|---|---|---|---|
| Safety gate (`safety/service.py`, `control/schemas.py`) | none; reads the static configuration | `check`, `_prepare`, `finalize` | what it lets through can be run by a controller; it changes nothing that is safe; it falls back only when it must | `SafetyGate`, `SafetyGateCases` |
| Bounds correction, static configuration (`phase_check.py`, `runtime/result_formatter.py`) | `intersection_result_config`, in memory and on disk | validate, load, replace, `phase_check`, `build_phase` | durations end at the nearest bound; readers see one configuration | `SafetyGate`, `DecisionPipeline` (memory half) |
| Decision pipeline (`runtime/decision_pipeline.py`) | `last_coordinate_set`, locals of a batch | `run_once`: scan events, fan out to workers, coordinate, gate, publish | what is published is one whole, safe batch; a batch ends | `DecisionPipeline` |
| Result warehouse (`datahub/result_warehouse.py`) | the newest results | `replace`, `snapshot` | readers see whole batches in order | `ResultBoard` (abstract), `DecisionPipeline` |
| TCP server, sender (`runtime/tcp_server.py`, `datahub/result_sender.py`) | client list, stop flag, sockets | accept, handle, broadcast, stop | listed sockets are open; no torn batch; healthy clients get the newest batch; stop closes everything | `TcpBroadcast` |
| Experience table release (`lib/data_ANS/experience_{pool,runtime,release}.py`) | pool, runtime table, manifest, rollback files, daily reports | daily job; operator bootstrap, merge, rollback | a day is blended at most once; a rollback restores the predecessor | `ExperienceRelease` |
| Event maps (`datahub/cache_processor.py`, `datahub/service.py`) | radar and overflow maps | insert on receive, scan per batch | the scan does not lose batches without bound | in `DecisionPipeline`; keys only |
| Traffic data hub (`datahub/service.py`, `datahub/memory`) | time windows, event windows by road, truncation and issue marks | ingest (two entries), query, recent data, cleanups | an answer is exact or says what it lacks; both stores tell the same story | `DataHub` |
| Application life cycle (`runtime/application.py`) | threads, stop flags | start, decision loop, stop | the loop stops after a batch | the loop only, in `DecisionPipeline` |
| Global coordination (`lib/Global_intersection_coordinate.py`, `lib/control_functions`) | measured data | coordinate | its output is judged by the gate | black box in `DecisionPipeline`; its corridor loop in `GreenWave` |
| Green wave (`lib/lvbotest.py`, `lib/green_wave_functions.py`) | one session in module globals, saved sessions, corridor file | advance, reset, enable, disable, save | sessions are whole; a corridor left alone gets its cycle and its band | `GreenWave`, `GreenWaveTiming` |
| Configuration sync (`lib/nacos_floating_value.py`, `lib/floating_value.py`) | token, digest, file, cache | poll, log in again, apply, read, edit | the newest version arrives; the cache is the file | `ConfigSync` |
| Agents, decision graph (`agents/`), model gateway (`models/`) | per-call state and session, shared cooldown | experts with one retry, fallback, planner, reviewer, tools | the selector runs once in a call that ends; budget and outages are bounded | `SelectorCall` (abstract), `ControlGraph` |
| Logs and provenance (`datahub/writer.py`) | cached manifest signature | write records | a record names the release in force | only "the write may raise" |
| Prediction, HTTP routing, capture and replay, tooling, data | | | | not modelled (section 7) |

### How they interact

    platforms --TCP lines--> handler threads --> data hub, event maps
                                                      | (no lock)
    HTTP / config sync --> static configuration       v
                               |               decision thread --- worker pool --- decision graph --- model
                               | deep copy            |  coordination (edits plans)
                               +------------->  safety gate
                                                      |
                                              result warehouse (lock)
                                                      | snapshot
    platforms <--TCP lines-- broadcast thread <-------+
    operator, daily job --> pool, runtime table, manifest --> selectors

The decision thread, one worker per road, the receivers, the HTTP handlers, the
listener, a handler per connection, the broadcast thread, the stopping thread,
the daily job and operator processes share state; only the warehouse, the
client list, the two stores of the data hub, the model cooldown and the corridor
file are locked, each on its own.
The experience files are shared by processes without any lock.

### What is hard about it

* The event maps are scanned while receivers insert: the scan raises and a batch is lost.
* The configuration is replaced while a batch is being judged.
* The coordination edits plans in place while the gate needs the originals.
* Any stage may raise; what was assigned to `self` by then stays assigned.
* A corrected plan is another plan than the one judged, and the formatter
  drops everything behind the first zero.
* Sockets are closed by three kinds of threads; sends block on slow readers.
* The daily job and a release are sequences of file writes with a crash possible
  between any two, and are repeated afterwards.
* Green wave sessions live in module globals that serve every corridor in turn, and
  that an HTTP request resets under a lock the decision thread does not take.
* The caches of the synchronised files are filled and reset in two assignments
  each, without a common lock, while two processes replace the file.
* A message enters two stores in two steps, and every reader of the hub reads the
  clock before it takes a lock.
* The decision graph retries some nodes and must not retry others; what one
  road learns about the model service holds for all roads, a moment later.

`PROJECT.json` "hazards" lists each of these at its line, with the property that
would catch it, or why none does.

## 2. Modules

### SafetyGate, SafetyGateCases, ResultBoard

`SafetyGate` has constants and operators only. A plan is a record of durations,
reserved slot and program number; whatever fails the `SignalPlan` contract is any
value outside `Plan`. `Issues` and `Status` are `check`, with its early returns;
`PhaseCheck` is the correction loop of `phase_check`; `Prepare` and
`PreparedStatus` are `_prepare`; `Gate` is one turn of the loop in `finalize`;
`SentPhases` is what the formatter sends. `Deliverable` is the yardstick and is
*not* phrased with issues and statuses: reserved slot zero, the sent phases are
exactly the non-zero ones, an all-zero plan is the marker, bounded phases are in
bounds. `SafetyGateCases` lets `CasesInit` choose the inputs and applies `Gate` once.

Abstractions: issues are named without their phase index; program numbers are
integers (the contract also admits decimal strings); durations are integers,
because the code compares them and never computes with them.

`ResultBoard` is what readers of the warehouse rely on: empty, or one batch whose
plans are deliverable under one configuration, replaced only by a later batch.

### DecisionPipeline

One action per step of `run_once` on the decision thread, one per outcome of a
worker, one per outside event:

| Action | Code |
|---|---|
| `StartBatch`, `ScanNext`, `ScanRaises` | `_process_data` up to the loops of `process_overflow_events`; iterating a dict compares its size before each item |
| `WorkerSelects`, `WorkerFails`, `WorkerCannotStore` | `_process_single_intersection`: the three ways it returns |
| `CollectWorkers` | the pool is joined, `last_coordinate_set` replaced, `fallback_action` copied |
| `Coordinate` | any plans; not enabled on a road with the empty template that the coordination does not rebuild (`complete_minimum_cycle` indexes it), then only `StageRaises` is left |
| `FreezeConfig`, `GateRoad` | `finalize`: one deep copy, then road by road |
| `Report`, `Publish` | report file and formatting, then `ResultWarehouse.replace` |
| `StageRaises` | an exception in aggregation, coordination, gate, report or formatting |
| `ReceiveEvent`, `ReplaceConfig`, `RequestStop` | the other threads |

`entry` keeps of a coordinate entry only the batch it describes, which is what
the properties on `coord` and `basis` tell apart. `races` counts batches lost
to the scan. A selector returns any plan of `Selections`, the coordination any of
`Coordinated`: the properties hold whatever the heuristics inside do.

### TcpBroadcast

A program counter per thread: `listener`, `handler[c]`, `broadcaster`, `stopper`.
`sock` is the server's socket, `peer` the platform (connected, stalled, closed),
`clients` the locked list, `todo` the copy of a round, `disconnected` what
`send_batch` returns. Each lock-protected block is one action, and each close
outside the lock one of its own. `got[c][k]` is the batch the k-th line held by a
platform came from. A stalled platform blocks the send, as the comment at
`tcp_server.py:95` admits; a close does not wake a blocked `recv`. Framing and
JSON are abstracted to "bytes arrive".

### ExperienceRelease

Two writers, the scheduled job and an operator, each a sequence of file
operations; `work[w]` holds its locals and the step that follows, and `Abandon`
ends either at any point with the files as they are (a crash and an exception
leave the same files). A table is abstracted to the candidate it stems from and
how often each day was blended into it. `before`, `owed` and `overlap` are
history variables: the table each release really replaced, the days whose blend
changed a table that was never installed, and whether both writers ever ran at
once. Validation failures are covered by `Abandon`, a blend below the sample
threshold or rounded away by the second disjunct of `CommitPool`. The version
files, which the program writes and never reads, are omitted.

### GreenWave, GreenWaveTiming

`GreenWaveTiming` is the arithmetic: a road's plan walks to the common cycle in
steps of at most 8 seconds, shared by a rounded ratio and cut at two floors; in a replay
the virtual start of the green walks the shorter way round the cycle to its target.
Of the ten numbers of a plan the green wave changes two, and `RoadPlan` has those.
`Rounded` returns both neighbours of a tie, so it covers round-half-to-even.

`GreenWave` has the globals (`globals`, `active`), the map they are saved to (`saved`), the
loop over the corridors (`round`) and one HTTP request at a time (`handler`; the server is
single-threaded). The decision thread goes through `LoadCorridors`, then for each corridor still
in `round.todo`, the first in the order of the file (`FirstOf`),
`Activate`, `Open`, `Resume` or `OutOfPeriod`, one action per branch of
`_apply_green_wave_coordination_active` (`AlignCycle`, `CoolDown`, `AwaitFeedback`,
`BandReached`, `MoveOffsets`, and what a racing reset leads to: `NothingToPlan`, `NoPhase`) and
`Capture`, the `finally` clause. A reset is `ResetPop`, `ResetCompare`, `ResetFlag`,
`ResetPhases` and `ResetPlans`: the flag `start` first, then the phases, then the plans, because
the round may read and write between them. Whether
a cooldown has passed is chosen by the round; `cnt` and `fix_plan` are left out.

### SelectorCall, ControlGraph

`SelectorCall` is what a worker of the pipeline relies on: a call ends, and a call that returns
ran the selector exactly once. `ControlGraph` implements it: one call per road with its node, its
session and what it has read; shared are only the cooldown and the settings. `ReadVideo`,
`ReadRadar`, `RetryRead`, `ReadFails`, `Select`, `SelectorRaises`, `Validate` are the nodes with
their retry policy and error handler; `Refuse` to `ServiceFails` is the loop `_run` of the
cognitive controller, with the check of the cooldown (`Admit`) and the request (`Send`) as
separate steps; `QueryExpert` to `ToolFails` are the tools. `Raised` maps what happens on the
wire to the exception the gateway makes of it. `late`, the requests a road began during a
cooldown, is a history variable. A tool that times out starts the cooldown as well, as in the code.

### ConfigSync

The sync thread (`sync`, `token`, `digest`), the decision thread in `_load_floating_value`
(`reader`, `mark`, `loaded`), the operator tool (`editor`) and restarts, around one file with its
modification time and its cache. The two halves of a fill (`SetStamp`, `SetData`) and of a reset
(`ResetStamp`, `ResetData`) are actions of their own. A version is its digest. Static configuration
and road state are synchronised by subclasses with the same protocol.

### DataHub

`cache` holds the windows of the short term memory, `events` the bounded windows by road, with the
two marks that say until when an answer is incomplete. An event window is the set of its places in
`received`: events are appended in that order, so the oldest is the least place. `Classified`, `Stamp` and
`Record` or `Uncopied` are `ingest_classified`, which reads the clock three times and fills the two
stores in two steps; `Ingest` and `Record` are the strict entry. `Record`, `Query`, `RecentData`,
`ClearCache` and `ClearEvents` take the time they read before their lock as a parameter, at
most `MaxWait` old. Kinds are named by the length of their window.

## 3. Runs

| Run | Question | Bounds |
|---|---|---|
| `safety_gate` | is every output of the gate deliverable, stable, minimal, and the cascade right? | 2 phase slots, durations 0..3 and -1, 36 configurations, 4 candidates, 3 timetables |
| `pipeline` | safety of two batches under every interleaving; implements `ResultBoard`; every started batch ends | 2 roads (one rebuilt by the coordination), 2 event maps, 1 device, 2 configurations that disagree |
| `tcp_broadcast` | are listed sockets open and batches whole? | 2 clients, 2 batches of 2 lines |
| `tcp_liveness` | do healthy clients get the newest batch, does stop close everything? | 2 clients, one slow, 2 batches of 1 line |
| `experience_release` | no day twice, pool ahead, rollback restores | 2 days, 1 candidate, 3 releases |
| `green_wave` | whole sessions, convergence, healing | 2 corridors of 2 roads, cycle 40, plans that are too long, too short, lopsided and right, 1 operator request |
| `control_graph` | implements `SelectorCall`; budget, reads, outages | 2 roads, one call each, budget 2, with and without a cognitive controller and allowed roads |
| `config_sync` | cache is the file, the newest version arrives | 3 versions, the second invalid, 2 forgotten tokens, 1 edit, 1 restart |
| `data_hub` | exact answers, sorted windows, two stores that agree | 1 road and the unassigned partition, windows of 1 and 2 s, 1 event per partition, 3 messages, 4 s |
| `tcp_log_failure`, `experience_exactly_once`, `model_failure` | the three findings (section 6) | 1 client; 2 days; 1 road |

Why the bounds are enough. Gate: bounds are compared with one duration at a
time, and two slots already have a phase before and behind a terminator; 0..3
lies below, on, between and above every pair of bounds used, among them a
forbidden phase `[0,0]`, a required one and the negative bounds the loader
admits. Pipeline: a second road is what makes plans of different batches, or
verdicts under different configurations, mix; a second batch is what makes state
left by the first matter; the two event maps make the scan cross from one to the
next. Broadcast: two clients give a failing neighbour, two lines a torn batch, two
batches a publication in mid-round. Release: two days and three releases are
enough for a release after a rollback after an abandoned release. Green wave: the second
corridor is what the globals leak into; the plans start above, below and on the common cycle, one
of them at both floors and one with nearly all its green on one side, and the platoon misses the green of one corridor and meets that of the other;
one request is enough to tear the session a round works on, to have its
reset undone by the `finally` clause, and to reach the globals of the next corridor. Graph: a second road is what starts or extends the cooldown
in between, and the budget has one request for the planner and one for the review. Synchronisation: a valid
version follows an invalid one, a token is forgotten, the tool and a restart fall anywhere. Hub: a full
partition, two windows of different lengths and a third message make a shorter-lived loss follow a
longer-lived one, and a second of delay makes every clock stale. All bounds
(`MaxBatches`, `MaxBatch`, `MaxReleases`, `MaxRequests`, `MaxRounds`, `MaxVersion`,
`MaxExpiries`, `MaxEdits`, `MaxRestarts`, `MaxMessages`, `MaxTime`, `MaxWait`) appear as guards of the actions
that count; the proofs do not depend on their value.

Deadlock is checked for the pipeline, whose configuration can always be replaced.
The other specifications may stop: the gate decides once,
the TCP server ends after stop, and the releases, the calls of the graph, the
messages and the clock of the hub are bounded. The green wave and the
synchronisation never stop, and are checked for deadlock too.

## 4. Properties

Each is stated in words above its definition. The main ones:

* `OutputIsDeliverable`, `RegatingChangesNothing`, `SafePlanIsUntouched`,
  `CorrectionIsNearest`, `FallbackIsLastResort`: the gate is sound, idempotent,
  transparent for safe plans, minimal in what it corrects and a proper cascade.
* `PublishedIsDeliverable`, `BoardSpec`: the above survives the pipeline, with the
  configuration replaced at any moment and any stage failing.
* `SelectionBeforeTimetable`: the in-place edits never reach the fallback.
* `WorkersShareBasis`, `CoordinateSetIsOfOneBatch`: the unlocked
  `last_coordinate_set` is one batch's and the same for all workers of a batch.
* `RacesAreBounded`, `BatchEnds`: the unlocked scan costs at most one batch per
  device that reports for the first time, and every started batch ends.
* `ListedIsOpen`, `EndedIsForgotten`, `WholeBatches`, `NewestIsDelivered`,
  `StopClosesSockets`: the client list and what clients hold.
* `NoDayTwice`, `PoolRunsAhead`, `RollbackRestoresPredecessor`: retries,
  crashes and overlapping writers.
* `SessionsAreWhole`, `RemembersWhatItHandedOn`, `CycleErrorShrinks`,
  `LeftAloneConverges`, `TornSessionsHeal`: sessions survive the sharing of the
  globals, the arithmetic converges, and what a racing reset tore heals.
* `CallSpec`, `ReviewHasItsCall`, `OneReadPerSource`, `OutageCostsOneCall`: the
  graph is a well-behaved call of the selector, and what the model may cost is bounded.
* `CacheIsTheFile`, `LatestArrives`: the cache without a lock, and the synchronisation
  through every failure. Both name the exception the code has (below).
* `HeadIsOldest`, `AnswersAreExact`, `CacheIsAccountedFor`: the two stores of the hub.

What the properties except, because the code does it:

* A reset that falls into the very round working on a corridor tears its session
  (`torn` in `GreenWave`): the `finally` clause saves what is left of it, so the reset
  is undone or the session runs on without plans. `TornSessionsHeal` shows how long that
  lasts: to the end of the period. A session is only dropped outside every period,
  so of two adjacent periods the second continues with the direction of the first.
* A cache fill that falls between the two halves of a reset leaves no records under
  the current modification time (`torn` in `ConfigSync`) until the file changes again.
* The operator tool is another process: it may write an older version over one
  whose digest is recorded, which is then not fetched again (`trampled`).

Fairness. `DecisionPipeline`: weak fairness of the decision thread and of each
worker. The decision thread holds no lock while it waits, and a worker ends:
model calls have time limits, the rest is computation and file writes. Receivers
and configuration writers need none. Weak fairness of the whole thread, not of
its actions, leaves open whether a stage succeeds or raises. `TcpBroadcast`: weak fairness of the broadcaster, of
the stopping thread once it runs, of the listener's end (its `accept` times out
every second) and of each handler when it is not blocked in `recv`. Platforms
are not assumed to do anything; hence `NewestIsDelivered` speaks of a time
without a stalled platform, which is the limit the source itself documents.
`GreenWave`: weak fairness of the decision and the HTTP thread; strong fairness of
loading the corridors (a request under the lock delays it only while it runs) and of
adjusting a corridor that keeps being reached, because a cooldown passes in the end.
Time, replays and operators are free. `ControlGraph`: weak fairness of each call,
since every request has a time limit. `ConfigSync`: weak fairness of the threads and
of an edit that began; strong fairness of login, request and replacement, that is,
the server and the disk do not fail for ever. `DataHub` has safety properties only.

## 5. Proofs

| Module | Theorems | Argument |
|---|---|---|
| `SafetyGateProofs` | `GateIsSafe`, `GateIsIdempotent` | of the operators of `SafetyGate`: a plan without issues is deliverable; the correction establishes each bound it touches (`lo <= hi` from `Admitted`), keeps the terminator and so leaves no issue |
| | `OutputIsAlwaysDeliverable`, `RegatingNeverChanges`, `SafePlansPass`, `FallbacksAreLastResorts`, `CorrectionsAreNearest` | of `SafetyGateCases`: the verdict is `Gate` of the inputs, then the lemmas above |
| `DecisionPipelineProofs` | `TypeCorrect`, `PublicationIsSafe`, `PipelineImplementsBoard` | `Invariant` |
| | `WorkersAgree`, `CoordinateSetIsWhole`, `RacesNeverStarve`, `SelectionsComeFirst` | one invariant per theorem, on top of `TypeOK` |
| `TcpBroadcastProofs` | `ServerTypesAreCorrect` | inductive as it stands |
| | `ListedSocketsAreOpen`, `EndedConnectionsAreForgotten` | `ListInvariant` |
| | `BatchesAreWhole` | `RoundInvariant` |
| | `StopLeavesNobodyWaiting` | `StopInvariant`, on top of `ListInvariant` |
| `ExperienceReleaseProofs` | `ReleaseTypesAreCorrect`, `DaysAreBlendedOnce`, `PoolIsAhead`, `RollbacksRestore` | `Invariant`; with `Careful` for the rollback |
| `ControlGraphProofs` | `GraphTypesAreCorrect`, `ReviewHasItsCallHolds`, `OneReadPerSourceHolds`, `OutageCostsOneCallHolds`, `RouteIsHonestHolds`, `GraphImplementsCall` | what a call has done by the node it is at |
| `ConfigSyncProofs` | `SyncTypesAreCorrect`, `CacheIsTheFileHolds` | what the reader holds by the step it is at |
| | `RecordedIsAppliedHolds`, `FilesMoveForward` | `VersionInvariant` |
| `GreenWaveProofs` | `SessionTypesAreCorrect` | `TypeInvariant` |
| | `SessionsStayWhole`, `SessionsRemember` | `WholeInvariant`, `RememberInvariant`, each on top of `TypeInvariant` |
| | `EachChangeCorrects` | `ShrinkInvariant` and the arithmetic of the shares |
| | `MovesApproachTheTarget` | of `Moved` in `GreenWaveTiming`: remainders within one cycle of the cycle |
| `DataHubProofs` | `HeadIsOldestHolds` | `WindowInvariant` |
| | `AnswersStayExact` | `MarkInvariant`, with the types of `WindowInvariant` |
| | `CacheStaysAccountedFor` | `CacheInvariant` and `MarkInvariant` |

Every invariant the runs check, and the action property among their temporal ones, is a
theorem; so are both refinements, up to the liveness half of the abstract call.

Why the strengthenings are needed:

* Publication. `PublishedIsDeliverable` says nothing of a batch under way. The
  invariant adds that every verdict reached so far is deliverable under the
  *snapshot*, that the snapshot is an admitted configuration from `FreezeConfig`
  on, and that the published batch is older than the running one. With them every step maps to `Replace`
  or to a stutter of `ResultBoard`.
* Races. `races` alone is not inductive: a map may have grown without the scan
  having noticed. `Lost` counts that batch already; every new event key pays for at most
  one lost batch, and `StartBatch` and a new map start with an unchanged size.
* Coordinate set. During the workers all entries are of the current batch or
  absent, and `coord` does not change between the first and the last worker.
* Client list. `ListedIsOpen` fails to be inductive because sockets are closed
  by three kinds of threads. `TakenOffFirst` says that whoever is about to close one (a
  handler, the broadcaster, stop) holds a socket that has been taken off the list, and
  `KnownAreRegistered` that such a socket never joins it again.
* Batches. A platform that holds lines of two batches is only excused while it is being sent to or
  after its sending failed, so `RoundInvariant` follows the round: the lines of the copied batch sent to
  the target so far are exactly those before the line that comes next (`SentSoFar`, `AtFirstLine`),
  and a platform nobody accepted is absent (`NotAcceptedYet`). Whoever is left in peace (`LeftInPeace`)
  holds a whole batch, or nothing yet if it has still to join the list.
* Stop. `NobodyIsLeftWaiting` is the part of `StopClosesSockets` that needs no scheduler, and has no
  run of its own: after stop no handler sits in `recv` on an open socket. A handler only blocks while the flag is
  clear, and then its socket is where stop or the broadcast thread will find it (`StopInvariant`).
* Nearest correction. The correction stops at the bound it crossed, and a deliverable plan is between
  the bounds; a phase the correction leaves alone has distance zero.
* Release. A table about to be installed, kept for a rollback or live may have
  been read before another writer's changes: `Sound` ties each of them to the pool by
  itself ("at most once, and only days the pool has"), which survives any mix of
  writers because the pool only grows and a day is blended in the very step that marks it. `Careful` relates, as long as the writers never
  overlapped, the release being built to the live table.
* Decision graph. What a call may still do depends on what it has done: the
  invariant lists for each node which experts were read, whether the selector ran
  and whether there is a session. The budget needs that the planner stops one request
  short of it; the outage that a request already admitted is the only one not yet
  counted. `RouteIsHonest`, that the decision says truly how it came about, is proved
  from the same invariant and has no run of its own.
* Cache. A fill carries the modification time it saw before it read: the invariant says
  that no time is newer than that of the file, and that a fill whose time is still that of
  the file has read the file.
* Versions. The part of `LatestArrives` that holds at every moment, and has no run of its own: the digest is
  recorded last, so what is recorded is in the file (`RecordedIsApplied`), and a download is no older than
  the file or the tool's copy until it is written, so only the tool takes the file back (`OnlyTheToolGoesBack`).
* Green wave. The saved sessions alone are not inductive, since `Capture` saves what is in the globals:
  each invariant also speaks of the globals a round holds. For the types, that they cover the roads of
  the corridor worked on and know their period once a phase runs; for `SessionsAreWhole`, that they are
  whole unless a reset fell in; for `RemembersWhatItHandedOn`, that results exist only of corridors
  captured, or about to be with the very plan in the globals. `CycleErrorShrinks` compares the saved
  plan with the next saved one: the invariant carries the comparison from `AlignCycle`, where the
  globals still equal the saved session, to `Capture`, the one step that changes a saved plan
  (`OnlyCaptureSaves`). The arithmetic is nonlinear and goes through the share of a rounded
  ratio: it does not shrink with a sum that grows, does not grow with one that shrinks, and the
  larger of two shares shrinks, so that cutting the other at its floor cannot undo the step
  (`ShareGrows`, `ShareShrinks`, `LargeShareShrinks`, `AdjustedIsCloser`). `EachChangeCorrects` and `MovesApproachTheTarget` are the
  progress of the two phases; that the rounds come, `LeftAloneConverges`, is left to TLC.
* Hub. The windows are sorted only together with the last receipt of their kind:
  no item is later than it, except the one just put there by a classified
  message that has not stamped it yet; that message holds the ingest lock.
  `AnswersAreExact` speaks of answers at every time a query may have read, so the invariant speaks of
  the marks themselves: a mark reaches as far as every loss that is not over, and is the end of some
  loss or lifted (`Marks`). Pruning with an old clock only adds losses that are over
  (`MarkLifted`), time only ends some (`MarkAged`), and a new loss raises the mark (`MarkSet`).
  `CacheIsAccountedFor` needs to know of each cached item which message it is: one that was
  taken, or the one under the ingest lock, of its kind and not younger than its event
  (`Placed`); the marks then answer for the event.

The assumptions are the named `ASSUME`s of the component modules: finite roads and
devices, at least one phase slot and one event map, admitted configurations,
a budget and a cooldown within the settings' limits, what the corridor file's validation
accepts, positive windows and limits of the hub, sentinels that are no data. TLC evaluates them in every run.

Model-checked only: the liveness properties `BatchEnds`, `NewestIsDelivered`,
`StopClosesSockets`, `LeftAloneConverges`, `TornSessionsHeal`, `LatestArrives` and the
liveness half of `CallSpec`. Liveness under fairness is beyond the prover.

## 6. Findings

* **A failed log write disconnects a healthy client** (`datahub/result_sender.py:30`,
  run `tcp_log_failure`). The `except` meant for socket errors also catches the
  `OSError` of the local send log, against the docstring of `broadcast_once`.
* **A day can be closed without its blend** (`lib/data_ANS/experience_pool.py:1195`,
  run `experience_exactly_once`). The pool marks the day before the table is
  released; if the job dies in between, the repeated run reports
  `completed_pool_updated_no_table_change`, against the docstring "Process one T-2
  source date exactly once". The order is the safe half of the choice: the proof of
  `NoDayTwice` rests on it.

* **A model answer that is cut off costs a road its plan** (`models/providers.py:73`,
  run `model_failure`). `http.client.IncompleteRead` is in none of the error tuples, so
  it passes gateway, planner or reviewer, and graph, against `docs/v2_qwen_agent.md:33`.

## 7. Not modelled

* Numeric prediction (`Flow_predict.py`, `Queue_predict.py`, the prediction
  modules), selectors and road rules: heuristics over measured data without
  protocol state. They appear as nondeterministic choices the gate must cope with.
* HTTP routing and rendering, prompts and answers of the model: I/O. Capture, replay, tracing and
  safety audit: offline tools and logs.
* Green wave: the offsets corrected from executed-stage feedback (`adjust_offset_one_round`
  and the statistics before it): the pipeline passes no such feedback to the coordination, so
  `AwaitFeedback` is all that happens live. The congestion analysis is printed and not used.
  `record_green_wave_final_plan`, `simulate_green_wave` and `reset_green_wave_session` have
  no caller in the program. A corridor skipped for want of a plan and a corridor whose roads
  change when it is saved are left out: `WriteStore` changes whether it is enabled.
* Decision graph: the strict entry `predict`, which has no caller; retries of the client, which the
  cognitive controller switches off.
* Configuration sync: the time schedule, whose two files are written one after the other
  (a version without a weekend part leaves the old weekend file); a missing file; two
  replacements within one tick of the modification time.
* Data hub: snapshots, captures and history, which are one step under one lock each; message
  contracts and classification; a clock that goes back. The strict `ingest` has no caller in
  the program; it is modelled because it is the documented entry.
* The file half of the static configuration, the text of log records, provenance, audit-gated
  selection, pool pruning, the scheduler clock of the daily job, the shared template record of the
  overflow scan, the key-value files and the journal of `datahub/repository.py`, and the order in
  which the servers start and stop.
* `legacy/`, `tools/`, static data, tests and documents.

The larger part of the source by lines is of the first kind: learned tables, map data, selectors, road
rules and predictors. They compute a plan from measured numbers, share no state beyond what the
models above have, and nothing in the repository states what they should return; the models
quantify over whatever they may return instead.

## 8. Plan

Done, in this order: the gate, the pipeline over it and its abstract board, the
broadcast, the release; then the green wave, the decision graph and its abstract call, the
configuration synchronisation and the data hub; the proofs listed above.

What would come next: pruning of the pool as a third writer of `ExperienceRelease`, with the
manifest that the log writer caches; the start and stop of all servers with the join time-out; the
time schedule, whose two files are written one after the other.
