# TLA+ models of the AgenAI Agent SDK

This directory holds a verification development kept beside the AgenAI Agent SDK: TLA+ modules
translated from the TypeScript sources, TLC configurations that model-check them on small
instances, and TLAPS proofs of the properties that matter most, for every value of the constants.

Paths below are relative to `src/`; `orchestration/` abbreviates
`packages/agent-orchestration/src/`.

## 1. The system

The SDK lets a host run coding agents (Claude Code, Codex, Cursor, OpenCode, Grok, any ACP agent)
behind one contract.  Ten packages make it up:

| Package | State it keeps | Operations | What is hard |
| --- | --- | --- | --- |
| `agent-orchestration` | delegation store (tasks, runs, operation ledger, notifications, capacity), live runs, queue, inbox calls | spawn, send, steer, cancel, resolve request, retire, dispose, recovery, delivery | crashes between intent and receipt, owner hand-over, late receipts, cancel races, at-most-once delivery |
| `agent-runtime` | session and turn executions, host bindings, provider instance registry, request census | open/resume, turn, steer, interrupt, respond, close, dispose | close racing a turn, abandoned readers, binding lifetime, request withdrawal |
| `agent-protocol` | none: schemas, parsers, canonical events, negotiation | parse, validate, negotiate | bounded parsing, canonical forms |
| `validation` | none: bounded copy of untrusted data | copy, freeze | limits at their edges |
| `acp-transport` | pending requests, writer queue, connection lifecycle | request, notify, respond, cancel, close | response correlation, timeout against late answer, queue bounds, close while writing |
| `provider-acp` | connection, native session, permission and elicitation requests, terminal processes | connect, open, prompt, cancel, set mode/model | cancellation against the prompt's own end, pending requests at close |
| `acp-registry` | catalogue, install store with leases, launch plans | resolve, install, verify, lease, collect | crash between staging and publishing, two installers |
| `agent-history` | provider sources, worker processes, page cursors | list, read, close | worker death, cursors over changing data |
| `sandbox` | sandbox lifecycle, processes, files, credential leases, recovery journal | create, start, exec, transfer, close, recover | close while operations run, uncertain create |
| `sandbox-docker` | Docker resources, Desktop network coordinator and its journal, helper processes | plan, create, observe, recover, clean up | journal replay, uncertain creates, two coordinators |

`examples/delegation` adds a durable SQLite delegation store and a parent inbox; they implement the
ports of `agent-orchestration` and show what "durable" means for it.

### 1.1 Managed delegation, the part modelled first

`agent-orchestration` is where the SDK makes its strongest promises, and where most of them are
about orders of events nobody can script in a test:

* **Store and planner** (`store-adapter/`, `store/memory.ts`).  Every state change is one command
  committed by the current owner.  `planDelegationStoreCommit` is a pure function from the retained
  records and a command to the new records; the volatile store and the SQLite store both apply its
  result atomically.  The planner owns the truth: a run that may have reached a provider and whose
  end nobody saw is `recovery_required`, and stays so.
* **Coordinator** (`coordinator/`, `execution/`).  It owns the live runs: one pump admits queued
  runs to executor slots, `prepareRun` opens a session, `consumeTurn` reads the output, controls
  (steer, request answers, cancel) run beside the reader, `finishRun` cleans up and settles.
  Each of these journals an *intent* before and a *receipt* after the provider call.
* **Delivery** (`delivery/`).  The completion of a run is offered to the parent's inbox.  A claim is
  journaled before and a receipt after the inbox call; after a lost acknowledgement the inbox is
  inspected before it is asked to accept again.
* **Policy, catalogue, tools, MCP bridge** (`policy/`, `catalog/`, `tools/`, `mcp/`, `host/`).
  Pure resolution of what a parent may delegate to, and the tool surface in front of the client.

What makes the parts correct:

* store: counters equal the census of the records (a mismatch fails the store for good); runs of a
  task execute one at a time and in order; what an outcome claims is backed by the ledger; an unknown
  effect is never forgotten; settled is settled; a new owner never invents provider truth;
* delivery: an inbox accepts a notification at most once and what it accepted is never reported
  expired; one inbox callback at a time; a pending notification is eventually settled; an owner is not
  released while a callback can still commit;
* session (`agent-runtime`): one request is presented at a time, none is stranded and none answered
  twice; a turn and an operation never overlap; after an unknown effect nothing enters the provider;
  the host binding goes last, and in the end always;
* ACP client: ids are unambiguous between the two sides, a reverse request keeps its id to the end of
  its write, a close leaves no request waiting and always completes;
* sandbox owner: what is reported ready or stopped is so whatever replies late, storage is destroyed
  last, failed cleanup can always be retried, a stop never waits for what waits for the stop;
* coordinator: resources are released only after runtime, reader and controls are quiescent, in that
  order; every admitted run eventually settles or its owner is retained; cancellation never overwrites
  a completed result.

## 2. Modules

| Module | Models | Uses |
| --- | --- | --- |
| `RunContract` | what delegation promises a parent of its runs, with no mechanism | |
| `DelegationStore` | `store-adapter/`: the planner and the records it owns | implements `RunContract` |
| `DelegationStoreProofs` | theorems about `DelegationStore` | extends `DelegationStore` |
| `DeliveryContract` | what delivery promises, with no mechanism | |
| `DelegationDelivery` | `delivery/`, `store-adapter/delivery.ts`, recovery and shutdown around it | implements `DeliveryContract` |
| `DelegationDeliveryProofs` | theorems about `DelegationDelivery` | extends `DelegationDelivery` |
| `ManagedRun` | `execution/`: one live run, its controls, reader, cleanup and settlement | extends `DelegationStore`: every commit of the live run is a command of the planner |
| `ManagedRunProofs` | theorems about `ManagedRun` | extends `ManagedRun`, `DelegationStoreProofs` |
| `AcpWriter` | `packages/acp-transport/src/messageWriter.ts` under its owner, `client.ts` | |
| `AcpWriterProofs` | theorems about `AcpWriter` | extends `AcpWriter` |
| `AcpClient` | `packages/acp-transport/src/client.ts` | extends `AcpWriter`: every frame goes through the writer; implements `WriterSpec` |
| `AcpClientProofs` | theorems about `AcpClient` | extends `AcpClient`, `AcpWriterProofs` |
| `TurnRequests` | `packages/agent-runtime/src/turnExecution/requests.ts`, as operators on an admission record | |
| `TurnRequestsProofs` | what the operators of `TurnRequests` return and keep | extends `TurnRequests` |
| `AgentSession` | `sessionValidation.ts`, `sessionAdmission.ts`, `turnExecution/execution.ts`, `hostBindings/lifetime.ts` of `agent-runtime` | extends `TurnRequests` |
| `AgentSessionProofs` | theorems about `AgentSession` | extends `AgentSession`, `TurnRequestsProofs` |
| `SandboxOwner` | `packages/sandbox/src/lifecycle/owner.ts`, with its journal, streams and transfers | |
| `SandboxOwnerProofs` | theorems about `SandboxOwner` | extends `SandboxOwner` |
| `MC*` | constants and symmetry for TLC | |

`PROJECT.json` maps every definition that models code to its lines.

### 2.1 `DelegationStore`

State: `owner`, `epoch` (the lease of the store), `task`, `run` and `op` (the records; `op[r]` is the
operation ledger of run `r`, one slot per control, plus `admit`, `prepare`, `turn`, `cancel` and the
fixed executor slots), and `capacity` (the counters the planner adjusts by hand).  One action per
command kind: `admit` (new task and continuation), `dispatch_intent` by operation kind,
`operation_receipt`, the request commands, `cancel`, `settle`, `retire_recovery`, and owner
acquisition and release.  A command the planner refuses is a disabled action: the planner throws
before any mutation.  `Commit` is `planDelegationStoreCommit`'s common tail: it puts the run record
and the ledger in place and *always* derives the task's state from all its runs, as `deriveTask` does.

`RunContract` is what a parent is promised: per run the task, the stage (`queued`, `started`, `entered`,
`settled`), whether it was canceled, whether its truth is lost, and its outcome; and the tasks given up.
It knows no operations, receipts, capacity or owners.  The store implements it under the mapping `Seen`
(a run that is preparing may have been seen by the provider, one that runs or waits has its turn handed
over), checked as `PROPERTY RunPromise` in two runs: under late receipts and a takeover
(`store_controls`), and over several runs of a task (`store_tasks`).

Abstracted: identifiers and digests (a repeated operation ID returns the stored receipt and changes
nothing), revisions (every command carries the current one or is refused), timestamps, bytes,
observations.

### 2.2 `DelegationDelivery` and `DeliveryContract`

State: `note` (the notification record: state, attempts, claim, reason), `pump` (where the
scheduler's pass is), `call` (the inbox callback in flight, which may outlive its deadline),
`copies` (how often the inbox has committed an acceptance), the timers and the life of the owner.
The inbox is external.  The port asks it to deduplicate, and the model's inbox does **not**, so that
`AtMostOneCopy` is a statement about the coordinator's own protocol.  It may commit and then fail to
answer, answer late, or answer an inspection with any final state that agrees with what it holds.

`DeliveryContract` knows two variables, what the store says of a completion (`verdict`) and whether
the inbox holds it.  `DelegationDelivery` implements it under the mapping `Verdict`,
`copies[n] > 0`, checked as `PROPERTY Contract`.

### 2.3 `ManagedRun`

State: `live`, the `LiveRun` record of `execution/state.ts` with the program counters of the
asynchronous functions that share it, and `turns`, how often the provider entered the turn.  An
action is the code between two awaits.  Because a commit is an await, a commit is an action of its
own, and it takes the `DelegationStore` action it sends; whatever the planner refuses is an error
path of the caller.  The program counters are:

* `main`: `prepareRun` followed by `consumeTurn`; `closer`: `runtimeCleanup`, which runs beside
  `cleanupRun` (`finish`);
* `control[c]`: one per steering message, answer and the cancellation, serialized by `live.tail` as
  `serializeControl` does, each with its intent, its bounded provider call, and its receipt;
* `calls`: provider and host calls still running, including those whose caller has given up
  (`boundedControl` stops waiting, the call does not end).

A request takes two steps from the reader to its host: `RouteRequest` waits for an unsettled answer and
looks at the live run, `PresentRequest` commits it as opened and presents it.  An abort may fall between
them: the request is then opened, aborted at once, and shown to nobody.  An answer whose deadline passes
before the provider was entered is reported `rejected` while its call goes on (`NotEntered`).
`overruled` is the doubt a settlement replaced its outcome by (`finishRun`'s `reason: live.uncertain`),
which is recorded with the run.

Hosts and providers are the environment: a gate may refuse at any time, a call may succeed, be
rejected, or end without telling.  `agent-runtime`'s turn execution is present only in what it
guarantees to the reader: it enters a turn once, emits nothing before entry, fails the output of an
aborted lifetime.

### 2.4 `AcpWriter`

State: `write[f]`, what the closures of `writeNow` know of frame `f` (its caller, its callback, drain,
listeners, and the promise handed to `observeSettlement`), `queue` and `queuedBytes` (the promise chain
and its byte budget), `disposed`, and whether the stream is still `open`.  The stream is Node's: it calls
back once for each write it took, drains after refusing to buffer, and may fail.  `Continue` takes the
continuations of an answered write in one step, because they are microtasks queued before the next
frame's turn: the budget is given back, and `writeOrFail` disposes of the writer when the write was
rejected.  `OwnerDisposes` is a `close` at any other time.  A write that `write` refuses (disposed, too
large, buffer full) changes nothing here; the disposal that follows it in `client.ts` is `OwnerDisposes`.
`dispose`'s wait for the queue changes no state of the writer and is left out.

### 2.5 `AcpClient`

State: `client`, with the connection's life (`open`, the three waits of `close`, `closed`), the pending
requests of this side, what each reserved id of the peer is doing, the notification handlers, and what
a close waits for.  The frames of requests, responses, refusals and notices are the writer's frames, and
every step that writes is a step of `AcpWriter` too.  `Shut` is `close`: it may be called by the host, by
a fatal error of the framer, from inside a handler, and it follows every rejected write (`AfterWrite`).
That the client respects what the writer assumes of its owner is `PROPERTY WriterSpec`, and theorem
`ClientImplementsOwner`: every behaviour
of the client is, on the writer's variables, a behaviour of `AcpWriter`.  The writer's proofs therefore
speak of the writer as it is used.  Framing and validation have one outcome here, a fatal error.

### 2.6 `TurnRequests` and `AgentSession`

`TurnRequests` has one operator per method of the request admission (`open`, `claim` with its `restore`
and `retire`, `suspend` with its `restore`, `unavailable`), so that it can be read beside the code and
used inside the session.  `AgentSession` keeps `session` (usable, stopped, the one execution slot, the
identities used), `exec` (the latest turn execution: its state, its requests, where `next` waits, whether
a pull outlives it), `calls` (answers, interruptions and steering inside the provider), `binding` (the
host's lease and its tool invocations) and `close` (where `closeOwned` is).  The consumer may call
`next` and `return` at any time, callers and provider are the environment; one steering call and one
operation at a time is a bound of the model.  `doubt` and `exec.spent` are
history: no guard reads them.  They say that an effect is unknown, and which requests must not be seen
again.

### 2.7 `SandboxOwner`

State: the `snapshot` the host sees, the once-only startup and process, the streams, the one file
operation, and the attempts `stop` and `destroy`, which are memoized while they run and after they
succeed, and forgotten when they fail.  `StopFrom` is `beginStop`: it enters the driver before anything
is joined.  `fence` and `stop` are called from everywhere; `FenceAndStop` is the pair.  A file
operation's release may fail and leave it dirty; a later cleanup retries it, and an attempt that was
waiting learns of a failure only when it comes to join it.  The bounded waits of `stop` and `destroy`
(`observe`) change nothing but what their caller is told and are left out.

## 3. Runs

All runs bound the number of owners by `MaxEpoch`; other bounds are the sizes of the sets given in
the `.cfg` files, and the one state constraint, of `managed_request`.

| Run | Instance | Why it is enough |
| --- | --- | --- |
| `store_controls` | 1 task, 1 run, 2 controls, 2 requests, 2 owners | two controls are needed for two answers of one request or for an answer racing a steer; a second owner for take-over |
| `store_tasks` | 2 tasks, 3 runs, limits of 2 active and 2 queued | each limit is reached, a task has a settled, an active and a queued run at once |
| `store_cleanup` | 1 run, the three executor slots, 2 owners | both attempts of each slot, receipts in every order, take-over between them |
| `delivery` | 2 notifications, 3 owners | two notifications compete for the one callback; two crashes in a row |
| `managed` | 1 configuration, 1 steer, cancellation by the user, failing openings, interrupts, closes and releases, a crash, 2 owners | every pair of steer, interrupt, terminal and cleanup interleaves; a crash at every step; the operation budget is just used up when the cleanup begins |
| `managed_request` | 2 requests, 2 answers, 1 steer, cancellation by the user and by the coordinator, failing host callbacks, room for two of the three controls; followed until `finishRun` (`UntilItEnds`) | a second request while the first one's answer is late; two answers of the same request; a request opened beside a steering whose effect is unknown; an answer whose intent a user's cancel refuses.  Nothing is lost beyond `finishRun`: without crashes a finish is not taken back, and the property asks nothing of a run that finishes |
| `managed_overwrite` | smallest instance | expected violation, see below |
| `managed_cancel_race` | smallest instance with both causes of cancellation | expected violation, see below |
| `acp_client` | 2 ids, every limit 1, frames of 1 and 2 bytes, a buffer of 2 and a frame limit of 1; the stream fails only during a write | both sides use both ids; each limit and the buffer are met exactly; a response too large for a frame; a write outlives the close |
| `writer_idle_close` | 3 frames of 1, 2 and 3 bytes; the stream may also close when idle | expected violation, see below |
| `agent_session` | 2 turns, 2 requests, 2 interruptions together, 1 tool call, 1 failing cleanup step | two interruptions holding one request back and a request opened between them; a late pull of the first turn beside the second; a close retried after each step |
| `sandbox_owner` | 1 sandbox, 3 failures of cleanup steps | a stop, a destruction and a release each fail, or one of them three times |

What they show is stated at each property.  `TypeOK` of the store is the type invariant that is
checked and proved; the other definitions ending in `TypeOK` describe the variables of their modules.
Deadlock is not checked: a store nobody uses, a
settled run, a closed client or session and a destroyed sandbox may stop.

### 3.1 Fairness

* Delivery: the event loop runs what is ready (`WF` of a pass, of the owner's steps), timers fire
  (`WF` of expiry and retry), a callback ends or times out, a host restarts a coordinator whose
  store failed.  The one strong assumption is on the inbox: it does not forever keep back what it
  knows of one notification (`SF` of a conclusive inspection).  The package README makes delivery
  conditional on exactly that, and without it `EventuallyConcluded` is false.
* Managed run: the event loop runs each continuation (`WF` per asynchronous function); the grace
  timer fires; provider and host *calls* return in the end, though not before their callers gave
  up; an aborted lifetime fails the output (agent-runtime's turn execution enforces it).  The
  provider owes no output, and no end of a turn.  A new owner recovers what it finds, but nobody
  has to come: `FinishSettles` and `CancelSettles` assume that owners do not die for ever
  (`StaysOwned`).
* Writer and client: microtasks run; the stream calls back every write it took, drains after a
  successful callback, and reports the failure of a write whose callback carried an error; the timers
  of a close fire and the host's transport disposer returns.  Nobody owes an answer, the end of a
  handler, or a disposal.
* Session: calls inside the provider and tool calls inside the host return, the close's own
  continuations run, and the owner of a session whose close failed closes it again.  Nobody has to read
  the output or to close in the first place.
* Sandbox: `driver.stop`, `driver.destroy` and a retried release return; work whose signal is aborted
  ends once compute is gone, *but not before*; whoever asked for a destruction that failed asks again.

### 3.2 Findings

* `managed_overwrite`: README.md:153 of the package says a cancellation race does not overwrite a
  completed result.  `consumeTurn` keeps a terminal that was read only when a `finishRun` is already
  under way (`stream.ts:131`).  If the grace timer of a cancellation aborts the lifetime between the
  completed terminal and the end of the output, the completed result is replaced by
  `recovery_required`.  What does hold is `ReportedResultIsKept`: once the reader has handed the
  terminal to `finishRun`, a cancellation leaves it alone.
* `managed_cancel_race`: `cancelLive` reads the run and then commits its own cancel
  (`control.ts:39-44`).  A user's cancel committed in between turns the commit into an
  `operation_conflict`; `live.cancellation` is then a rejected promise that every later call
  returns, and the run is neither interrupted nor aborted.  With one cause of cancellation,
  `CancelSettles` holds (`managed`).
* `writer_idle_close`: the write callback ignores an error (`messageWriter.ts:86`) because a stream event
  should follow.  On a stream destroyed before the frame's turn none does, and the obligation the README
  (lines 100-101) says a callback or termination must settle stays pending.  If the stream only fails
  during a write, every write ends (`acp_client`).

## 4. Proofs

Every theorem holds for all values of the constants: any number of tasks, runs, controls, requests,
notifications, frames, ids, invocations, owners and failures, and any limits.  Each rests on an
inductive invariant, since hardly any of the properties is inductive as it stands; each section names the
invariant's parts and what they are needed for.  Apart from `MaxEpoch`, `MaxTurns` and `MaxFailures`,
which name the bounds of the model, a constant is a set or a limit the code is configured with.

### 4.1 The store (`DelegationStoreProofs`)

Every command about an admitted run is a `Commit` of one run record and one ledger, so the argument has
two layers: what a commit keeps when the record moves legally, and that each command moves it legally.
Three invariants, each on top of the one before:

* `IInv` (`StoreInvariant`) gives `TypeCorrect`, `RequestWaits` (`WaitingMatchesRequest`), and two
  statements about the records that the runs check through `RunPromise` only: `OneExecutor`
  (`OneExecutorPerTask`) and the action property `SettlementFinal` (`SettlementIsFinal`).
  `OneExecutorPerTask` needs `Ordinals` (a queued run holds the latest ordinal of its task; otherwise
  a new run could be admitted below it) and `Traces` (what is not admitted has left nothing).
  `WaitingMatchesRequest` needs `RequestTruth` for each phase, and that a resolution in the ledger names
  its request, because a late receipt moves the run by the request its *ledger entry* remembers.
* `LedgerInv` (`LedgerInvariant`) gives `BackedOutcomes` (`OutcomeIsBacked`, what the ledger must hold
  behind an outcome; the runs check what a parent sees of it, in `RunPromise`), `DoubtIsSticky`
  (`UncertaintyIsSticky`), `OneAnswer` (`OneAnswerPerRequest`), `OneExecutorEpoch`
  (`SingleExecutorEpoch`), `OrderedCleanup` (`CleanupOrder`) and the action property
  `CancelStopsInput` (`NoInputAfterCancel`).  Its parts relate a run record to its own ledger
  (`LedgerTruth`): which kind an id may hold, that provider inputs carry the executor's epoch, that a
  turn stands on a completed preparation, that a request whose answer may have taken effect offers no
  further one.  `DoubtKnown` carries an unknown effect from the ledger to the task.  Both are needed
  because receipts arrive in any order and after a takeover.
* `ExactCapacity` (`CapacityExact`): the counters the planner adjusts by hand are the census of its
  records.  Counting is done with `FiniteSetTheorems`: each command moves one run between two counted
  sets, or enters one ledger slot, and the lemmas say what that does to the cardinalities.
* `StoreKeepsPromise` (`RunPromise`): the planner implements `RunContract`.  Every command is one step of
  the contract or invisible to a parent.  Two facts are needed beyond the invariants above:
  `QueuedFresh` (a queued run has left no trace with a provider and is not in doubt, so that "not
  dispatched" may be said of it) and `DoubtReal` (a task is in recovery only over a run whose truth is
  lost, so a task is given up only for a reason a parent can see).

Assumptions: `LimitsAssumption`, `IdentityAssumption`, `ControlsAssumption` (limits are positive,
runs and tasks are finite in number, `NoTask` and `NoRequest` are outside the sets they stand beside,
controls are not fixed slots).

### 4.2 Delivery (`DelegationDeliveryProofs`)

`DeliveryInv` gives `NoDuplicateDelivery` (`AtMostOneCopy`), `OwnedCallback` (`CallbackIsOwned`) and
`ImplementsContract`: `DelegationDelivery` implements `DeliveryContract` under its refinement mapping.
`AtMostOneCopy` depends on a chain: an acceptance is asked for only after an inspection found nothing
(`ResultTrue`), by a scheduler that holds the claim (`PumpTrue`), with no callback of an earlier try
still able to commit (`CallsTrue`), and a record without doubt has no copy (`NotesTrue`).  The same
parts show that every receipt is a step of the contract.

`NoneForgotten` (`NothingForgotten`) is the safety core of `EventuallyConcluded`: no wake-up is lost and
no claim is stranded.  A pass may return without arming a timer, because a callback that outlived its
deadline will wake the scheduler; a wake-up during a pass is only remembered; a claim is left behind by a
crash.  `WakeInv` shows that at every moment one of list, remembered wake-up, callback, timer or recovery
has each undelivered completion; it needs `ClaimsPast` (no claim is ahead of the latest owner), without
which a new owner could take a claim for its own.  Assumption: `DeliveryAssumption`.

### 4.3 The live run (`ManagedRunProofs`)

A step changes the `live` record and, when it commits, the store.  `ManagedImplementsStore` proves
`ManagedSpec => Spec`: each step of the coordinator is a command of the planner or leaves the store
alone, so all of 4.1 holds of the store this run journals in; `ManagedKeepsPromise` (`RunPromise`) is
that consequence for the contract a parent relies on.  On the side of the record there are
three invariants:

* `ManagedInv` = `IInv`, `Sane(live)` and `TurnTrue`, gives `ManagedTyped`, `ControlsSerialized`
  (`HeadHolds`: a control in the middle of its work is at the head of the tail, or an answer that has
  already given it up) and `TurnEnteredOnce` (`OneTurn`).  `OneTurn` needs the store: after a
  crash it is the phase the store remembers that keeps a second owner from preparing the run again.
* `HonestInv` adds `LedgerInv`, `Orderly` and `SettledAs`, and gives `QuietBeforeRelease`
  (`ReleasedAfterQuiescence`), `HonestOutcome` (`OutcomeIsHonest`) and `ResultKept`
  (`ReportedResultIsKept`).  `Orderly` is the order in which the parts of a run come to rest: nothing
  is finished before the session opens (`Unopened`), no call survives the join (`Joined`), only the
  cleanup closes (`Shut`), nothing is given back before that (`GivenBack`), a terminal is read only of
  an entered turn (`TurnFirst`), what is reported is what was read (`Reported`), and a doubt is always
  somewhere: in a control awaiting its receipt, in the live record, or recorded (`SteeringDoubt`,
  `ResultsRecorded`, `OpenDoubt`).  The last three are why
  `OutcomeIsHonest` survives a steering message whose result arrives during the cleanup.  `KeptResult`
  says what may replace a reported result: a failed cleanup, the mark of an uncertain control, or an
  answer, a host callback or the output lost meanwhile (`overruled`).
* `WaitInv` adds `Waiting` and `AnswersRecorded`, and gives `NoStrandedWait` (`WaitingIsAnswerable`).
  The live record and the store change at different times; `Waits` says how far apart they may be:
  the request the store waits for is shown and not retired, unless the reader is just retiring it.
  `AnswersRecorded` ties the receipt of a late answer to the request it was for.  `WaitingIsAnswerable`
  asks of the live record all that `continueRequest` asks before it admits an answer (`AdmitsAnswer`,
  `control.ts:152`), and names every exception: an answer at its intent or with an unknown effect to
  report, a run being cancelled, finished or aborted, and `SteeringInDoubt`.  The last one lasts: a steering
  of unknown effect closes the run to answers and ends nothing (`control.ts:106`), so a request opened
  beside it waits until the run is cancelled or the provider withdraws it or ends the turn.  That
  nothing else does this is what the property adds.

Assumptions beyond the store's: `ManagedAssumption`.  A steer is not an answer, there is at most one
configuration (5), and the three executor slots exist, as they do in the code.

### 4.4 ACP writer and client (`AcpWriterProofs`, `AcpClientProofs`)

`WriterInv` gives `SerializedWrites`, `HonestSettlement`, `OwnedErrors` and their conjunction
`OwnedOutput` (`OutputIsOwned`).  `OneInStream` needs `WaitsInTurn` (a frame in the stream whose caller
waits is the head of the queue) and `AnsweredEarly` (a caller is answered before the callback only by a
disposal, after which nothing enters, or by the end of the stream); `SettledMeansOver` needs
`NeverEarly`.  They hold for an idle close too.

`ExactBudget` (`BudgetExact`): `queuedBytes` is the sum of what is queued and never above the buffer.  The
sum is stated by its *partial sums from the end of the queue*, which make it provable without an induction
over data: a submission adds the new frame to each of them (`SubmitCharges`), the end of a write drops the
first (`AccountReleases`).  `OneSum` shows that a queue has only one such sum, and `PartOfTheSum` that no
part exceeds it, both by a least counterexample (the well-founded order of the naturals).
`ClientBudget` carries it to the writer as the client uses it.

`ClientInv` gives `ClientImplementsOwner` (`WriterSpec`, which `acp_client` checks), hence
`ClientOutputIsOwned` and `ClientBudget`, and `UnambiguousIds` (`IdsUnambiguous`), `TransportIsQuiet` (`QuietTransport`)
and `ClientLimits`.  A close may happen inside any other action, so the invariant is stated of *a*
client and shown to survive the pair.  `AnswersWritten` (what has been written in answer to an id agrees
with the state of the id) is what keeps an id of the peer taken until its answer has left; `Fenced`
(the writer is disposed exactly when the client has begun to close) is what makes the client a legal
owner.  Assumptions: `WriterAssumption`, `ClientAssumption`.

### 4.5 Session (`TurnRequestsProofs`, `AgentSessionProofs`)

`TurnRequestsProofs` states what each method of the request admission returns (one request presented
at a time, none left behind while it may be presented, nothing retired comes back).  `SessionInv`
then gives `RequestsAreFair` (`FairlyPresented`), `NothingReplayed` (`NoReplay`), `ExecutionsApart`
(`OneExecution`), `ReleaseIsLast` (`BindingReleasedLast`) and the action property `DoubtIsFinal`
(`NoEntryAfterDoubt`).  `SlotTrue` (who has the slot has the provider) and `FenceTrue` (doubt and stop
make the session unusable) carry the exclusion; `CloseTrue` says what a close that has got
so far has found over, and why it stays over while a failed close is retried.  Assumptions:
`RequestsAssumption`, `SessionAssumption`.

### 4.6 Sandbox (`SandboxOwnerProofs`)

`SandboxInv` gives `TrueSnapshot` (`SnapshotIsTrue`), `StorageGoesLast` (`StorageLast`) and the action
property `NoReturn` (`NoWayBack`).  `StopTrue` (what a stop past its join has found over) and
`DestroyTrue` (what a destruction knows of the export it found) are needed because a stop can fail and
be retried while a file operation it once waited for is released by someone else.

`NeverStuck` (`NobodyStuck`) is the safety core of `DestroyCompletes`: whoever waits, waits for somebody
who has not given up, though a stop, a destruction and a release are each forgotten when they fail.
`WaitInv` adds that a destruction waits for transfers only: a live operation ends by its own release, and
one that failed under a waiting destruction would be retried by nobody.  Assumption: `SandboxAssumption`.

### 4.7 Only model-checked

Every invariant and action property of a passing run, and every refinement, is a theorem.  What is left:

* Every liveness property (`EventuallyConcluded`, `FinishSettles`, `CancelSettles`, `CloseEnds`,
  `WritesEnd`, `CloseCompletes`, `DestroyCompletes`): fairness and `ENABLED` are beyond the prover.
  `NoneForgotten` and `NeverStuck` prove, for two of them, that nothing is left without somebody to
  move it; that somebody then moves is TLC's.
* The properties of the runs that expect a violation are false, and so not provable.

## 5. Not modelled

* Observations and their cursors, and every limit in bytes: a bounded log nothing else reads.
* In `ManagedRun`: storage failures during a commit (the planner's refusals are modelled), several
  live runs, more than one configuration selection, a host that ignores the abort for ever.
* Parsing, schemas, formatting, MCP and tool surfaces: stateless translation.
* In `AgentSession`: several steering calls or several operations at once (one of each: a bound; they
  share only the fence, and the execution slot admits one operation anyway); execution input, native continuations, session interactions, collaboration and
  configuration ports; the validation of events that touch no request.
* In `AcpClient`: framing, JSON and schema validation, the child process.
* In `SandboxOwner`: the owner of a recovered sandbox, `withSandbox`, the inside of a transfer, policies.
* `agent-protocol`, `validation`: schemas and pure validation, most of it generated.
* `agent-history`, `provider-acp`, `acp-registry`: see the plan.
* `sandbox-docker`: Docker, filesystem and process I/O; generated schemas; example hosts and
  repository scripts.

The modelled parts are a small share of the repository's lines: most of it is schemas, parsing, platform
I/O, adapters of provider formats and tooling, which have no state machine to check.

## 6. Plan

Next, in this order:

1. `ManagedRun`: storage failure at every commit, and what shutdown retains then.
2. `RunPump`: several runs and tasks, executor slots, `schedulePending` wake-ups, queue timers, drain.
3. `InstallStore` (`acp-registry`, with crashes between staging, rename and lock release),
   `SessionQueue` (`provider-acp`), `HistoryOwner` (`agent-history`).
4. Policy resolution (`policy/`) as operators against a reference definition.
